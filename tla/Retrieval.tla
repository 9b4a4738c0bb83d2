---- MODULE Retrieval ----
(***************************************************************************)
(* What retrieval is built from (rag/chunking, rag/retrieval,              *)
(* rag/embedding/batch_embedder.py, rag/indexing).  `retrieves` says what a *)
(* behaviour is about: one of the four chunkers, the fusion of two         *)
(* rankings and its reranking, the embedding of texts in batches, the FAISS *)
(* store with its files, a store outside with its fallback, or the index   *)
(* of terms.                                                               *)
(***************************************************************************)
EXTENDS Naturals, Integers, Sequences, SequencesExt, FiniteSets, FiniteSetsExt

CONSTANTS ChunkSize, ChunkOverlap,
          Lookback,            \* how far back a chunk may end at a blank
          MaxText,             \* bound: length of a text, of lines, of paragraphs
          MaxChunks,           \* bound: chunks
          Lengths, MinSection, \* of a paragraph; min_section_length
          MaxHeading,          \* max_heading_level
          Ids, Scores,
          FusionK, Weights,    \* RRFFusion.k; what the first ranking weighs, of 10
          Contributions,       \* 1 / (FusionK + rank), as whole numbers
          Batches,             \* the numbers of texts in each batch
          MaxConcurrent, MaxRetries,
          MaxAdded             \* bound: documents that are added

VARIABLES retrieves,
          text,       \* a text: characters, paragraphs or lines
          chunks,     \* its chunks: the places that each holds
          at,         \* FixedSizeChunker: where the next chunk begins; Ended at the end of the text
          fusion,     \* the rankings, their fusion, and the reranking of it
          batches,    \* BatchEmbedder: per batch its phase and its attempts
          embedded,   \* the result, when all batches have ended
          store,      \* FAISSStore: its index, _documents, _id_to_idx, _next_idx
          files,      \* the index file and the metadata file; of two saves if it was interrupted
          outside,    \* MilvusStore or ChromaStore, and what its caller was told
          terms       \* SparseRetriever: _documents, the rows of its statistics, _doc_map

vars == <<retrieves, text, chunks, at, fusion, batches, embedded, store, files, outside, terms>>

Ended == -1
Texts(kinds) == UNION {[1..n -> kinds] : n \in 1..MaxText}
Numbers(first, last) == [n \in 1..(last - first + 1) |-> first + n - 1]
Larger(a, b) == IF a > b THEN a ELSE b
Given(t) == text' = t

---------------------------------------------------------------------------
(* FixedSizeChunker.chunk_text(): each chunk of the loop is a step. *)

GiveFixed ==
    text = <<>> /\ \E t \in Texts({"char", "blank"}) :
        /\ Given(t)
        /\ IF Len(t) <= ChunkSize THEN chunks' = <<Numbers(1, Len(t))>> /\ at' = Ended
           ELSE chunks' = chunks /\ at' = 0

\* The end of the window, or the first blank of the last few characters before it.
FixedEnd ==
    LET end == Min({at + ChunkSize, Len(text)})
        blanks == {end - i : i \in {j \in 1..Lookback : end - j > at /\ text[end - j + 1] = "blank"}}
    IN  IF end = Len(text) \/ blanks = {} THEN end ELSE Min(blanks)

\* The next chunk begins before the end of this one, also when that is the end of the text.
NextChunk ==
    /\ at # Ended /\ at < Len(text) /\ Len(chunks) < MaxChunks
    /\ chunks' = Append(chunks, Numbers(at + 1, FixedEnd))
    /\ at' = IF FixedEnd - ChunkOverlap >= Len(text) THEN Ended ELSE FixedEnd - ChunkOverlap
    /\ UNCHANGED text

---------------------------------------------------------------------------
(* RecursiveChunker.chunk_text(): paragraphs, words, characters *)

Separators == <<"paragraph", "blank">>

\* The pieces of a range, each with the separator after it
Pieces(t, first, last, separator) ==
    LET ends == SetToSortSeq({i \in first..last : t[i] = separator}, <) \o <<last>>
    IN  [n \in DOMAIN ends |-> Numbers(IF n = 1 THEN first ELSE ends[n - 1] + 1, ends[n])]

\* _split_text(): the first separator that occurs.  What was collected before a piece that
\* is too large is put out, and is still there after it.
Splits(t) ==
    LET separatorsIn(level, first, last) ==
            {l \in level..Len(Separators) : \E i \in first..last : t[i] = Separators[l]}
        byCharacter(first, last) ==
            [n \in 1..((last - first) \div (ChunkSize - ChunkOverlap) + 1) |->
                LET from == first + (n - 1) * (ChunkSize - ChunkOverlap)
                IN  Numbers(from, Min({from + ChunkSize - 1, last}))]
        split[level \in 1..(Len(Separators) + 1), first \in DOMAIN t, last \in DOMAIN t] ==
            IF separatorsIn(level, first, last) = {} THEN byCharacter(first, last)
            ELSE LET l == Min(separatorsIn(level, first, last))
                     pieces == Pieces(t, first, last, Separators[l])
                     after[n \in 0..Len(pieces)] ==
                         IF n = 0 THEN [out |-> <<>>, current |-> <<>>]
                         ELSE LET before == after[n - 1]
                                  piece == pieces[n]
                                  out == IF before.current = <<>> THEN before.out
                                         ELSE Append(before.out, before.current)
                              IN  IF Len(before.current) + Len(piece) <= ChunkSize
                                  THEN [before EXCEPT !.current = @ \o piece]
                                  ELSE IF Len(piece) > ChunkSize
                                  THEN [before EXCEPT !.out = out \o split[l + 1, Head(piece), Last(piece)]]
                                  ELSE [out |-> out, current |-> piece]
                     end == after[Len(pieces)]
                 IN  IF end.current = <<>> THEN end.out ELSE Append(end.out, end.current)
    IN  split[1, 1, Len(t)]

\* _merge_splits(): stripped, and dropped when nothing is left
Stripped(t, c) ==
    LET solid == {n \in DOMAIN c : t[c[n]] = "char"}
    IN  IF solid = {} THEN <<>> ELSE SubSeq(c, Min(solid), Max(solid))
GiveRecursive ==
    text = <<>> /\ \E t \in Texts({"char", "blank", "paragraph"}) :
        /\ Given(t) /\ UNCHANGED at
        /\ LET splits == Splits(t)
           IN  chunks' = SelectSeq([n \in DOMAIN splits |-> Stripped(t, splits[n])], LAMBDA c : c # <<>>)

---------------------------------------------------------------------------
(* SemanticChunker.chunk_text(): a text is the lengths of its paragraphs. *)

Chars(t, section) ==
    LET sum[n \in 0..Len(section)] ==
            IF n = 0 THEN 0 ELSE sum[n - 1] + t[section[n]] + (IF n = 1 THEN 0 ELSE 2)
    IN  sum[Len(section)]

\* _merge_small_sections()
Sections(t) ==
    LET merged[n \in 0..Len(t)] ==
            IF n = 0 THEN [out |-> <<>>, buffer |-> <<>>]
            ELSE LET before == merged[n - 1]
                     buffer == before.buffer
                 IN  IF t[n] < MinSection THEN [before EXCEPT !.buffer = Append(@, n)]
                     ELSE [out |-> before.out \o
                               (IF buffer = <<>> THEN <<<<n>>>>
                                ELSE IF Chars(t, buffer) < MinSection THEN <<Append(buffer, n)>>
                                ELSE <<buffer, <<n>>>>),
                           buffer |-> <<>>]
        end == merged[Len(t)]
    IN  IF end.buffer = <<>> THEN end.out
        ELSE IF end.out # <<>> /\ Chars(t, end.buffer) < MinSection
        THEN Front(end.out) \o <<Last(end.out) \o end.buffer>>
        ELSE Append(end.out, end.buffer)

\* _split_oversized_section(): by sentences, here a paragraph each with its line break, and
\* the end of a chunk again at the beginning of the next.  A chunk is the paragraphs it adds.
Oversized(t, section) ==
    LET sentence(n) == t[section[n]] + (IF n = Len(section) THEN 0 ELSE 1)
        after[n \in 0..Len(section)] ==
            IF n = 0 THEN [out |-> <<>>, adds |-> <<>>, length |-> 0]
            ELSE LET before == after[n - 1]
                 IN  IF before.length + sentence(n) > ChunkSize /\ before.adds # <<>>
                     THEN [out |-> Append(before.out, [adds |-> before.adds, length |-> before.length]),
                           adds |-> <<section[n]>>,
                           length |-> sentence(n) + (IF before.length > ChunkOverlap THEN ChunkOverlap ELSE 0)]
                     ELSE [before EXCEPT !.adds = Append(@, section[n]), !.length = @ + sentence(n)]
        end == after[Len(section)]
    IN  Append(end.out, [adds |-> end.adds, length |-> end.length])

\* A section of one sentence goes to the fixed-size chunker.
GiveSemantic ==
    text = <<>> /\ \E t \in Texts(Lengths) :
        /\ Given(t) /\ UNCHANGED at
        /\ LET sections == Sections(t)
               pieces(s) == IF Chars(t, s) <= ChunkSize \/ Len(s) = 1
                            THEN <<[adds |-> s, length |-> Chars(t, s)]>> ELSE Oversized(t, s)
           IN  chunks' = FlattenSeq([n \in DOMAIN sections |-> pieces(sections[n])])

---------------------------------------------------------------------------
(* MarkdownChunker.chunk_text(): a text is its lines: a heading is its level, 0 is a line *)
(* of text, 9 a block of code with what looks like headings.                              *)

Headings(t) == {n \in DOMAIN t : t[n] \in 1..6}

\* _build_header_path(): all headings so far that are not too deep
HeaderPath(t, n) == SetToSortSeq({m \in Headings(t) : m <= n /\ t[m] <= MaxHeading}, <)

\* _parse_sections(): from a heading to the next one
MarkdownSections(t) ==
    LET headings == SetToSortSeq(Headings(t), <)
    IN  IF headings = <<>> THEN <<[heading |-> 0, path |-> <<>>, holds |-> Numbers(1, Len(t))]>>
        ELSE [n \in DOMAIN headings |->
                 [heading |-> headings[n], path |-> HeaderPath(t, headings[n]),
                  holds |-> Numbers(headings[n] + 1,
                                    IF n = Len(headings) THEN Len(t) ELSE headings[n + 1] - 1)]]
GiveMarkdown ==
    text = <<>> /\ \E t \in Texts({0, 1, 4, 9}) : Given(t) /\ chunks' = MarkdownSections(t) /\ UNCHANGED at

ChunkNext == \/ retrieves = "fixed" /\ (GiveFixed \/ NextChunk)
             \/ retrieves = "recursive" /\ GiveRecursive
             \/ retrieves = "semantic" /\ GiveSemantic
             \/ retrieves = "markdown" /\ GiveMarkdown

---------------------------------------------------------------------------
(* HybridRetriever.retrieve() and the reranking of what it found *)

Rankings == UNION {{s \in [1..n -> Ids] : IsInjective(s)} : n \in 0..Cardinality(Ids)}
Rank(s, d) == CHOOSE n \in DOMAIN s : s[n] = d
Contribution(s, d) == IF d \in Range(s) THEN Contributions[Rank(s, d)] ELSE 0

\* RRFFusion.fuse(): the sort is stable, in the order in which documents were first seen.
Fused(dense, sparse, weight) ==
    LET seen == dense \o SelectSeq(sparse, LAMBDA d : d \notin Range(dense))
        score(d) == weight * Contribution(dense, d) + (10 - weight) * Contribution(sparse, d)
    IN  SetToSortSeq(Range(seen), LAMBDA c, d :
            score(c) > score(d) \/ (score(c) = score(d) /\ Rank(seen, c) < Rank(seen, d)))
Retrieve(dense, sparse, weight, k) ==
    /\ fusion = <<>>
    /\ fusion' = [dense |-> dense, sparse |-> sparse, weight |-> weight,
                  found |-> SubSeq(Fused(dense, sparse, weight), 1, Min({k, Len(Fused(dense, sparse, weight))})),
                  scores |-> <<>>, reranked |-> <<>>]

\* Reranker.rerank() with a model: the scores that reach the threshold, the best first
Rerank(score, threshold) ==
    /\ fusion # <<>> /\ fusion.found # <<>> /\ fusion.scores = <<>>
    /\ fusion' = [fusion EXCEPT !.scores = score, !.reranked =
           SelectSeq(SetToSortSeq(Range(fusion.found), LAMBDA c, d :
               score[c] > score[d] \/ (score[c] = score[d] /\ Rank(fusion.found, c) < Rank(fusion.found, d))),
               LAMBDA d : score[d] >= threshold)]

FusionNext ==
    \/ fusion = <<>> /\ \E dense, sparse \in Rankings, weight \in Weights, k \in 1..2 :
           Len(dense) <= 2 * k /\ Len(sparse) <= 2 * k /\ Retrieve(dense, sparse, weight, k)
    \/ \E score \in [Ids -> Scores], threshold \in Scores : Rerank(score, threshold)

---------------------------------------------------------------------------
(* BatchEmbedder.embed() *)

Numbered == DOMAIN Batches
In(phase) == {b \in Numbered : batches[b].phase = phase}
Set(b, phase, tried) == batches' = [batches EXCEPT ![b] = [phase |-> phase, tried |-> @.tried + tried]]

\* _embed_batch_with_retry(): the semaphore is held during the call, not during the delay.
BatchCalls(b) == b \in In("waiting") /\ Cardinality(In("calling")) < MaxConcurrent /\ Set(b, "calling", 1)
BatchEmbedded(b) == b \in In("calling") /\ Set(b, "done", 0)
BatchFails(b) ==
    /\ b \in In("calling")
    /\ Set(b, IF batches[b].tried <= MaxRetries THEN "delayed" ELSE "failed", 0)
BatchAgain(b) == b \in In("delayed") /\ Set(b, "waiting", 0)

\* The results in the order of the batches.  A failed one is counted with the size of the
\* batch whose number is that of the successful ones before it.
Counted ==
    LET upTo[n \in 0..Len(Batches)] ==
            IF n = 0 THEN [rows |-> <<>>, ok |-> 0, failed |-> 0]
            ELSE LET before == upTo[n - 1]
                 IN  IF batches[n].phase = "done"
                     THEN [before EXCEPT !.rows = @ \o [i \in 1..Batches[n] |-> n], !.ok = @ + 1]
                     ELSE [before EXCEPT !.failed = @ + Batches[before.ok + 1]]
    IN  upTo[Len(Batches)]
EmbedEnds ==
    /\ embedded = <<>> /\ In("done") \cup In("failed") = Numbered
    /\ embedded' = Counted /\ UNCHANGED batches

EmbedNext ==
    \/ EmbedEnds
    \/ /\ \E b \in Numbered : BatchCalls(b) \/ BatchEmbedded(b) \/ BatchFails(b) \/ BatchAgain(b)
       /\ UNCHANGED embedded

---------------------------------------------------------------------------
(* FAISSStore: a row of the index is the number of the document it was computed for. *)

EmptyStore == [index |-> <<>>, documents |-> <<>>, rowOf |-> <<>>, next |-> 0, added |-> 0, torn |-> FALSE]
With(f, x, y) == [z \in DOMAIN f \cup {x} |-> IF z = x THEN y ELSE f[z]]
Without(f, x) == [z \in DOMAIN f \ {x} |-> f[z]]

\* add(): a document without an embedding is not kept; one that is there stays there.
FaissAdd(d, hasEmbedding) ==
    /\ store.added < MaxAdded
    /\ store' = IF ~hasEmbedding THEN [store EXCEPT !.added = @ + 1]
                ELSE [index |-> With(store.index, store.next, store.added + 1),
                      documents |-> With(store.documents, store.next, [id |-> d, number |-> store.added + 1]),
                      rowOf |-> With(store.rowOf, d, store.next),
                      next |-> store.next + 1, added |-> store.added + 1, torn |-> store.torn]
    /\ UNCHANGED files

\* _rebuild_index(): the documents that are left, in their order, numbered anew
FaissRebuilt(documents) ==
    LET left == SetToSortSeq(DOMAIN documents, <)
        row(n) == documents[left[n + 1]]
        rows == 0..(Len(left) - 1)
    IN  [index |-> [n \in rows |-> row(n).number], documents |-> [n \in rows |-> row(n)],
         rowOf |-> [d \in {row(n).id : n \in rows} |-> Max({n \in rows : row(n).id = d})],
         next |-> Len(left), added |-> store.added, torn |-> store.torn]

\* delete(): the last document of an id
FaissDelete(d) ==
    /\ d \in DOMAIN store.rowOf
    /\ store' = FaissRebuilt(Without(store.documents, store.rowOf[d]))
    /\ UNCHANGED files

\* save(): the index, and then the rest; only the index when it fails in between.
FaissSave(whole) ==
    /\ files' = IF whole THEN [index |-> store, meta |-> store] ELSE [files EXCEPT !.index = store]
    /\ UNCHANGED store
\* load(), by another process
FaissLoad ==
    /\ store' = [files.meta EXCEPT !.index = files.index.index, !.added = store.added,
                                   !.torn = files.index # files.meta \/ files.meta.torn]
    /\ UNCHANGED files

FaissNext ==
    \/ \E d \in Ids : (\E e \in BOOLEAN : FaissAdd(d, e)) \/ FaissDelete(d)
    \/ \E whole \in BOOLEAN : FaissSave(whole)
    \/ FaissLoad

---------------------------------------------------------------------------
(* MilvusStore, ChromaStore: without a connection a store in memory stands in. *)

\* add(): the ids are returned whether or not the service took them.
OutsideAdd(d, works) ==
    outside' = [outside EXCEPT
        !.fallback = IF outside.connected THEN @ ELSE @ \cup {d},
        !.kept = IF outside.connected /\ works THEN @ \cup {d} ELSE @,
        !.told = @ \cup {d}, !.deleted = {}]

\* delete(): Chroma has no deletion without a connection.  The answer is how many were asked.
OutsideDelete(d, works) ==
    outside' =
        IF outside.connected
        THEN [outside EXCEPT !.kept = IF works THEN @ \ {d} ELSE @, !.deleted = IF works THEN {d} ELSE {}]
        ELSE IF outside.service = "milvus"
        THEN [outside EXCEPT !.fallback = @ \ {d}, !.deleted = {d} \cap outside.fallback]
        ELSE [outside EXCEPT !.deleted = {}]

\* search(), get(): a failure is answered with nothing; get() does not ask the fallback.
OutsideAsk(works) ==
    outside' = [outside EXCEPT
        !.found = IF ~outside.connected THEN outside.fallback ELSE IF works THEN outside.kept ELSE {},
        !.got = IF outside.connected /\ works THEN outside.kept ELSE {},
        !.deleted = {}]

OutsideNext ==
    \E works \in BOOLEAN : (\E d \in Ids : OutsideAdd(d, works) \/ OutsideDelete(d, works)) \/ OutsideAsk(works)

---------------------------------------------------------------------------
(* SparseRetriever *)

Documents(ids) == [n \in DOMAIN ids |-> [id |-> ids[n], number |-> n]]
LastPlace(docs) == [d \in {docs[n].id : n \in DOMAIN docs} |-> Max({n \in DOMAIN docs : docs[n].id = d})]

\* index()
IndexTerms(docs) == [documents |-> docs, rows |-> [n \in DOMAIN docs |-> docs[n].number], placeOf |-> LastPlace(docs)]
\* remove_document(): the last of an id, and everything indexed anew
RemoveTerms(d) ==
    /\ d \in DOMAIN terms.placeOf
    /\ terms' = IndexTerms(RemoveAt(terms.documents, terms.placeOf[d]))
TermsNext ==
    \/ terms.documents = <<>> /\ \E ids \in Texts(Ids) : terms' = IndexTerms(Documents(ids))
    \/ \E d \in Ids : RemoveTerms(d)

---------------------------------------------------------------------------
Init ==
    /\ retrieves \in {"fixed", "recursive", "semantic", "markdown", "fusion", "embed", "faiss", "outside", "terms"}
    /\ text = <<>> /\ chunks = <<>> /\ at = Ended
    /\ fusion = <<>>
    /\ batches = [b \in Numbered |-> [phase |-> "waiting", tried |-> 0]] /\ embedded = <<>>
    /\ store = EmptyStore /\ files = [index |-> EmptyStore, meta |-> EmptyStore]
    /\ \E service \in {"milvus", "chroma"}, connected \in BOOLEAN :
           /\ retrieves # "outside" => connected /\ service = "milvus"
           /\ outside = [service |-> service, connected |-> connected, kept |-> {}, fallback |-> {},
                         told |-> {}, deleted |-> {}, found |-> {}, got |-> {}]
    /\ terms = IndexTerms(<<>>)

Next ==
    /\ UNCHANGED retrieves
    /\ \/ ChunkNext /\ UNCHANGED <<fusion, batches, embedded, store, files, outside, terms>>
       \/ /\ retrieves = "fusion" /\ FusionNext
          /\ UNCHANGED <<text, chunks, at, batches, embedded, store, files, outside, terms>>
       \/ /\ retrieves = "embed" /\ EmbedNext
          /\ UNCHANGED <<text, chunks, at, fusion, store, files, outside, terms>>
       \/ /\ retrieves = "faiss" /\ FaissNext
          /\ UNCHANGED <<text, chunks, at, fusion, batches, embedded, outside, terms>>
       \/ /\ retrieves = "outside" /\ OutsideNext
          /\ UNCHANGED <<text, chunks, at, fusion, batches, embedded, store, files, terms>>
       \/ /\ retrieves = "terms" /\ TermsNext
          /\ UNCHANGED <<text, chunks, at, fusion, batches, embedded, store, files, outside>>
Spec == Init /\ [][Next]_vars

(***************************************************************************)
(* Properties                                                              *)
(***************************************************************************)
TypeOK ==
    /\ at \in {Ended} \cup 0..MaxText /\ Len(chunks) <= MaxChunks
    /\ \A b \in Numbered : batches[b].tried \in 0..(MaxRetries + 1)
    /\ store.added \in 0..MaxAdded /\ outside.kept \cup outside.fallback \subseteq Ids

Placed == UNION {Range(chunks[n]) : n \in DOMAIN chunks}

\* No chunk of fixed size is too long, and none leaves out what is before it.
FixedCovers ==
    retrieves = "fixed" /\ chunks # <<>> =>
        /\ \A n \in DOMAIN chunks : Len(chunks[n]) \in 1..ChunkSize
        /\ Placed = 1..Last(Last(chunks))

\* No character is left out by the recursive chunker and no chunk is too long; unless a
\* piece must be split further, its chunks repeat nothing and keep the order.
RecursiveCovers ==
    retrieves = "recursive" =>
        LET first == {n \in DOMAIN Separators : \E i \in DOMAIN text : text[i] = Separators[n]}
        IN  /\ {i \in DOMAIN text : text[i] = "char"} \subseteq Placed
            /\ \A n \in DOMAIN chunks : Len(chunks[n]) <= ChunkSize
            /\ /\ text # <<>> /\ first # {}
               /\ \A n \in DOMAIN Pieces(text, 1, Len(text), Separators[Min(first)]) :
                      Len(Pieces(text, 1, Len(text), Separators[Min(first)])[n]) <= ChunkSize
               => \A n \in 2..Len(chunks) : Head(chunks[n]) > Last(chunks[n - 1])

\* Every paragraph is in one chunk, in order; no section is too small but one that is alone,
\* and a chunk is only longer than allowed by a sentence that follows the end of another.
SemanticCovers ==
    retrieves = "semantic" /\ text # <<>> =>
        /\ FlattenSeq([n \in DOMAIN chunks |-> chunks[n].adds]) = Numbers(1, Len(text))
        /\ Len(Sections(text)) > 1 =>
               \A n \in DOMAIN Sections(text) : Chars(text, Sections(text)[n]) >= MinSection
        /\ \A n \in DOMAIN chunks :
               chunks[n].length <= Larger(ChunkSize, ChunkOverlap + text[chunks[n].adds[1]] + 1)

\* Each line after the first heading is in one section, under the last heading before it;
\* a heading inside a block of code begins none, and the path of a section ends with its
\* own heading, or with the last one that is not too deep.
MarkdownCovers ==
    retrieves = "markdown" =>
        /\ \A i \in DOMAIN text \ Headings(text) : (\E h \in Headings(text) : h < i) =>
               Cardinality({n \in DOMAIN chunks : i \in Range(chunks[n].holds)}) = 1
        /\ \A n \in DOMAIN chunks : \A i \in Range(chunks[n].holds) :
               \A h \in Headings(text) : h < i => h <= chunks[n].heading
        /\ \A n \in DOMAIN chunks : chunks[n].path # <<>> =>
               /\ Last(chunks[n].path) <= chunks[n].heading
               /\ text[chunks[n].heading] <= MaxHeading => Last(chunks[n].path) = chunks[n].heading

\* A document that is above another in both rankings is above it in the fusion, none comes
\* twice, and none is missing while there is room; reranking brings no new ones.
FusionRespects ==
    fusion # <<>> =>
        LET found == fusion.found
            above(s, c, d) == c \in Range(s) /\ (d \notin Range(s) \/ Rank(s, c) < Rank(s, d))
        IN  /\ IsInjective(found) /\ Range(found) \subseteq Range(fusion.dense) \cup Range(fusion.sparse)
            /\ \A d \in Range(found), c \in Ids :
                   above(fusion.dense, c, d) /\ above(fusion.sparse, c, d) =>
                       c \in Range(found) /\ Rank(found, c) < Rank(found, d)
            /\ Range(fusion.reranked) \subseteq Range(found)
            /\ \A c, d \in Range(fusion.reranked) :
                   fusion.scores[c] > fusion.scores[d] => Rank(fusion.reranked, c) < Rank(fusion.reranked, d)

\* However the calls overlap, there are never too many, and the embeddings are those of the
\* batches that succeeded, in the order of the texts; with one failed batch the counts agree.
BatchesCounted ==
    /\ Cardinality(In("calling")) <= MaxConcurrent
    /\ embedded # <<>> =>
           /\ \A i, j \in DOMAIN embedded.rows : i < j => embedded.rows[i] <= embedded.rows[j]
           /\ Range(embedded.rows) = In("done")
           /\ Cardinality(In("failed")) <= 1 =>
                  Len(embedded.rows) + embedded.failed = FoldSet(LAMBDA b, n : Batches[b] + n, 0, Numbered)

\* After every addition, deletion and reloading, what the index finds at a row is the
\* document the row was computed for, and an id leads to the last document that has it --
\* unless a save was interrupted between the two files.
RowsAgree ==
    ~store.torn =>
        /\ DOMAIN store.index = DOMAIN store.documents
        /\ \A r \in DOMAIN store.index : store.index[r] = store.documents[r].number /\ r < store.next
        /\ DOMAIN store.rowOf = {store.documents[r].id : r \in DOMAIN store.documents}
        /\ \A d \in DOMAIN store.rowOf :
               store.rowOf[d] = Max({r \in DOMAIN store.documents : store.documents[r].id = d})

\* Only one of the two stores is used, what is found was added, and an id that is said to be
\* deleted is in neither.
OutsideAgrees ==
    /\ (IF outside.connected THEN outside.fallback ELSE outside.kept) = {}
    /\ outside.found \cup outside.got \subseteq outside.told
    /\ outside.deleted \cap (outside.kept \cup outside.fallback) = {}

\* The statistics of a document stay at its place, whichever is removed.
TermsAgree ==
    /\ terms.rows = [n \in DOMAIN terms.documents |-> terms.documents[n].number]
    /\ \A d \in DOMAIN terms.placeOf : terms.documents[terms.placeOf[d]].id = d
    /\ \A m, n \in DOMAIN terms.rows : m < n => terms.rows[m] < terms.rows[n]

BuildingInv ==
    /\ TypeOK /\ FixedCovers /\ RecursiveCovers /\ SemanticCovers /\ MarkdownCovers /\ FusionRespects
    /\ BatchesCounted /\ RowsAgree /\ OutsideAgrees /\ TermsAgree
====
