---- MODULE RagIndex ----
(***************************************************************************)
(* What the RAG service keeps, in three parts that `keeps` chooses from.   *)
(*                                                                         *)
(* "documents": RAGPipeline.index_document() and delete_document()         *)
(* (rag/pipeline.py) over the store that is kept in memory                 *)
(* (rag/indexing/vector_store.py).  A document is chunked, waits for its   *)
(* embeddings, and is then stored and registered in one step.  The store   *)
(* keeps the embeddings as rows and finds the id of a row by the position  *)
(* of the id in a dictionary.                                              *)
(*                                                                         *)
(* "tasks": the queue of index updates of rag/incremental.py.  A batch is  *)
(* cut off the sorted queue and processed over awaits: deletions together, *)
(* then updates and additions one by one.  A task that fails goes back to  *)
(* the end of the queue.  Batches are begun by the scheduler and callers.  *)
(*                                                                         *)
(* "answers": the levels of rag/caching behind CacheOrchestrator: exact    *)
(* (L1, least recently used), semantic (L2) and precomputed (L4) answers.  *)
(* A semantic look-up or store awaits an embedding; what L2 and L4 find is *)
(* copied to L1.  An answer is the time it was made.                       *)
(***************************************************************************)
EXTENDS Naturals, Sequences, SequencesExt, FiniteSets, FiniteSetsExt

CONSTANTS Documents,               \* the ids: every upload has one of its own
          ChunkSize, ChunkOverlap,
          MaxLength,               \* bound: length of a text
          Callers,                 \* of process_batch()
          BatchSize, MaxQueue, MaxRetries,
          MaxTasks,                \* bound: tasks scheduled
          Queries, Askers,
          Ttl1, Ttl2, MaxSize1, MaxSize2,
          EmbedTime,               \* bound: how long an embedding takes
          MaxTime                  \* bound

VARIABLES keeps,
          texts,      \* the text of each document that was uploaded
          embedding,  \* the uploads that wait for their embeddings
          documents,  \* _documents: the chunks of each document that is registered
          stored,     \* the store's _documents: the chunks that are there
          keys,       \* the keys of _id_to_index, in the order of the dictionary
          rows,       \* _embeddings: the chunk each row was computed for
          queue,      \* _queue: the numbers of the tasks, in the order they were put there
          actions,    \* the action of each task that was scheduled
          attempts,   \* how often each was tried
          batches,    \* process_batch() of each caller: the tasks left
          dropped,    \* tasks that found the queue full, were cleared or lost with a batch
          now,
          l1,         \* ExactCache: entries [query, made, at], the least recently used first
          l2,         \* SemanticCache._entries: [query, made, at], the oldest first
          l4,         \* PrecomputedCache: the queries it answers
          pending,    \* per asker the call that awaits an embedding
          served      \* the age of the oldest cached answer that was given (history)

documentVars == <<texts, embedding, documents, stored, keys, rows>>
taskVars == <<queue, actions, attempts, batches, dropped>>
answerVars == <<now, l1, l2, l4, pending, served>>
vars == <<keeps, documentVars, taskVars, answerVars>>

---------------------------------------------------------------------------
(* Documents *)

\* A text, stripped, is where its line breaks are; a chunk is the range it holds.
Texts == {text \in UNION {[1..n -> {"char", "break"}] : n \in 1..MaxLength} :
              Head(text) = "char" /\ Last(text) = "char"}
NoText == <<>>
Range3(first, last) == [first |-> first, last |-> last]

\* The end of the chunk that begins at `start`: before the last line break of the
\* window if that is in its second half and the text goes on after the window.
ChunkEnd(text, start) ==
    LET end == Min({start + ChunkSize - 1, Len(text)})
        breaks == {i \in start..end : text[i] = "break" /\ 2 * (i - start) > ChunkSize}
    IN  IF end = Len(text) \/ breaks = {} THEN end ELSE Max(breaks) - 1

NextStart(text, start) == ChunkEnd(text, start) + 1 - ChunkOverlap

\* _chunk_text(); a chunk of line breaks only is dropped.
ChunkText(text) ==
    LET chunksFrom[start \in 1..Len(text)] ==
            IF ChunkEnd(text, start) >= Len(text) THEN {Range3(start, Len(text))}
            ELSE {Range3(start, ChunkEnd(text, start))} \cup chunksFrom[NextStart(text, start)]
    IN  {c \in chunksFrom[1] : \E i \in c.first..c.last : text[i] = "char"}

Chunks(d) == {[document |-> d, range |-> c] : c \in ChunkText(texts[d])}

\* index_document(), to the wait for the embeddings
Upload(d, text) ==
    /\ texts[d] = NoText
    /\ texts' = [texts EXCEPT ![d] = text]
    /\ embedding' = embedding \cup {d}
    /\ UNCHANGED <<documents, stored, keys, rows>>

\* index_document(), after it: InMemoryVectorStore.add() and the entry of the document.
\* The embeddings of the pipeline never fail: a hash stands in for them.
Indexed(d) ==
    /\ d \in embedding /\ embedding' = embedding \ {d}
    /\ documents' = [documents EXCEPT ![d] = Chunks(d)]
    /\ LET new == SetToSortSeq(Chunks(d), LAMBDA b, c : b.range.first < c.range.first)
       IN  /\ stored' = stored \cup Chunks(d)
           /\ keys' = keys \o SelectSeq(new, LAMBDA c : ~Contains(keys, c))
           /\ rows' = rows \o new
    /\ UNCHANGED texts

(* Mutant of Rebuilt: the row of what was deleted stays. *)
RebuiltKeysOnly(left) ==
    /\ keys' = SelectSeq(keys, LAMBDA c : c \in left)
    /\ UNCHANGED rows

\* _rebuild_embedding_index(): the rows anew, in the order of the documents of the store.
Rebuilt(left) ==
    /\ keys' = SelectSeq(keys, LAMBDA c : c \in left)
    /\ rows' = SelectSeq(keys, LAMBDA c : c \in left)

\* delete_document(): the chunks of the document, by the ids it was stored with
DeleteDocument(d) ==
    /\ documents[d] # {}
    /\ stored' = stored \ documents[d]
    /\ Rebuilt(stored')
    /\ documents' = [documents EXCEPT ![d] = {}]
    /\ UNCHANGED <<texts, embedding>>

DocumentNext ==
    \/ \E d \in Documents, text \in Texts : Upload(d, text)
    \/ \E d \in Documents : Indexed(d) \/ DeleteDocument(d)

---------------------------------------------------------------------------
(* Tasks *)

(* Some number of callers process batches of at least one task.              *)
TasksAssumption ==
    /\ IsFiniteSet(Callers) /\ BatchSize \in Nat \ {0}
    /\ MaxQueue \in Nat /\ MaxRetries \in Nat

Tasks == DOMAIN actions
Priority == [delete |-> 1, update |-> 3, add |-> 5]

\* schedule_add(), schedule_update(), schedule_delete(): an id is returned either way.
Schedule(action) ==
    /\ Len(actions) < MaxTasks
    /\ actions' = Append(actions, action) /\ attempts' = Append(attempts, 0)
    /\ IF Len(queue) < MaxQueue
       THEN queue' = Append(queue, Len(actions) + 1) /\ UNCHANGED dropped
       ELSE dropped' = dropped \cup {Len(actions) + 1} /\ UNCHANGED queue
    /\ UNCHANGED batches

\* By priority, and by age among equals: tasks are numbered as they are created.
Before(t, u) ==
    LET p == Priority[actions[t]]
        q == Priority[actions[u]]
    IN  p < q \/ (p = q /\ t < u)

InOrder(tasks) ==
    CHOOSE s \in [1..Cardinality(tasks) -> tasks] :
        \A i, j \in DOMAIN s : i < j => Before(s[i], s[j])

\* process_batch(), to the first await: _processing is set and never asked.  No task is in
\* the queue twice (TasksAccounted), so that sorting it is to put its tasks in order.
Cut(c) ==
    LET sorted == InOrder(ToSet(queue))
    IN  /\ queue # <<>> /\ batches[c] = <<>>
        /\ batches' = [batches EXCEPT ![c] = SubSeq(sorted, 1, Min({BatchSize, Len(sorted)}))]
        /\ queue' = SubSeq(sorted, BatchSize + 1, Len(sorted))
        /\ UNCHANGED <<actions, attempts, dropped>>

Tried(ts) == [t \in DOMAIN attempts |-> IF t \in ts THEN attempts[t] + 1 ELSE attempts[t]]

\* The deletions of a batch, which come first, in one call; when it fails they are not
\* tried again.
Deletions(c) ==
    LET deletions == {t \in ToSet(batches[c]) : actions[t] = "delete"}
    IN  /\ deletions # {}
        /\ attempts' = Tried(deletions)
        /\ batches' = [batches EXCEPT ![c] = SubSeq(@, Cardinality(deletions) + 1, Len(@))]
        /\ UNCHANGED <<queue, actions, dropped>>

\* retry_count < max_retries, before this attempt is counted
Retries(t) == attempts[t] < MaxRetries

\* The next update or addition succeeds or fails; _queue.append() asks for no room.
Process(c) ==
    /\ batches[c] # <<>> /\ actions[Head(batches[c])] # "delete"
    /\ LET t == Head(batches[c])
       IN  /\ attempts' = Tried({t})
           /\ batches' = [batches EXCEPT ![c] = Tail(@)]
           /\ \/ UNCHANGED queue
              \/ queue' = IF Retries(t) THEN Append(queue, t) ELSE queue
    /\ UNCHANGED <<actions, dropped>>

\* The task that runs a batch is cancelled, or the queue is cleared.
Lose ==
    \/ \E c \in Callers :
           /\ batches[c] # <<>>
           /\ dropped' = dropped \cup ToSet(batches[c])
           /\ batches' = [batches EXCEPT ![c] = <<>>]
           /\ UNCHANGED <<queue, actions, attempts>>
    \/ /\ queue # <<>>
       /\ dropped' = dropped \cup ToSet(queue) /\ queue' = <<>>
       /\ UNCHANGED <<actions, attempts, batches>>

TaskNext ==
    \/ \E action \in DOMAIN Priority : Schedule(action)
    \/ \E c \in Callers : Cut(c) \/ Deletions(c) \/ Process(c)
    \/ Lose

---------------------------------------------------------------------------
(* Answers *)

(* Times are natural numbers, and a layer has room for an answer.           *)
CacheAssumption ==
    /\ Ttl1 \in Nat /\ Ttl2 \in Nat /\ EmbedTime \in Nat /\ MaxTime \in Nat
    /\ MaxSize1 \in Nat \ {0} /\ MaxSize2 \in Nat \ {0}

Entry == [query : Queries, made : 0..MaxTime, at : 0..MaxTime]
Idle == [call |-> "idle", since |-> 0, query |-> CHOOSE q \in Queries : TRUE]
Tick ==
    /\ now < MaxTime
    /\ \A c \in Askers : pending[c].call # "idle" => now < pending[c].since + EmbedTime
    /\ now' = now + 1
    /\ UNCHANGED <<l1, l2, l4, pending, served>>

\* Where a cache has an answer to a query: at one place, or nowhere.
Places(entries, q) == {i \in DOMAIN entries : entries[i].query = q}
Without(entries, q) ==
    IF Places(entries, q) = {} THEN entries ELSE RemoveAt(entries, Min(Places(entries, q)))

\* ExactCache.set(): a full cache gives up its least recently used entry first, also
\* when the query is in it already.
Set1(cache, q, made) ==
    LET room == IF Len(cache) >= MaxSize1 THEN Tail(cache) ELSE cache
    IN  Append(Without(room, q), [query |-> q, made |-> made, at |-> now])

Oldest(made) == served' = Max({served, now - made})

\* lookup(): L1 answers, or has nothing that is not expired, and L2 embeds the query.
Lookup(c, q) ==
    /\ pending[c].call = "idle"
    /\ \/ /\ \E i \in Places(l1, q) :
                 /\ now - l1[i].at <= Ttl1
                 /\ l1' = Append(Without(l1, q), l1[i])   \* the last to be evicted, and no younger
                 /\ Oldest(l1[i].made)
          /\ UNCHANGED pending
       \/ /\ \A i \in Places(l1, q) : now - l1[i].at > Ttl1
          /\ l1' = Without(l1, q)
          /\ pending' = [pending EXCEPT ![c] = [call |-> "lookup", since |-> now, query |-> q]]
          /\ UNCHANGED served
    /\ UNCHANGED <<now, l2, l4>>

\* The entries that may be similar enough, those whose time is not over, and what is left of
\* the list without the others: these came first.
Found2 == {e \in ToSet(l2) : now - e.at <= Ttl2}
Fresh2 == SubSeq(l2, Cardinality({i \in DOMAIN l2 : now - l2[i].at > Ttl2}) + 1, Len(l2))

\* lookup(), after the embedding: the best of L2, or what L4 has, goes to L1.
LookupEnds(c) ==
    /\ pending[c].call = "lookup"
    /\ LET q == pending[c].query
       IN  \/ \E e \in Found2 : l1' = Set1(l1, q, e.made) /\ Oldest(e.made)
           \/ q \in l4 /\ l1' = Set1(l1, q, now) /\ UNCHANGED served
           \/ q \notin l4 /\ UNCHANGED <<l1, served>>
    /\ l2' = Fresh2
    /\ pending' = [pending EXCEPT ![c] = Idle]
    /\ UNCHANGED <<now, l4>>

\* store(), store_async(): a new answer, in L1 at once and in L2 after its embedding
Store(c, q) ==
    /\ pending[c].call = "idle"
    /\ l1' = Set1(l1, q, now)
    /\ \/ UNCHANGED pending
       \/ pending' = [pending EXCEPT ![c] = [call |-> "store", since |-> now, query |-> q]]
    /\ UNCHANGED <<now, l2, l4, served>>

StoreEnds(c) ==
    /\ pending[c].call = "store"
    /\ l2' = Append(IF Len(l2) >= MaxSize2 THEN Tail(l2) ELSE l2,
                    [query |-> pending[c].query, made |-> pending[c].since, at |-> now])
    /\ pending' = [pending EXCEPT ![c] = Idle]
    /\ UNCHANGED <<now, l1, l4, served>>

\* invalidate(); clear_all() clears L4 for good.
Invalidate(q) ==
    /\ l1' = Without(l1, q)
    /\ UNCHANGED <<now, l2, l4, pending, served>>
ClearAll ==
    /\ l1' = <<>> /\ l2' = <<>> /\ l4' = {}
    /\ UNCHANGED <<now, pending, served>>

AnswerNext ==
    \/ Tick \/ ClearAll
    \/ \E q \in Queries : Invalidate(q) \/ \E c \in Askers : Lookup(c, q) \/ Store(c, q)
    \/ \E c \in Askers : LookupEnds(c) \/ StoreEnds(c)

---------------------------------------------------------------------------
Init ==
    /\ keeps \in {"documents", "tasks", "answers"}
    /\ texts = [d \in Documents |-> NoText]
    /\ embedding = {}
    /\ documents = [d \in Documents |-> {}]
    /\ stored = {} /\ keys = <<>> /\ rows = <<>>
    /\ queue = <<>> /\ actions = <<>> /\ attempts = <<>>
    /\ batches = [c \in Callers |-> <<>>]
    /\ dropped = {}
    /\ now = 0 /\ l1 = <<>> /\ l2 = <<>>
    /\ l4 \in SUBSET Queries /\ (keeps # "answers" => l4 = {})
    /\ pending = [c \in Askers |-> Idle]
    /\ served = 0

Next ==
    /\ UNCHANGED keeps
    /\ \/ keeps = "documents" /\ DocumentNext /\ UNCHANGED <<taskVars, answerVars>>
       \/ keeps = "tasks" /\ TaskNext /\ UNCHANGED <<documentVars, answerVars>>
       \/ keeps = "answers" /\ AnswerNext /\ UNCHANGED <<documentVars, taskVars>>
Spec == Init /\ [][Next]_vars

(***************************************************************************)
(* Properties                                                              *)
(***************************************************************************)
TypeOK ==
    /\ \A d \in Documents : texts[d] \in Texts \cup {NoText}
    /\ embedding \subseteq Documents
    /\ \A d \in Documents : documents[d] # {} => documents[d] = Chunks(d)
    /\ \A i \in DOMAIN keys : keys[i] \in stored
    /\ actions \in Seq(DOMAIN Priority) /\ Len(attempts) = Len(actions)
    /\ ToSet(queue) \subseteq Tasks /\ dropped \subseteq Tasks
    /\ \A c \in Callers : ToSet(batches[c]) \subseteq Tasks
    /\ l1 \in Seq(Entry) /\ Len(l1) <= MaxSize1 /\ l2 \in Seq(Entry) /\ Len(l2) <= MaxSize2
    /\ Cardinality({e.query : e \in ToSet(l1)}) = Len(l1)
    /\ l4 \subseteq Queries /\ now \in 0..MaxTime /\ served \in 0..MaxTime

\* search(): what is returned for a row is the id at its place among the keys.
FoundAt(i) == IF i \in DOMAIN keys THEN {keys[i]} ELSE {}

\* A search returns the chunk whose embedding it has scored, every chunk of a document
\* that is registered can be found, and none of a document that was deleted.
SearchAgrees ==
    /\ Len(rows) = Len(keys) /\ \A i \in DOMAIN rows : FoundAt(i) = {rows[i]}
    /\ ToSet(rows) = UNION {documents[d] : d \in Documents}
    /\ stored = ToSet(rows)

\* No character of a document gets lost between its chunks.
ChunksCover ==
    \A d \in Documents : documents[d] # {} =>
        \A i \in DOMAIN texts[d] :
            texts[d][i] = "char" => \E c \in documents[d] : i \in c.range.first..c.range.last

InBatches == MapThenSumSet(LAMBDA c : Len(batches[c]), Callers)

\* However batches overlap, a task is pending once, it is tried at most MaxRetries + 1
\* times, and what goes back to the queue exceeds its limit by no more than the batches.
TasksAccounted ==
    /\ IsInjective(queue)
    /\ \A c \in Callers :
           /\ IsInjective(batches[c]) /\ ToSet(batches[c]) \cap ToSet(queue) = {}
           /\ \A d \in Callers \ {c} : ToSet(batches[c]) \cap ToSet(batches[d]) = {}
    /\ \A t \in Tasks : attempts[t] <= MaxRetries + 1
    /\ Len(queue) + InBatches <= MaxQueue + BatchSize * Cardinality(Callers)

\* An answer goes from store to L2, and from there to L1 with a new time to live, but
\* is never older than both times together when it is given.
AgeBounded == served <= EmbedTime + Ttl1 + Ttl2

IndexInv == TypeOK /\ SearchAgrees /\ ChunksCover /\ TasksAccounted /\ AgeBounded
====
