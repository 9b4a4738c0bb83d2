---- MODULE Memory ----
(***************************************************************************)
(* The memory of an agent: the buffer of recent messages                   *)
(* (memory/short_term.py), the memories with their index of tags and their *)
(* vectors (long_term.py), the episodes (episodic.py), and what the        *)
(* manager does with them (manager.py, consolidation.py,                   *)
(* forgetting_curve.py).  Embedding and summarising are awaited: additions *)
(* and updates wait in `jobs` meanwhile and other calls run.               *)
(***************************************************************************)
EXTENDS Naturals, Sequences, FiniteSets, FiniteSetsExt

CONSTANTS Tags,
          MaxTokens, SafetyTurns,     \* of the buffer
          MaxEpisodes,
          MaxMemories,                \* bound: memories added
          MaxCalls                    \* bound: calls made

MemoryAssumption ==
    /\ MaxTokens \in Nat /\ SafetyTurns \in Nat /\ MaxEpisodes \in Nat \ {0}
    /\ MaxMemories \in Nat /\ MaxCalls \in Nat

VARIABLES buffer,        \* short_term._buffer: role and tokens of each entry
          system,        \* _system_message: its tokens, 0 without one
          totalTokens,   \* _total_tokens
          memories,      \* long_term._memories: the tags of those that are there
          tagsIndex,     \* _tags_index
          vectors,       \* the memories in the vector store
          total,         \* _total_memories
          episodes,      \* episodic._episodes: their ids
          embeddings,    \* _embeddings: the ids with one
          jobs,          \* calls that wait for an embedding or a summary
          added, calls   \* how many memories were begun and calls made

stm == <<buffer, system, totalTokens>>
ltm == <<memories, tagsIndex, vectors, total>>
epm == <<episodes, embeddings>>
vars == <<stm, ltm, epm, jobs, added, calls>>

Ids == 1..MaxMemories
Tokens == 1..2
Entry == [role : {"user", "other"}, tokens : Tokens]
\* A memory: whether it is there, and its tags, which an object that is gone keeps.
Held(ids) == {m \in ids : memories[m].there}
Job == [kind : {"add", "update"}, id : Ids, tags : SUBSET Tags]
         \cup [kind : {"consolidate"}, id : {0}, tags : {{}}, left : Nat, summarised : BOOLEAN]

Init ==
    /\ buffer = <<>> /\ system = 0 /\ totalTokens = 0
    /\ memories = [m \in Ids |-> [there |-> FALSE, tags |-> {}]] /\ tagsIndex = [t \in Tags |-> {}]
    /\ vectors = {} /\ total = 0
    /\ episodes = <<>> /\ embeddings = {}
    /\ jobs = {} /\ added = 0 /\ calls = 0

Call == calls < MaxCalls /\ calls' = calls + 1

\* The tokens of some entries, counted one by one: the k-th token of the i-th entry.
Weight(entries) == Cardinality({p \in (1..Len(entries)) \X Tokens : p[2] <= entries[p[1]].tokens})

\* _evict_if_needed(): the oldest entries go until the count fits or SafetyTurns are left.
Evicted(entries, sum) ==
    LET fits(n) == sum - Weight(SubSeq(entries, 1, n)) <= MaxTokens \/ Len(entries) - n <= SafetyTurns
    IN  Min({n \in 0..Len(entries) : fits(n)})

\* ShortTermMemory.add(); a new system message replaces the old one, whose tokens
\* stay in the count, and evicts nothing.
AddMessage ==
    /\ Call
    /\ \/ \E e \in Entry :
              LET entries == Append(buffer, e)
                  n == Evicted(entries, totalTokens + e.tokens)
              IN  /\ buffer' = SubSeq(entries, n + 1, Len(entries))
                  /\ totalTokens' = (totalTokens + e.tokens) - Weight(SubSeq(entries, 1, n))
                  /\ UNCHANGED system
       \/ \E t \in Tokens : system' = t /\ totalTokens' = totalTokens + t /\ UNCHANGED buffer
    /\ UNCHANGED <<ltm, epm, jobs, added>>

ClearExceptSystem ==
    /\ Call /\ buffer' = <<>> /\ totalTokens' = system
    /\ UNCHANGED <<system, ltm, epm, jobs, added>>

\* MemoryManager.clear_all(); LongTermMemory.clear() leaves the vector store alone.
ClearAll ==
    /\ Call
    /\ buffer' = <<>> /\ system' = 0 /\ totalTokens' = 0
    /\ memories' = [m \in Ids |-> [memories[m] EXCEPT !.there = FALSE]] /\ tagsIndex' = [t \in Tags |-> {}] /\ total' = 0
    /\ episodes' = <<>> /\ embeddings' = {}
    /\ UNCHANGED <<vectors, jobs, added>>

\* LongTermMemory.add(), to the wait for the embedding
Adding(tags) == [kind |-> "add", id |-> added + 1, tags |-> tags]

AddMemory ==
    /\ Call /\ added < MaxMemories
    /\ \E tags \in SUBSET Tags : jobs' = jobs \cup {Adding(tags)}
    /\ added' = added + 1
    /\ UNCHANGED <<stm, ltm, epm>>

\* add(), after it: memory, count and index in one step; the vector store may fail.
Insert(m, tags) ==
    /\ memories' = [memories EXCEPT ![m] = [there |-> TRUE, tags |-> tags]]
    /\ tagsIndex' = [t \in Tags |-> IF t \in tags THEN tagsIndex[t] \cup {m} ELSE tagsIndex[t]]
    /\ total' = total + 1
    /\ vectors' \in {vectors, vectors \cup {m}}

Added(job) ==
    /\ job.kind = "add" /\ jobs' = jobs \ {job}
    /\ Insert(job.id, job.tags)
    /\ UNCHANGED <<stm, epm, added, calls>>

\* update(), to the wait for the embedding of a new content
Update(m, tags) ==
    /\ Call /\ memories[m].there
    /\ jobs' = jobs \cup {[kind |-> "update", id |-> m, tags |-> tags]}
    /\ UNCHANGED <<stm, ltm, epm, added>>

\* update(), after it: the memory is not looked up again, and what has been deleted
\* meanwhile gets into the index.
Updated(job) ==
    /\ job.kind = "update" /\ jobs' = jobs \ {job}
    /\ LET old == memories[job.id].tags
       IN  tagsIndex' = [t \in Tags |-> IF t \in job.tags \ old THEN tagsIndex[t] \cup {job.id}
                                        ELSE IF t \in old \ job.tags THEN tagsIndex[t] \ {job.id}
                                        ELSE tagsIndex[t]]
    /\ memories' = [memories EXCEPT ![job.id].tags = job.tags]
    /\ UNCHANGED <<stm, vectors, total, epm, added, calls>>

\* delete() of some memories: apply_forgetting() deletes those should_evict() names.
Forget(ms) ==
    /\ Call /\ ms \subseteq Held(Ids) /\ ms # {}
    /\ memories' = [m \in Ids |-> IF m \in ms THEN [memories[m] EXCEPT !.there = FALSE] ELSE memories[m]]
    /\ tagsIndex' = [t \in Tags |-> tagsIndex[t] \ {m \in ms : t \in memories[m].tags}]
    /\ total' = total - Cardinality(ms)
    /\ \E failed \in SUBSET ms : vectors' = vectors \ (ms \ failed)
    /\ UNCHANGED <<stm, epm, jobs, added>>

\* update_after_task(): an episode at once, and a memory of it
UpdateAfterTask ==
    /\ Call /\ added < MaxMemories
    /\ LET n == Len(episodes) + 1
           ids == {episodes[i] : i \in DOMAIN episodes}
           id == IF ids = {} THEN 1 ELSE Max(ids) + 1
       IN  /\ episodes' = IF n > MaxEpisodes THEN Tail(Append(episodes, id)) ELSE Append(episodes, id)
           /\ \E new \in {{}, {id}} :
                  embeddings' = (embeddings \cup new) \ (IF n > MaxEpisodes THEN {Head(episodes)} ELSE {})
    /\ \E tags \in SUBSET Tags : jobs' = jobs \cup {Adding(tags)}
    /\ added' = added + 1
    /\ UNCHANGED <<stm, ltm>>

\* EpisodicMemory.prune_old(): the old episodes and their embeddings
Prune(n) ==
    /\ Call /\ n \in 1..Len(episodes)
    /\ episodes' = SubSeq(episodes, n + 1, Len(episodes))
    /\ embeddings' = embeddings \ {episodes[i] : i \in 1..n}
    /\ UNCHANGED <<stm, ltm, jobs, added>>

\* consolidate(), when the interval is over and there are messages enough
Consolidate ==
    /\ Call /\ Len(buffer) + (IF system = 0 THEN 0 ELSE 1) >= 3
    /\ \E i \in DOMAIN buffer : buffer[i].role = "user"
    /\ jobs' = jobs \cup {[kind |-> "consolidate", id |-> 0, tags |-> {}, summarised |-> FALSE,
                           left |-> Cardinality({i \in DOMAIN buffer : buffer[i].role = "user"})]}
    /\ UNCHANGED <<stm, ltm, epm, added>>

\* The summaries first, then one memory after the other, each with its embedding.
Consolidating(job) ==
    /\ job.kind = "consolidate"
    /\ \/ /\ ~job.summarised
          /\ jobs' = (jobs \ {job}) \cup {[job EXCEPT !.summarised = TRUE]}
          /\ UNCHANGED <<ltm, added>>
       \/ /\ job.summarised /\ job.left > 0 /\ added < MaxMemories
          /\ \E tags \in SUBSET Tags : Insert(added + 1, tags)
          /\ added' = added + 1
          /\ jobs' = (jobs \ {job}) \cup
                 (IF job.left = 1 THEN {} ELSE {[job EXCEPT !.left = @ - 1]})
    /\ UNCHANGED <<stm, epm, calls>>

Next ==
    \/ AddMessage \/ ClearExceptSystem \/ ClearAll \/ AddMemory \/ UpdateAfterTask \/ Consolidate
    \/ \E m \in Ids, tags \in SUBSET Tags : Update(m, tags)
    \/ \E ms \in SUBSET Ids : Forget(ms)
    \/ \E n \in 1..MaxEpisodes : Prune(n)
    \/ \E job \in jobs : Added(job) \/ Updated(job) \/ Consolidating(job)
Spec == Init /\ [][Next]_vars

(***************************************************************************)
(* Properties                                                              *)
(***************************************************************************)
TypeOK ==
    /\ buffer \in Seq(Entry) /\ system \in {0} \cup Tokens /\ totalTokens \in Nat
    /\ \A m \in Ids : memories[m].there \in BOOLEAN /\ memories[m].tags \subseteq Tags
    /\ tagsIndex \in [Tags -> SUBSET Ids] /\ vectors \subseteq Ids /\ total \in 0..MaxMemories
    /\ Len(episodes) <= MaxEpisodes /\ added \in 0..MaxMemories /\ calls \in 0..MaxCalls

\* list_by_tag(): the index looked up, memories that are gone passed over
ListByTag(t) == Held(tagsIndex[t])

\* Through every update that a deletion or another update overtakes, a tag lists just
\* the memories that have it, and the count is their number.
TagsAgree ==
    /\ \A t \in Tags : ListByTag(t) = {m \in Held(Ids) : t \in memories[m].tags}
    /\ total = Cardinality(Held(Ids))

\* The buffer never holds more than its count says, and the count is over the limit
\* only with the last turns, which are kept, or with a system message that came later.
TokensCovered ==
    /\ Weight(buffer) + system <= totalTokens
    /\ totalTokens > MaxTokens => Len(buffer) <= SafetyTurns \/ system # 0

\* An episode that is gone leaves no embedding.
EmbeddingsCurrent == embeddings \subseteq {episodes[i] : i \in DOMAIN episodes}

\* The count is that of the messages held: a system message that is replaced goes out of it.
TokensExact == totalTokens = Weight(buffer) + system

\* The index names only memories that are there.
IndexClean == \A t \in Tags : tagsIndex[t] \subseteq Held(Ids)

MemoryInv == TypeOK /\ TagsAgree /\ TokensCovered /\ EmbeddingsCurrent
====
