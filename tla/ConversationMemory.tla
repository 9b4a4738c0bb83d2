-------------------------- MODULE ConversationMemory --------------------------
(***************************************************************************)
(* The memory of one conversation and the calls of its endpoints: a        *)
(* message is added, the context is built, for which old messages are      *)
(* summarized when there are many, and the reply is added.  Every call is  *)
(* suspended while a summary or a reply is generated.                      *)
(***************************************************************************)
EXTENDS Naturals, Sequences, SequencesExt, FiniteSets, FiniteSetsExt

CONSTANTS Callers,
          Sizes,          \* tokens of a message
          MaxStmTokens, SafetyTurns,
          MaxStmMessages,
          MaxMessages, MaxClears

ConversationAssumption ==
    /\ Sizes \subseteq Nat /\ MaxStmTokens \in Nat
    /\ SafetyTurns \in Nat \ {0} /\ MaxStmMessages \in Nat \ {0}
    /\ MaxMessages \in Nat /\ MaxClears \in Nat

VARIABLES convs,     \* every entry there was of this conversation; calls refer to them
          current,   \* which of them _conversations has, or 0
          nextId,    \* the number of the next message
          clears,    \* the number of the next message at each clear()
          task       \* the call of each caller

vars == <<convs, current, nextId, clears, task>>

Idle == [at |-> "idle", op |-> "none", conv |-> 0, older |-> {}, recent |-> <<>>,
         own |-> 0, alone |-> FALSE, shown |-> {}]
NewConv == [stm |-> <<>>, summary |-> {}, ltm |-> {}]

Init ==
    /\ convs = <<>> /\ current = 0 /\ nextId = 1 /\ clears = <<>>
    /\ task = [c \in Callers |-> Idle]

Tokens(stm) == MapThenSumSet(LAMBDA i : stm[i].tokens, DOMAIN stm)
IsFull(stm) == 10 * Tokens(stm) >= 9 * MaxStmTokens
IdsOf(stm) == {stm[i].id : i \in DOMAIN stm}

\* _evict_if_needed(): the oldest are dropped while there are too many tokens, down to the turns
\* that are safe.
Trimmed(messages) ==
    LET After(n) == SubSeq(messages, n + 1, Len(messages))
    IN  After(Min({n \in 0..(Len(messages) - 1) : Tokens(After(n)) <= MaxStmTokens}
                  \cup {Max({0, Len(messages) - SafetyTurns})}))
Added(stm, m) == Trimmed(Append(stm, m))

\* The messages are added one by one to an empty memory.  What is dropped on the way would be
\* dropped in the end as well: more messages are more tokens, and leave fewer of the first safe.
Rebuilt(messages) == Trimmed(messages)

\* get_or_create(), on the entries and the current one
Created(all) == IF current = 0 THEN Append(all, NewConv) ELSE all
Current(all) == IF current = 0 THEN Len(all) + 1 ELSE current

\* The split of _compress(): with few messages all of them stay beside their summary.
Few(stm) == Len(stm) <= MaxStmMessages
Older(stm) ==
    IdsOf(SubSeq(stm, 1, Len(stm) - IF Few(stm) THEN 2 ELSE MaxStmMessages))
Recent(stm) ==
    IF Few(stm) THEN stm ELSE SubSeq(stm, Len(stm) - MaxStmMessages + 1, Len(stm))
MustCompress(stm) == (IsFull(stm) \/ ~Few(stm)) /\ Older(stm) # {}

\* What build_context() gives when it is done: chat goes on to the reply, sync ends.
Shown(conv) == conv.summary \cup IdsOf(conv.stm)
Built(t, conv) ==
    IF t.op = "chat" THEN [t EXCEPT !.at = "generating", !.shown = Shown(conv), !.older = {}, !.recent = <<>>]
    ELSE Idle

Others(c) == {d \in Callers \ {c} : task[d].at # "idle"}

\* memory_chat() and sync_memory() until they are suspended: add_message(), build_context()
Call(c, op, size) ==
    LET all == Created(convs)
        i == Current(convs)
        stm == Added(all[i].stm, [id |-> nextId, tokens |-> size])
        t == [Idle EXCEPT !.op = op, !.conv = i, !.own = nextId, !.alone = Others(c) = {}]
    IN  /\ task[c].at = "idle" /\ nextId <= MaxMessages
        /\ convs' = [all EXCEPT ![i].stm = stm] /\ current' = i /\ nextId' = nextId + 1
        /\ task' = [d \in Callers |->
               IF d # c THEN [task[d] EXCEPT !.alone = FALSE]
               ELSE IF MustCompress(stm)
               THEN [t EXCEPT !.at = "summarizing", !.older = Older(stm), !.recent = Recent(stm)]
               ELSE Built(t, convs'[i])]
        /\ UNCHANGED clears

(* Mutant of Summarized: the conversation is looked up again. *)
SummarizedAnew(c) ==
    LET t == task[c]
        all == Created(convs)
        i == Current(convs)
    IN  /\ t.at = "summarizing"
        /\ convs' = [all EXCEPT ![i] = [stm |-> Rebuilt(t.recent), summary |-> t.older,
                                        ltm |-> @.ltm \cup t.older]]
        /\ current' = i /\ task' = [task EXCEPT ![c] = Built(t, convs'[i])]
        /\ UNCHANGED <<nextId, clears>>

\* The summary is there, from the model or from the fallback: it replaces the one before, and the
\* messages that were recent then replace those of now.  The context is of the current entry.
Summarized(c) ==
    LET t == task[c]
        done == [convs EXCEPT ![t.conv] = [stm |-> Rebuilt(t.recent), summary |-> t.older,
                                           ltm |-> @.ltm \cup t.older]]
    IN  /\ t.at = "summarizing"
        /\ convs' = Created(done) /\ current' = Current(done)
        /\ task' = [task EXCEPT ![c] = Built(t, convs'[current'])]
        /\ UNCHANGED <<nextId, clears>>

Replied(c, size) ==
    LET all == Created(convs)
        i == Current(convs)
    IN  /\ task[c].at = "generating" /\ nextId <= MaxMessages
        /\ convs' = [all EXCEPT ![i].stm = Added(@, [id |-> nextId, tokens |-> size])]
        /\ current' = i /\ nextId' = nextId + 1
        /\ task' = [task EXCEPT ![c] = Idle]
        /\ UNCHANGED clears
GenerationFails(c) ==
    /\ task[c].at = "generating" /\ task' = [task EXCEPT ![c] = Idle]
    /\ UNCHANGED <<convs, current, nextId, clears>>

Clear ==
    /\ current # 0 /\ Len(clears) < MaxClears
    /\ current' = 0 /\ clears' = Append(clears, nextId)
    /\ task' = [c \in Callers |-> [task[c] EXCEPT !.alone = FALSE]]
    /\ UNCHANGED <<convs, nextId>>

Next ==
    \/ \E c \in Callers, s \in Sizes : Call(c, "chat", s) \/ Call(c, "sync", s) \/ Replied(c, s)
    \/ \E c \in Callers : Summarized(c) \/ GenerationFails(c)
    \/ Clear

Spec == Init /\ [][Next]_vars
-----------------------------------------------------------------------------
(* The messages are in the order of their arrival and none is there twice,   *)
(* also when several calls compress the same conversation.                   *)
MessagesInOrder ==
    \A k \in DOMAIN convs : \A i, j \in DOMAIN convs[k].stm :
        i < j => convs[k].stm[i].id < convs[k].stm[j].id

(* A compression that a clear() overtakes brings nothing back: neither the   *)
(* messages nor the summary of what was cleared.                             *)
ClearedStaysCleared ==
    current # 0 /\ clears # <<>> =>
        \A id \in Shown(convs[current]) \cup convs[current].ltm : id >= Last(clears)

(* A chat that no other call overlaps generates its reply from a context     *)
(* that shows its own message.                                               *)
OwnMessageShown ==
    \A c \in Callers : task[c].at = "generating" /\ task[c].alone => task[c].own \in task[c].shown

ConversationInv == MessagesInOrder /\ ClearedStaysCleared /\ OwnMessageShown

(* "Trigger compression check (async) so key facts are summarized before the *)
(* next turn rather than silently dropped": every message is with the recent *)
(* ones or in a summary, the current one or one of the long-term memory.     *)
NothingDropped ==
    \A k \in DOMAIN convs : k = current /\ clears = <<>> =>
        \A id \in 1..(nextId - 1) : id \in Shown(convs[k]) \cup convs[k].ltm
=============================================================================
