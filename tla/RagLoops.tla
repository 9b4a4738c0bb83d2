------------------------------ MODULE RagLoops ------------------------------
(***************************************************************************)
(* The answering strategies of rag/advanced: Self-RAG, the agent with      *)
(* tools, CRAG, and the vote over candidate answers of rag/quality.  A run *)
(* is of one kind.  What a model replies is a choice; a document is the    *)
(* number it has in what the retriever finds.                              *)
(***************************************************************************)
EXTENDS Naturals, Sequences, SequencesExt, FiniteSets, FiniteSetsExt

CONSTANTS MaxFound,        \* the most documents a retriever finds
          MaxChecked,      \* of which so many are judged (10 in the code)
          MaxReflections,  \* max_reflection_rounds
          MaxAgentSteps,   \* max_steps of the agent
          MaxCandidates,   \* the most answers that are voted on
          FewSources       \* sources count up to this many (5 in the code)

VARIABLES strategy,
          pc,        \* "start", "generate" or "act" while it runs, "done"
          retriever, \* whether there is one
          found,     \* how many documents it finds, or are given
          step,      \* the round or step that is next
          docs,      \* what the answer is generated from
          judged,    \* the documents that were judged relevant (history)
          asked,     \* how often the model was asked (history)
          messages,  \* the agent's conversation
          calls,     \* the agent's tool_calls: the steps they were made in
          ballot,    \* the candidates that were voted on
          answer     \* what is returned

vars == <<strategy, pc, retriever, found, step, docs, judged, asked, messages, calls,
          ballot, answer>>

Unanswered == [by |-> "nobody", round |-> 0, supported |-> FALSE, useful |-> FALSE]

Init ==
    /\ strategy \in {"self", "agent", "crag", "vote"}
    /\ pc = "start" /\ retriever \in BOOLEAN /\ found \in 0..MaxFound /\ step = 1
    /\ docs = <<>> /\ judged = {} /\ asked = 0
    /\ messages = <<>> /\ calls = <<>> /\ ballot = <<>> /\ answer = Unanswered

Does(s, where) == strategy = s /\ pc = where /\ UNCHANGED <<strategy, retriever, found>>
Ends(a) == pc' = "done" /\ answer' = a /\ UNCHANGED step
UnlessOver(n, bound) == step' = n + 1 /\ pc' = IF n = bound THEN "done" ELSE pc

\* zip() of the documents with the judgements, of which there may be fewer
Relevant(all, relevant) == SelectSeq(all, LAMBDA d : d \in relevant)

\* SelfRAGProcessor.process() until the rounds: what is found or given is judged.
Gather ==
    /\ Does("self", "start") /\ pc' = "generate"
    /\ \E got \in {<<>>, [d \in 1..found |-> d]} :
           \E relevant \in SUBSET (1..Min({Len(got), MaxChecked})) :
               /\ docs' = Relevant(got, relevant) /\ judged' = relevant
               /\ asked' = 1 + Min({Len(got), MaxChecked})
    /\ UNCHANGED <<step, messages, calls, ballot, answer>>

Draft == [by |-> IF docs = <<>> THEN "direct" ELSE "docs", round |-> step,
          supported |-> FALSE, useful |-> FALSE]
SelfRound(questions) ==
    /\ Does("self", "generate") /\ step <= MaxReflections
    /\ asked' = asked + questions - (IF docs = <<>> THEN 1 ELSE 0)
    /\ UNCHANGED <<judged, messages, calls, ballot>>

\* The answer is supported; without documents that is not asked.
Useful == SelfRound(3) /\ UNCHANGED docs
          /\ Ends([Draft EXCEPT !.supported = TRUE, !.useful = TRUE])
NotImproved == SelfRound(4) /\ UNCHANGED docs /\ Ends([Draft EXCEPT !.supported = TRUE])
Refined == SelfRound(4) /\ UNCHANGED docs /\ UnlessOver(step, MaxReflections)
           /\ answer' = [Draft EXCEPT !.by = "refined"]

\* It is not: in the first round the same query is asked of the retriever again.
MoreDocuments ==
    /\ SelfRound(2) /\ docs # <<>> /\ step = 1 /\ retriever
    /\ \E more \in {<<>>, [d \in 1..found |-> d]} : docs' = docs \o more
    /\ UnlessOver(step, MaxReflections) /\ answer' = Draft
GiveUp == SelfRound(2) /\ docs # <<>> /\ UNCHANGED docs /\ (step > 1 \/ ~retriever) /\ Ends(Draft)

\* AgenticRAGProcessor.process(): the conversation begins with the tools and the query.
Brief ==
    /\ Does("agent", "start") /\ pc' = "act" /\ messages' = <<"system", "query">>
    /\ UNCHANGED <<step, docs, judged, asked, calls, ballot, answer>>
AgentStep == Does("agent", "act") /\ asked' = asked + 1 /\ UNCHANGED <<docs, judged, ballot>>
Exhausted(from, round) == [Unanswered EXCEPT !.by = from, !.round = round]

FinalAnswer == AgentStep /\ UNCHANGED <<messages, calls>> /\ Ends(Exhausted("final", step))

\* A reply that is no JSON object ends the loop, with the message that the steps ran out.
NoReply == AgentStep /\ UNCHANGED <<messages, calls>> /\ Ends(Exhausted("limit", step))

\* What the next step sees: nothing of a tool that is unknown, only the error of one that
\* raised.
Observed(outcome) ==
    /\ messages' = messages \o (IF outcome = "ok" THEN <<"reply", "observation">>
                                ELSE IF outcome = "raised" THEN <<"error">> ELSE <<>>)
    /\ calls' = IF outcome = "ok" THEN Append(calls, step) ELSE calls

CallTool ==
    /\ AgentStep
    /\ \E outcome \in {"ok", "raised", "unknown"} : Observed(outcome)
    /\ UnlessOver(step, MaxAgentSteps)
    /\ answer' = IF step = MaxAgentSteps THEN Exhausted("limit", step) ELSE answer

\* CRAGProcessor._evaluate_documents(): the digits of the reply, wherever they stand, are
\* one number, cut to 1..5; a reply without digits leaves it to the shared words.
Score(reply) == IF Len(reply) > 1 THEN 5 ELSE Max({1, Min({5, reply[1]})})
Replies == [1..1 -> 0..5] \cup [1..2 -> {1, 5}]
Correct ==
    /\ Does("crag", "start")
    /\ \E replies \in [1..found -> Replies] :
           LET score == [d \in 1..found |-> Score(replies[d])]
               all == [d \in 1..found |-> d]
               used == SelectSeq(all, LAMBDA d : score[d] >= 3)
                           \o SelectSeq(all, LAMBDA d : score[d] = 2)
           IN  /\ docs' = used /\ judged' = {d \in 1..found : score[d] >= 3}
               /\ asked' = IF found = 0 THEN 0 ELSE found + 1
               /\ Ends(Exhausted(IF found = 0 THEN "nobody"
                                 ELSE IF used = <<>> THEN "direct" ELSE "docs", 1))
    /\ UNCHANGED <<messages, calls, ballot>>

\* AnswerVoting: the weight is score * (1 + sources / 10); the first of the best wins.
Weight(c) == c.score * (2 * FewSources + Min({c.sources, FewSources}))
FirstBest(measure) ==
    CHOOSE i \in DOMAIN measure : \A j \in DOMAIN measure :
        measure[j] < measure[i] \/ (measure[j] = measure[i] /\ i <= j)
Candidates == [text : {"x", "y"}, score : 0..2, sources : {0, 3 * FewSources}]
Winner(candidates, method) ==
    LET n == Len(candidates)
        Same(i) == Cardinality({j \in 1..n : candidates[j].text = candidates[i].text})
        Weighted(i) == Weight(candidates[i])
        Best(i) == 6 * candidates[i].score + 2 * candidates[i].sources
    IN  CASE method = "majority" -> FirstBest([i \in 1..n |-> Same(i)])
          [] method = "weighted" -> FirstBest([i \in 1..n |-> Weighted(i)])
          [] method = "best" -> FirstBest([i \in 1..n |-> Best(i)])
Decide ==
    /\ Does("vote", "start")
    /\ \E n \in 1..MaxCandidates : \E candidates \in [1..n -> Candidates] :
           \E method \in {"majority", "weighted", "best"} :
               ballot' = candidates /\ Ends(Exhausted(method, Winner(candidates, method)))
    /\ UNCHANGED <<docs, judged, asked, messages, calls>>

Next ==
    \/ Gather \/ Useful \/ NotImproved \/ Refined \/ MoreDocuments \/ GiveUp
    \/ Brief \/ FinalAnswer \/ NoReply \/ CallTool
    \/ Correct \/ Decide
    \/ pc = "done" /\ UNCHANGED vars

Spec == Init /\ [][Next]_vars
-----------------------------------------------------------------------------
Done(s) == strategy = s /\ pc = "done"
Times(message) == Len(SelectSeq(messages, LAMBDA m : m = message))

(* Self-RAG: the first answer is drawn from judged documents only, a refined *)
(* answer is thrown away unless no round is left, an answer that was found   *)
(* unsupported is returned only when the documents could not be extended,    *)
(* and the model is asked four questions a round at most.                    *)
SelfRagReflects ==
    strategy = "self" =>
        /\ step = 1 => ToSet(docs) \subseteq judged \/ answer.by # "nobody"
        /\ pc = "done" /\ answer.by = "refined" => answer.round = MaxReflections
        /\ pc = "done" /\ answer.by = "docs" /\ ~answer.supported =>
               answer.round > 1 \/ ~retriever \/ MaxReflections = 1
        /\ asked <= 1 + MaxChecked + 4 * step

(* The agent: each call has its observation in the conversation, in the      *)
(* order of the steps, and no step is used twice.                            *)
AgentRemembers ==
    strategy = "agent" =>
        /\ Len(calls) = Times("observation") /\ Times("reply") = Times("observation")
        /\ \A i \in 1..(Len(calls) - 1) : calls[i] < calls[i + 1]
        /\ Len(calls) + Times("error") <= asked /\ asked <= MaxAgentSteps

(* CRAG: what is left out was judged below everything that is used, and what *)
(* is used begins with the relevant documents.                               *)
RelevantFirst ==
    Done("crag") => /\ judged \subseteq ToSet(docs)
                    /\ \A i \in 1..Cardinality(judged) : docs[i] \in judged

(* The weighted vote: sources never lift an answer over one that has a score *)
(* higher by half.                                                           *)
SourcesAreCapped ==
    Done("vote") /\ answer.by = "weighted" =>
        \A i \in DOMAIN ballot : 2 * ballot[i].score <= 3 * ballot[answer.round].score

RagLoopsInv == SelfRagReflects /\ AgentRemembers /\ RelevantFirst /\ SourcesAreCapped
=============================================================================
