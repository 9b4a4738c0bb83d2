---------------------------- MODULE MCComponents ----------------------------
(***************************************************************************)
(* The approval of the tools that experts call, and the other components,  *)
(* whose properties are all of safety.  They share no state, so that a run *)
(* chooses one in its initial state.                                       *)
(***************************************************************************)
EXTENDS ToolApproval, TLC

CONSTANT Parts      \* the components that a run is about

CONSTANT None       \* no answer

VARIABLE part       \* the component that runs
VARIABLES ragKeeps, texts, embedding, documents, stored, keys, rows, queue,
          actions, attempts, batches, dropped, cacheTime, l1, l2, l4,
          pending, served
VARIABLES retrieves, givenText, textChunks, nextChunk, fusion, textBatches,
          batchResult, faissStore, faissFiles, outside, terms
VARIABLES prepares, versions, current, author, examples, foundExamples,
          cutTemplate, promptScores, promptTrend, compiled, cleanedInput,
          promptUses
VARIABLES strategy, pc, retriever, found, round, docs, judged, questions,
          messages, toolCalls, ballot, answer
VARIABLES subject, today, usage, budgets, window, used, prompt
VARIABLES dialogueUses, dialogueState, path, slotValues, fills,
          dialogueTurns, turnCounter, nameIndex
VARIABLES contextUses, zoneContent, zoneTokens, compressed, nextId,
          zoneDropped, contextDone
VARIABLES trial, experiments, created, given, shares, counters, assignments,
          golden, tuning, seconds, answers, alerts
VARIABLES looks, finds, detections, maskForm, maskedText, cardNumber,
          streamText, lastToken, sentToken, streamStopped, violations,
          blockOnMedium, promptLines
VARIABLES serves, startupStep, startupNext, holds, demo, tenant, wired,
          serviceReply, searchStore, searchCache, searchHits, searchMisses,
          searchesAsked, search, matching, evaluations, completions,
          chatRequests, firstTokens, tenantRows, reading, report

indexVars == <<ragKeeps, texts, embedding, documents, stored, keys, rows, queue,
    actions, attempts, batches, dropped, cacheTime, l1, l2, l4, pending,
    served>>
retrievalVars == <<retrieves, givenText, textChunks, nextChunk, fusion, textBatches,
    batchResult, faissStore, faissFiles, outside, terms>>
promptsVars == <<prepares, versions, current, author, examples, foundExamples,
    cutTemplate, promptScores, promptTrend, compiled, cleanedInput,
    promptUses>>
answeringVars == <<strategy, pc, retriever, found, round, docs, judged, questions, messages,
    toolCalls, ballot, answer>>
tokensVars == <<subject, today, usage, budgets, window, used, prompt>>
dialogueVars == <<dialogueUses, dialogueState, path, slotValues, fills, dialogueTurns,
    turnCounter, nameIndex>>
contextsVars == <<contextUses, zoneContent, zoneTokens, compressed, nextId, zoneDropped,
    contextDone>>
experimentsVars == <<trial, experiments, created, given, shares, counters, assignments,
    golden, tuning, seconds, answers, alerts>>
maskingVars == <<looks, finds, detections, maskForm, maskedText, cardNumber, streamText,
    lastToken, sentToken, streamStopped, violations, blockOnMedium,
    promptLines>>
serviceVars == <<serves, startupStep, startupNext, holds, demo, tenant, wired,
    serviceReply, searchStore, searchCache, searchHits, searchMisses,
    searchesAsked, search, matching, evaluations, completions, chatRequests,
    firstTokens, tenantRows, reading, report>>

(* A data set by its queries, which of them have spaces around, and which are *)
(* of the second category.                                                    *)
Examples(queries, spaced, second) ==
    {[id |-> i, query |-> queries[i], spaced |-> i \in spaced,
      category |-> IF i \in second THEN "second" ELSE "first"] : i \in DOMAIN queries}

RagIndex == INSTANCE RagIndex WITH
    Documents <- {"d1", "d2"}, ChunkSize <- 4, ChunkOverlap <- 1,
    MaxLength <- 6, Callers <- {"c1", "c2"}, BatchSize <- 1, MaxQueue <- 2,
    MaxRetries <- 1, MaxTasks <- 3, Queries <- {"q1", "q2"},
    Askers <- {"c1"}, Ttl1 <- 1, Ttl2 <- 1, MaxSize1 <- 1, MaxSize2 <- 1,
    EmbedTime <- 1, MaxTime <- 4, keeps <- ragKeeps, now <- cacheTime
Retrieval == INSTANCE Retrieval WITH
    ChunkSize <- 4, ChunkOverlap <- 1, Lookback <- 1, MaxText <- 6,
    MaxChunks <- 7, Lengths <- {1, 2, 3, 6}, MinSection <- 3,
    MaxHeading <- 3, Ids <- {"d1", "d2", "d3"}, Scores <- {4, 9},
    FusionK <- 1, Weights <- {3, 5}, Contributions <- <<6, 4, 3>>,
    Batches <- <<2, 2, 1>>, MaxConcurrent <- 2, MaxRetries <- 1,
    MaxAdded <- 3, text <- givenText, chunks <- textChunks, at <- nextChunk,
    batches <- textBatches, embedded <- batchResult, store <- faissStore,
    files <- faissFiles
Prompts == INSTANCE Prompts WITH
    Sessions <- {"s1", "s2"}, Contents <- {"x", "y"}, MaxVersions <- 3,
    Tenants <- {"t1", "t2"}, Inputs <- {"i1", "i2", "i3"},
    Alike <- [i1 |-> [i1 |-> 10, i2 |-> 9, i3 |-> 5], i2 |-> [i1 |-> 9, i2 |-> 10, i3 |-> 6], i3 |-> [i1 |-> 5, i2 |-> 6, i3 |-> 10]],
    Diversity <- 3, MaxExamples <- 3, Paragraphs <- {10, 30, 60},
    MaxParagraphs <- 4, Budgets <- {40, 75, 130, 200}, Meaningful <- 40,
    Watched <- {"p1", "p2"}, MinBaseline <- 2, MinCurrent <- 1,
    MaxScores <- 2, MaxUses <- 4, MaxInput <- 4, Back <- 2, MaxText <- 5,
    None <- None, session <- author, uses <- promptUses,
    found <- foundExamples, cut <- cutTemplate, scores <- promptScores,
    shown <- promptTrend, cleaned <- cleanedInput
RagLoops == INSTANCE RagLoops WITH
    MaxFound <- 3, MaxChecked <- 2, MaxReflections <- 3, MaxAgentSteps <- 4,
    MaxCandidates <- 2, FewSources <- 1, step <- round, calls <- toolCalls,
    asked <- questions
TokenUsage == INSTANCE TokenUsage WITH
    Tenants <- {"t1"}, Models <- {"m1", "m2"}, Costs <- {4, 9},
    DaysPerMonth <- 2, MaxDays <- 2, MaxRecords <- 3,
    DefaultBudgets <- [daily |-> 5, monthly |-> 12], OwnBudgets <- {0},
    Shares <- [history |-> 55, output |-> 45], Windows <- {7, 20},
    MaxUsed <- 5, NoticeTokens <- 2, MessageTokens <- {1, 4},
    MaxMessages <- 6, PromptBudgets <- {3, 9}, records <- usage
Dialogue == INSTANCE Dialogue WITH
    Reactions <- [error |-> "retry", needs_approval |-> "approved"],
    MaxPath <- 8,
    Slots <- [city |-> [required |-> TRUE, default |-> None, accepted |-> {"x"}], day |-> [required |-> TRUE, default |-> "y", accepted |-> {"x"}]],
    SlotOrder <- <<"city", "day">>, Values <- {"x", "y"},
    Entities <- {"e1", "e2"}, Topics <- {"topic"}, MaxTurns <- 2,
    MaxCounter <- 4, None <- None, uses <- dialogueUses,
    state <- dialogueState, values <- slotValues, index <- nameIndex,
    turns <- dialogueTurns, counter <- turnCounter
ContextWindows == INSTANCE ContextWindows WITH
    ZoneOrder <- <<"archive", "working", "pinned">>,
    Compressible <- {"archive"}, ContextWindow <- 6, LongText <- 3,
    NoteTokens <- 1, Contents <- {<<2>>, <<5>>, <<1, 1, 1, 2>>},
    MaxAdded <- 2,
    Messages <- {[role |-> "system", tokens |-> 1, chars |-> 4], [role |-> "user", tokens |-> 2, chars |-> 8], [role |-> "user", tokens |-> 3, chars |-> 3], [role |-> "assistant", tokens |-> 1, chars |-> 4]},
    MaxMessages <- 4, Budgets <- {0, 1, 3, 5}, RecentTurns <- 1,
    SummaryTrigger <- 2, Scores <- 1..4, MaxDocuments <- 5,
    Texts <- {"a", "b", "c"}, MaxTexts <- 3,
    RequestMessages <- {[role |-> "system", tokens |-> 3, text |-> TRUE], [role |-> "user", tokens |-> 2, text |-> TRUE], [role |-> "user", tokens |-> 4, text |-> TRUE], [role |-> "user", tokens |-> 3, text |-> FALSE]},
    Windows <- {5, 8}, uses <- contextUses, done <- contextDone, content <- zoneContent, dropped <- zoneDropped
Experiments == INSTANCE Experiments WITH
    Users <- {"u1", "u2"}, Bucket <- [u1 |-> 60, u2 |-> 95],
    Variants <- <<"control", "canary">>,
    Splits <- {<<90, 10>>, <<50, 50>>, <<30, 30>>}, MaxExperiments <- 2,
    MaxObservations <- 4, Scores <- {0, 1},
    Dimensions <- {"accuracy", "cost"}, Levels <- {0, 69, 70},
    MaxIterations <- 4, Patience <- 2, Threshold <- 1, MinImprovement <- 1,
    WindowSeconds <- 1, MaxTime <- 2, MaxAnswers <- 2,
    Inputs <- {Examples(<<"a", "b", "c", "d", "a">>, {}, {}), Examples(<<"a", "a", "b", "c", "d">>, {2}, {4, 5}), Examples(<<"a", "b", "a">>, {}, {2}), Examples(<<"a", "b", "a", "c">>, {}, {})},
    MinimumSize <- 4, None <- None, subject <- trial, loop <- tuning, split <- shares, clock <- seconds
Masking == INSTANCE Masking WITH
    Length <- 6, MaxMatches <- 3, Separators <- {2, 4},
    Types <- <<"phone", "ssn", "email", "other">>, Kept <- 2, Short <- 2,
    Digits <- 0..9, MaxDigits <- 3, Buffer <- 5, MaxToken <- 3, MaxText <- 6,
    PhoneLength <- 2, CardLength <- 3, KeyLength <- 2,
    Categories <- [self_harm |-> [severity |-> 3, threshold |-> 0], violence |-> [severity |-> 3, threshold |-> 1], hate |-> [severity |-> 3, threshold |-> 1], sexual_minors |-> [severity |-> 2, threshold |-> 2], illegal |-> [severity |-> 3, threshold |-> 0]],
    MaxLines <- 4, Templates <- {<<9, 1, 2>>, <<1, 9, 1>>, <<2>>},
    Arguments <- {<<<<8>>>>, <<<<8>>, <<7, 9>>>>, <<<<2>>, <<8>>>>},
    sent <- sentToken, received <- streamText,
    output <- maskedText, token <- lastToken, form <- maskForm,
    matches <- finds, lines <- promptLines, stopped <- streamStopped,
    card <- cardNumber
Api == INSTANCE Api WITH
    Failing <- {"redis", "llm", "tool_registry", "rag_pipeline", "approval_gate", "mcp_pool"},
    Ranking <- <<<<"d1", 1>>, <<"d1", 2>>, <<"d2", 1>>>>,
    Base <- [d1 |-> "b1", d2 |-> "b2"], Limits <- {1, 2}, Widening <- 2,
    MaxCandidates <- 3, Searchers <- {"c1", "c2"}, MaxSearches <- 2,
    Marks <- {0, 3, 4}, MaxRuns <- 1,
    Chats <- {"r1", "r2"}, MaxDeltas <- 2, MaxTenants <- 4, PageSize <- 2,
    DaysPerWeek <- 2, DaysPerMonth <- 3, PartsPerDay <- 2, MaxMoment <- 13,
    None <- None, step <- startupStep, next <- startupNext,
    store <- searchStore, requests <- chatRequests, hits <- searchHits,
    misses <- searchMisses, asked <- searchesAsked, cache <- searchCache,
    found <- matching, runs <- evaluations, chat <- completions,
    rows <- tenantRows, reply <- serviceReply, walk <- reading

ASSUME CacheBounds == RagIndex!CacheAssumption
ASSUME TuningBounds == Experiments!TuningAssumption
ASSUME TasksBounds == RagIndex!TasksAssumption
ASSUME DialogueBounds == Dialogue!DialogueAssumption

(* Every component starts where it does by itself; one that is not run has *)
(* a single initial state.                                                 *)
PartsInit ==
    /\ part \in Parts
    /\ Init
    /\ RagIndex!Init /\ (part # "index" => ragKeeps = "tasks")
    /\ Retrieval!Init /\ (part # "retrieval" => retrieves = "fixed")
    /\ Prompts!Init /\ (part # "prompts" => prepares = "versions")
    /\ RagLoops!Init /\ (part # "answering" => strategy = "self" /\ ~retriever /\ found = 0)
    /\ TokenUsage!Init /\ (part # "tokens" => subject = "usage" /\ window = 7)
    /\ Dialogue!Init /\ (part # "dialogue" => dialogueUses = "machine")
    /\ ContextWindows!Init /\ (part # "contexts" => contextUses = "zones")
    /\ Experiments!Init /\ (part # "experiments" => trial = "loop" /\ shares = <<>>)
    /\ Masking!Init /\ (part # "masking" => looks = "text")
    /\ Api!Init /\ (part # "service" => serves = "reports")

(* The components but p stand still. *)
Others(p) ==
    /\ UNCHANGED part
    /\ p # "approval" => UNCHANGED vars
    /\ p # "index" => UNCHANGED indexVars
    /\ p # "retrieval" => UNCHANGED retrievalVars
    /\ p # "prompts" => UNCHANGED promptsVars
    /\ p # "answering" => UNCHANGED answeringVars
    /\ p # "tokens" => UNCHANGED tokensVars
    /\ p # "dialogue" => UNCHANGED dialogueVars
    /\ p # "contexts" => UNCHANGED contextsVars
    /\ p # "experiments" => UNCHANGED experimentsVars
    /\ p # "masking" => UNCHANGED maskingVars
    /\ p # "service" => UNCHANGED serviceVars

PartsNext ==
    \/ part = "approval" /\ Next /\ Others("approval")
    \/ part = "index" /\ RagIndex!Next /\ Others("index")
    \/ part = "retrieval" /\ Retrieval!Next /\ Others("retrieval")
    \/ part = "prompts" /\ Prompts!Next /\ Others("prompts")
    \/ part = "answering" /\ RagLoops!Next /\ Others("answering")
    \/ part = "tokens" /\ TokenUsage!Next /\ Others("tokens")
    \/ part = "dialogue" /\ Dialogue!Next /\ Others("dialogue")
    \/ part = "contexts" /\ ContextWindows!Next /\ Others("contexts")
    \/ part = "experiments" /\ Experiments!Next /\ Others("experiments")
    \/ part = "masking" /\ Masking!Next /\ Others("masking")
    \/ part = "service" /\ Api!Next /\ Others("service")

partsVars == <<part, vars, indexVars, retrievalVars, promptsVars, answeringVars,
    tokensVars, dialogueVars, contextsVars, experimentsVars, maskingVars,
    serviceVars>>
PartsSpec == PartsInit /\ [][PartsNext]_partsVars

(* The fairness of the runs of experts, when they are what runs. *)
PartsFair ==
    /\ WF_vars(part = "approval" /\ Tick)
    /\ \A r \in Runs : /\ WF_vars(part = "approval" /\ (Answer(r) \/ Finish(r)))
                       /\ WF_vars(part = "approval" /\ Poll(r))
                       /\ WF_vars(part = "approval" /\ ToolEnds(r))
PartsFairSpec == PartsSpec /\ PartsFair

IndexInv == part = "index" => RagIndex!IndexInv
BuildingInv == part = "retrieval" => Retrieval!BuildingInv
PromptsInv == part = "prompts" => Prompts!PromptsInv
RagLoopsInv == part = "answering" => RagLoops!RagLoopsInv
TokensUsedInv == part = "tokens" => TokenUsage!TokensUsedInv
DialogueInv == part = "dialogue" => Dialogue!DialogueInv
ContextInv == part = "contexts" => ContextWindows!ContextInv
ExperimentsInv == part = "experiments" => Experiments!ExperimentsInv
MaskingInv == part = "masking" => Masking!MaskingInv
ApiInv == part = "service" => Api!ApiInv

(* What the components of one kind keep, each in its own part. *)
RetrievalInv == IndexInv /\ BuildingInv /\ RagLoopsInv
DomainInv == PromptsInv /\ ExperimentsInv /\ TokensUsedInv /\ DialogueInv /\ ContextInv
ServingInv == MaskingInv /\ ApiInv
=============================================================================
