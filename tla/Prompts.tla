---- MODULE Prompts ----
(***************************************************************************)
(* Prompts (domain/prompt_engineering).  The versions of a template        *)
(* (version_manager.py) are kept in a database by concurrent sessions.     *)
(* Each query is awaited: what a session has read may be out of date when  *)
(* it writes.  Two constraints of the tables, one template of a name and   *)
(* one row per number, are all that keeps sessions apart: the second of    *)
(* two that write the same number waits for the first, and fails if that   *)
(* commits.                                                                *)
(*                                                                         *)
(* The rest is used by one caller at a time; `prepares` says what a        *)
(* behaviour is about: the examples of tenants and the choice among them   *)
(* (fewshot/), the cutting of a long template (cost_optimizer.py), the     *)
(* scores of prompts over time (drift_detector.py), the compilation of a   *)
(* module (dspy_integration/) and the cleaning of an input (security.py).  *)
(***************************************************************************)
EXTENDS Naturals, Integers, Sequences, SequencesExt, FiniteSets, FiniteSetsExt

CONSTANTS Sessions, Contents,
          MaxVersions,        \* bound: the number of a version
          Tenants, Inputs,
          Alike,              \* how similar two inputs are, 0..10; 10 to themselves
          Diversity,          \* lambda_diversity, in tenths
          MaxExamples,        \* bound: examples added
          Paragraphs,         \* the lengths of a paragraph
          MaxParagraphs,      \* bound: paragraphs of a template
          Budgets,            \* max_tokens, in characters
          Meaningful,         \* the least characters of a paragraph that are worth keeping
          Watched,            \* the names of prompts with scores
          MinBaseline, MinCurrent,
          MaxScores,          \* bound: scores given at once
          MaxUses,            \* bound: calls
          MaxInput, Back,     \* MAX_INPUT_LENGTH; how far back a sentence may end
          MaxText,            \* bound: length of an input
          None

VARIABLES prepares,
          versions,   \* the committed rows: [number, content, of]; `of` is what it came after
          current,    \* the committed current_version, 0 without a template
          session,    \* per session: its step, what it has read, and the row it writes
          examples,   \* _store: the examples
          found,      \* the last search: who asked what, its results, and those selected
          cut,        \* the last template that was optimized, and what is left of it
          scores,     \* _baselines and _trends: how many scores each prompt has, and its updates
          shown,      \* the last trend, and the last comparison
          compiled,   \* DSPy: is it there, the modules made, _last_module, what was exported
          cleaned,    \* the last input and what was made of it
          uses

vars == <<prepares, versions, current, session, examples, found, cut, scores, shown, compiled,
          cleaned, uses>>
versionVars == <<versions, current, session>>

Row == [number : 0..MaxVersions, content : Contents, of : 0..MaxVersions]
Steps == {"idle", "read", "decided", "flushed"}
SessionInfo == [step : Steps, seen : 0..MaxVersions, row : Row]
Idle == [step |-> "idle", seen |-> 0,
         row |-> [number |-> 0, content |-> CHOOSE c \in Contents : TRUE, of |-> 0]]

Latest == CHOOSE v \in versions : \A w \in versions : w.number <= v.number

\* create() asks for the name, update() and rollback() get the template.
Read(s) ==
    /\ session[s].step = "idle" /\ current < MaxVersions
    /\ session' = [session EXCEPT ![s] = [Idle EXCEPT !.step = "read", !.seen = current]]
    /\ UNCHANGED <<versions, current>>

\* The number comes from the template that was read first.
Numbered(s, content, of) == [number |-> session[s].seen + 1, content |-> content, of |-> of]

Decides(s, row) ==
    session' = [session EXCEPT ![s] = [@ EXCEPT !.step = "decided", !.row = row]]

\* create(), to the flush
Create(s, content) ==
    /\ session[s].step = "read" /\ session[s].seen = 0
    /\ Decides(s, Numbered(s, content, 0))
    /\ UNCHANGED <<versions, current>>

\* update(), with the latest version that is there by now: the same content is no update.
Update(s, content) ==
    /\ session[s].step = "read" /\ session[s].seen # 0
    /\ IF Latest.content = content
       THEN session' = [session EXCEPT ![s] = Idle]
       ELSE Decides(s, Numbered(s, content, Latest.number))
    /\ UNCHANGED <<versions, current>>

\* rollback(): the content of an old version becomes a new one.
Rollback(s, target) ==
    /\ session[s].step = "read" /\ session[s].seen # 0
    /\ \E v \in versions :
           v.number = target /\ Decides(s, Numbered(s, v.content, session[s].seen))
    /\ UNCHANGED <<versions, current>>

\* flush(): a number that another transaction has written is waited for.
Flush(s) ==
    /\ session[s].step = "decided"
    /\ \A t \in Sessions : session[t].step = "flushed" => session[t].row.number # session[s].row.number
    /\ session' = [session EXCEPT ![s] =
           IF \E v \in versions : v.number = session[s].row.number THEN Idle ELSE [@ EXCEPT !.step = "flushed"]]
    /\ UNCHANGED <<versions, current>>

\* The transaction of the caller: it commits, or is rolled back wherever it is.
Commit(s) ==
    /\ session[s].step = "flushed"
    /\ versions' = versions \cup {session[s].row}
    /\ current' = session[s].row.number
    /\ session' = [session EXCEPT ![s] = Idle]
Abort(s) ==
    /\ session[s].step # "idle"
    /\ session' = [session EXCEPT ![s] = Idle]
    /\ UNCHANGED <<versions, current>>

---------------------------------------------------------------------------
(* Examples *)

Example == [id : 1..MaxExamples, tenant : Tenants, input : Inputs, of : Inputs, tags : SUBSET {"tag"}]
Seen == [tenant : Tenants \cup {None}, query : Inputs, k : 0..MaxExamples,
         results : Seq(Example), selected : Seq(Example)]
NothingSeen == [tenant |-> None, query |-> CHOOSE i \in Inputs : TRUE, k |-> 0,
                results |-> <<>>, selected |-> <<>>]
Used == uses < MaxUses /\ uses' = uses + 1
First(S) == CHOOSE n \in S : \A m \in S : n <= m

\* add(): the embedding is made of the input.  Tags may come with an update.
AddExample(tenant, input) ==
    /\ examples' = [n \in 1..(Len(examples) + 1) |-> IF n <= Len(examples) THEN examples[n] ELSE
           [id |-> n, tenant |-> tenant, input |-> input, of |-> input, tags |-> {}]]
    /\ Len(examples) < MaxExamples
    /\ Used /\ UNCHANGED found

\* update(), by the id alone
UpdateExample(n, input, tags) ==
    /\ n \in DOMAIN examples /\ examples[n] # None
    /\ examples' = [examples EXCEPT ![n] =
           IF input = None THEN [@ EXCEPT !.tags = tags]
           ELSE [@ EXCEPT !.tags = tags, !.input = input, !.of = input]]
    /\ Used /\ UNCHANGED found
\* delete()
DeleteExample(n) ==
    /\ n \in DOMAIN examples /\ examples[n] # None
    /\ examples' = [examples EXCEPT ![n] = None]
    /\ Used /\ UNCHANGED found

Owned(tenant) == {e \in Range(examples) \ {None} : e.tenant = tenant}

\* The most similar first, the oldest of those that are alike: the sort is stable.
Closer(query, e, f) ==
    \/ Alike[query][e.of] > Alike[query][f.of]
    \/ Alike[query][e.of] = Alike[query][f.of] /\ e.id < f.id
Ranked(S, query) == SetToSortSeq(S, LAMBDA e, f : Closer(query, e, f))
Cut(s, k) == SubSeq(s, 1, Min({k, Len(s)}))

\* The score of candidate n beside those chosen already, times ten.
Relevance(candidates, query, n) == Alike[query][candidates[n].of]
Closest(candidates, n, chosen) == Max({Alike[candidates[n].of][candidates[m].of] : m \in Range(chosen)})
MmrScore(candidates, query, n, chosen) ==
    Diversity * Relevance(candidates, query, n) - (10 - Diversity) * Closest(candidates, n, chosen)

\* MMRSelector.select(): the most relevant, then always the best beside those chosen.
Chosen(candidates, query, k) ==
    LET all == DOMAIN candidates
        best(S, value) == First({n \in S : \A m \in S : value[m] <= value[n]})
        choice[n \in 0..Min({k, Len(candidates)})] ==
            IF n = 0 THEN <<>>
            ELSE LET before == choice[n - 1]
                     left == all \ Range(before)
                 IN  Append(before, best(left, [m \in left |->
                         IF n = 1 THEN Relevance(candidates, query, m)
                         ELSE MmrScore(candidates, query, m, before)]))
    IN  [n \in DOMAIN choice[Min({k, Len(candidates)})] |-> candidates[choice[Min({k, Len(candidates)})][n]]]

\* search() by similarity, then the selection of k
Search(tenant, query, k, tags) ==
    LET results == Cut(Ranked({e \in Owned(tenant) : tags # {} => e.tags \cap tags # {}}, query), k + 1)
    IN  /\ found' = [tenant |-> tenant, query |-> query, k |-> k, results |-> results,
                     selected |-> Chosen(results, query, k)]
        /\ Used /\ UNCHANGED examples

\* get_by_tags(), in the order of the store
ByTags(tenant, tags, all) ==
    /\ found' = [NothingSeen EXCEPT !.tenant = tenant, !.results =
           SetToSortSeq({e \in Owned(tenant) : IF all THEN tags \subseteq e.tags ELSE tags \cap e.tags # {}},
                        LAMBDA e, f : e.id < f.id)]
    /\ Used /\ UNCHANGED examples

ExamplesNext ==
    \/ \E tenant \in Tenants, input \in Inputs : AddExample(tenant, input)
    \/ \E tenant \in Tenants, tags \in SUBSET {"tag"} :
           \/ \E query \in Inputs, k \in 0..2 : Search(tenant, query, k, tags)
           \/ \E all \in BOOLEAN : ByTags(tenant, tags, all)
    \/ \E n \in 1..MaxExamples :
           \/ DeleteExample(n)
           \/ \E input \in Inputs \cup {None}, tags \in SUBSET {"tag"} : UpdateExample(n, input, tags)

---------------------------------------------------------------------------
(* The cutting of a template: paragraphs are their lengths. *)

Templates == UNION {[1..n -> Paragraphs] : n \in 1..MaxParagraphs}
Chars(paragraphs) ==
    LET chars[n \in 0..Len(paragraphs)] ==
            IF n = 0 THEN 0 ELSE chars[n - 1] + paragraphs[n] + (IF n = 1 THEN 0 ELSE 2)
    IN  chars[Len(paragraphs)]
AtLeast0(n) == IF n > 0 THEN n ELSE 0

\* _truncate_middle_paragraphs(): whole paragraphs while they fit, and the beginning of
\* the next with "..." after it.
Middle(paragraphs, budget) ==
    LET sep(used) == IF used = 0 THEN 0 ELSE 2
        kept[n \in 0..Len(paragraphs)] ==
            IF n = 0 THEN [used |-> 0, over |-> FALSE]
            ELSE LET before == kept[n - 1]
                     left == budget - before.used - sep(before.used)
                 IN  IF before.over THEN before
                     ELSE IF paragraphs[n] <= left THEN [before EXCEPT !.used = budget - left + paragraphs[n]]
                     ELSE [used |-> IF left > Meaningful THEN budget + 3 ELSE before.used, over |-> TRUE]
    IN  IF budget <= 0 THEN 0 ELSE kept[Len(paragraphs)].used

\* truncate_to_budget(): what is kept of the opening, the middle and the closing, and
\* the length of it all before the last cut.
Truncated(p, budget) ==
    LET ends == IF Len(p) \div 3 > 1 THEN Len(p) \div 3 ELSE 1
        opening == Chars(SubSeq(p, 1, ends))
        closing == Chars(SubSeq(p, Len(p) - ends + 1, Len(p)))
        left == budget - opening - closing - 4
        open == IF left > 0 THEN opening ELSE (opening * budget) \div Chars(p)
        close == IF left > 0 THEN closing ELSE AtLeast0(Min({closing, budget - open - 4}))
        middle == Middle(SubSeq(p, ends + 1, Len(p) - ends), left)
        length == open + 2 + (IF middle > 0 THEN middle + 9 ELSE 0) + close
    IN  IF Chars(p) <= budget THEN [opening |-> opening, middle |-> 0, closing |-> closing, length |-> Chars(p)]
        ELSE IF Len(p) <= 2 THEN [opening |-> Min({p[1], budget}), middle |-> 0,
                                  closing |-> AtLeast0(budget - p[1] - 2), length |-> budget]
        ELSE [opening |-> open, middle |-> middle, closing |-> AtLeast0(close - AtLeast0(length - budget)),
              length |-> Min({length, budget})]

\* compress_instructions(): shorter phrases; a dash inside a line begins a line of its own.
Compressed(p) == {p, [p EXCEPT ![1] = Min(Paragraphs)], [p EXCEPT ![1] = @ + 1]}

\* optimize(): what is compressed is taken if it is shorter.
Optimize(p, budget, asked) ==
    LET strategy == IF asked # "auto" THEN asked
                    ELSE IF Chars(p) <= budget THEN "none"
                    ELSE IF 2 * Chars(p) <= 3 * budget THEN "compress" ELSE "both"
    IN  \E c \in Compressed(p) :
            LET text == IF strategy \in {"compress", "both"} /\ Chars(c) < Chars(p) THEN c ELSE p
            IN  cut' = [template |-> p, budget |-> budget, strategy |-> strategy, text |-> text,
                        left |-> Truncated(text, IF strategy \in {"truncate", "both"} THEN budget ELSE Chars(text))]

---------------------------------------------------------------------------
(* Scores of prompts *)

\* add_baseline(), clear_baseline()
AddBaseline(prompt, n) ==
    /\ scores' = [scores EXCEPT !.baseline[prompt] = n]
    /\ Used /\ UNCHANGED shown
ClearBaseline(prompt) ==
    /\ scores' = [scores EXCEPT !.baseline[prompt] = 0]
    /\ Used /\ UNCHANGED shown
\* update_trend(): the observations are numbered.
UpdateTrend(prompt) ==
    /\ scores' = [scores EXCEPT !.trend[prompt] = Append(@, Len(@) + 1)]
    /\ Used /\ UNCHANGED shown

\* get_trend(): the last ones, the most recent first; the slice of none is all of them.
LastOnes(s, window) == IF window = 0 THEN s ELSE SubSeq(s, Max({1, Len(s) - window + 1}), Len(s))
GetTrend(prompt, window) ==
    /\ shown' = [shown EXCEPT !.window = window, !.trend = Reverse(LastOnes(scores.trend[prompt], window)),
                              !.length = Len(scores.trend[prompt])]
    /\ Used /\ UNCHANGED scores

\* detect() of each that has enough scores; the others are passed over.
Enough(prompt, given) == scores.baseline[prompt] >= MinBaseline /\ given[prompt] >= MinCurrent
CompareAllPrompts(given, drifting) ==
    /\ shown' = [shown EXCEPT !.given = given, !.baseline = scores.baseline, !.result =
           [p \in Watched |-> IF ~Enough(p, given) THEN "none" ELSE IF p \in drifting THEN "drift" ELSE "stable"]]
    /\ drifting \subseteq {p \in Watched : Enough(p, given)}
    /\ Used /\ UNCHANGED scores

ScoresNext ==
    \/ \E p \in Watched :
           \/ \E n \in 1..MaxScores : AddBaseline(p, n)
           \/ ClearBaseline(p) \/ UpdateTrend(p)
           \/ \E window \in 0..2 : GetTrend(p, window)
    \/ \E given \in [Watched -> 0..MaxScores], drifting \in SUBSET Watched : CompareAllPrompts(given, drifting)

---------------------------------------------------------------------------
(* Compilation: `there` says whether DSPy is installed. *)

Reported == [asked : 0..MaxUses, outcomes : Seq({"right", "wrong", "raised"}), score : 0..MaxUses, real : BOOLEAN]
NoReport == [asked |-> 0, outcomes |-> <<>>, score |-> 0, real |-> TRUE]

\* optimize_with_miprov2(), optimize_with_bootstrap(), compile_rag_module(): what fails
\* is answered by a module that is no compiled one, and the last one stays.
CompileModule(works) ==
    /\ works => compiled.there
    /\ compiled' = [compiled EXCEPT !.modules = Append(@, works),
                                    !.last = IF works THEN Len(compiled.modules) + 1 ELSE @]
    /\ Used
\* export_prompt_instructions(): without DSPy only a module that is a dictionary has any.
ExportInstructions(n) ==
    /\ n \in DOMAIN compiled.modules
    /\ compiled' = [compiled EXCEPT !.exported = n, !.text = IF compiled.there THEN n ELSE @]
    /\ Used
\* export_instructions_from_last()
ExportLast ==
    /\ compiled' = IF compiled.last # 0 THEN [compiled EXCEPT !.exported = compiled.last, !.text = compiled.last]
                   ELSE [compiled EXCEPT !.exported = compiled.text]
    /\ Used
\* _mock_evaluate(): without an evaluation three answers of four are called right.
Made(outcomes) == [n \in DOMAIN outcomes |-> IF n % 4 # 1 THEN "right" ELSE "wrong"]
\* evaluate_compiled(): nothing in a report tells that it is made up.
Right(outcomes) == Cardinality({n \in DOMAIN outcomes : outcomes[n] = "right"})
EvaluateCompiled(outcomes, works) ==
    LET reported == IF works THEN outcomes ELSE Made(outcomes)
    IN  /\ compiled.modules # <<>> /\ (works => compiled.there)
        /\ compiled' = [compiled EXCEPT !.report = [asked |-> Len(outcomes), outcomes |-> reported,
                                                    score |-> Right(reported), real |-> works]]
        /\ Used

CompileNext ==
    \/ \E works \in BOOLEAN : CompileModule(works)
    \/ \E n \in 1..MaxUses : ExportInstructions(n)
    \/ ExportLast
    \/ \E works \in BOOLEAN, n \in 0..2 : \E outcomes \in [1..n -> {"right", "wrong", "raised"}] :
           EvaluateCompiled(outcomes, works)

---------------------------------------------------------------------------
(* The cleaning of an input; "rule" is a run of dashes. *)

Kinds == {"x", "stop", "space", "newline", "rule", "control"}
Blank == {"space", "newline"}
Keeping(t, places) == LET kept == SetToSortSeq(places, <) IN [n \in DOMAIN kept |-> t[kept[n]]]
At(t, n) == IF n \in DOMAIN t THEN t[n] ELSE None

\* Rules that meet are one.
Joined(t) == Keeping(t, {n \in DOMAIN t : ~(t[n] = "rule" /\ At(t, n - 1) = "rule")})

\* Of a run of spaces one, of a run of newlines two
Collapsed(t) ==
    LET spaces == Keeping(t, {n \in DOMAIN t : ~(t[n] = "space" /\ At(t, n - 1) = "space")})
    IN  Keeping(spaces, {n \in DOMAIN spaces :
            ~(spaces[n] = "newline" /\ At(spaces, n - 1) = "newline" /\ At(spaces, n - 2) = "newline")})

\* A line that is a rule goes with the blanks after it, but for the last newline of them.
WithoutRules(t) ==
    LET after(n) == {m \in (n + 1)..(Len(t) + 1) : \A i \in (n + 1)..(m - 1) : t[i] \in Blank}
        ends(n) == {m \in after(n) : At(t, m) \in {None, "newline"}}
        gone(n) == IF t[n] = "rule" /\ At(t, n - 1) \in {None, "newline"} /\ ends(n) # {}
                   THEN n..(Max(ends(n)) - 1) ELSE {}
    IN  Keeping(t, DOMAIN t \ UNION {gone(n) : n \in DOMAIN t})

Solid(t) == {n \in DOMAIN t : t[n] \notin Blank}
Stripped(t) == IF Solid(t) = {} THEN <<>> ELSE SubSeq(t, Min(Solid(t)), Max(Solid(t)))
RightStripped(t) == IF Solid(t) = {} THEN <<>> ELSE SubSeq(t, 1, Max(Solid(t)))

\* After the last sentence that ends in reach, else after the last line, else the last word
CutPoint(t) ==
    LET reach == (MaxInput - Back + 1)..MaxInput
        sentences == {n \in reach : n > 2 /\ n - 1 \in reach /\ t[n] = "space" /\ t[n - 1] = "stop"}
        lines == {n \in reach : n > 1 /\ t[n] = "newline"}
        words == {n \in reach : n > 1 /\ t[n] = "space"}
    IN  IF sentences # {} THEN Max(sentences) ELSE IF lines # {} THEN Max(lines)
        ELSE IF words # {} THEN Max(words) ELSE MaxInput

\* sanitize_input()
Sanitized(t) ==
    LET clean == Stripped(WithoutRules(Collapsed(Joined(SelectSeq(t, LAMBDA k : k # "control")))))
    IN  IF Len(clean) > MaxInput THEN RightStripped(SubSeq(clean, 1, CutPoint(clean))) ELSE clean

Type(kind) ==
    /\ Len(cleaned.given) < MaxText
    /\ ~(kind = "rule" /\ At(cleaned.given, Len(cleaned.given)) = "rule")
    /\ LET t == Append(cleaned.given, kind) IN cleaned' = [given |-> t, kept |-> Sanitized(t)]

---------------------------------------------------------------------------
Init ==
    /\ prepares \in {"versions", "examples", "cut", "scores", "compile", "input"}
    /\ versions = {} /\ current = 0
    /\ session = [s \in Sessions |-> Idle]
    /\ examples = <<>> /\ found = NothingSeen
    /\ cut = None
    /\ scores = [baseline |-> [p \in Watched |-> 0], trend |-> [p \in Watched |-> <<>>]]
    /\ shown = [window |-> 0, trend |-> <<>>, length |-> 0, given |-> [p \in Watched |-> 0],
                baseline |-> [p \in Watched |-> 0], result |-> [p \in Watched |-> "none"]]
    /\ \E there \in BOOLEAN :
           /\ (prepares # "compile" => there)
           /\ compiled = [there |-> there, modules |-> <<>>, last |-> 0, text |-> 0, exported |-> 0, report |-> NoReport]
    /\ cleaned = [given |-> <<>>, kept |-> <<>>]
    /\ uses = 0

Next ==
    \/ /\ prepares = "versions"
       /\ \E s \in Sessions :
              \/ Read(s) \/ Flush(s) \/ Commit(s) \/ Abort(s)
              \/ \E content \in Contents : Create(s, content) \/ Update(s, content)
              \/ \E target \in 1..MaxVersions : Rollback(s, target)
       /\ UNCHANGED <<prepares, examples, found, cut, scores, shown, compiled, cleaned, uses>>
    \/ /\ prepares = "examples" /\ ExamplesNext
       /\ UNCHANGED <<versionVars, prepares, cut, scores, shown, compiled, cleaned>>
    \/ /\ prepares = "cut" /\ cut = None
       /\ \E p \in Templates, budget \in Budgets, asked \in {"auto", "compress", "truncate", "both"} :
              Optimize(p, budget, asked)
       /\ UNCHANGED <<versionVars, prepares, examples, found, scores, shown, compiled, cleaned, uses>>
    \/ /\ prepares = "scores" /\ ScoresNext
       /\ UNCHANGED <<versionVars, prepares, examples, found, cut, compiled, cleaned>>
    \/ /\ prepares = "compile" /\ CompileNext
       /\ UNCHANGED <<versionVars, prepares, examples, found, cut, scores, shown, cleaned>>
    \/ /\ prepares = "input"
       /\ \E kind \in Kinds : Type(kind)
       /\ UNCHANGED <<versionVars, prepares, examples, found, cut, scores, shown, compiled, uses>>
Spec == Init /\ [][Next]_vars

(***************************************************************************)
(* Properties                                                              *)
(***************************************************************************)
TypeOK ==
    /\ versions \subseteq Row /\ current \in 0..MaxVersions
    /\ session \in [Sessions -> SessionInfo]
    /\ Range(examples) \subseteq Example \cup {None} /\ found \in Seen
    /\ compiled.last \in 0..Len(compiled.modules) /\ compiled.report \in Reported
    /\ uses \in 0..MaxUses

\* However updates and rollbacks overlap, the versions are numbered without a gap, the
\* template names the latest, and each was made knowing the one before it: no version is
\* written over one that its author has not seen.
NoLostVersion ==
    /\ {v.number : v \in versions} = 1..current
    /\ Cardinality(versions) = current
    /\ \A v \in versions : v.of = v.number - 1

\* However examples are changed by their ids alone, one is found by what its input says
\* now, and only by its tenant.
FoundIsOwn ==
    /\ \A e \in Range(examples) \ {None} : e.of = e.input
    /\ \A e \in Range(found.results) : e.tenant = found.tenant

\* No example that is passed over is both more relevant than one that is selected and less
\* like all selected before it; none is selected twice, and the most relevant is.  With as
\* much weight on diversity as here, an input comes again only after all others.
SelectedBest ==
    LET s == found.selected
        like(e, n) == IF n = 1 THEN 0 ELSE Max({Alike[e.of][s[m].of] : m \in 1..(n - 1)})
        relevant(e) == Alike[found.query][e.of]
    IN  /\ IsInjective(s) /\ Len(s) = Min({found.k, Len(found.results)})
        /\ s # <<>> => s[1] = found.results[1]
        /\ \A n \in DOMAIN s : \A e \in Range(found.results) \ Range(SubSeq(s, 1, n)) :
               /\ relevant(e) > relevant(s[n]) => like(e, n) > like(s[n], n)
               /\ like(s[n], n) = 10 => like(e, n) = 10

\* What is optimized is never longer, and what is cut is within the budget.  Where the ends
\* of a template fit, the opening is whole and of the closing at most the separators that
\* the budget of the middle forgets are lost.
EndsSurvive ==
    cut # None =>
        LET p == cut.text
            ends == Max({1, Len(p) \div 3})
            opening == Chars(SubSeq(p, 1, ends))
            closing == Chars(SubSeq(p, Len(p) - ends + 1, Len(p)))
        IN  /\ cut.left.length <= Chars(cut.template)
            /\ cut.strategy \in {"truncate", "both"} => cut.left.length <= cut.budget
            /\ Len(p) > 2 /\ opening + closing + 4 < cut.budget =>
                   cut.left.opening = opening /\ cut.left.closing + 10 >= closing

\* A trend shows the latest updates without a gap, the most recent first; a prompt is only
\* said to drift, or not to, when it and its baseline had scores enough.
TrendIsLatest ==
    /\ \A n \in DOMAIN shown.trend : shown.trend[n] = shown.length - n + 1
    /\ shown.window > 0 => Len(shown.trend) <= shown.window
    /\ \A p \in Watched : (shown.result[p] # "none") =
           (shown.baseline[p] >= MinBaseline /\ shown.given[p] >= MinCurrent)

\* What is exported last was compiled unless nothing ever was, however many compilations
\* failed since; a report accounts for every example it was given.
LastIsCompiled ==
    /\ compiled.last # 0 => compiled.modules[compiled.last]
    /\ (\E n \in DOMAIN compiled.modules : compiled.modules[n]) =
           (compiled.last # 0)
    /\ ~compiled.there => compiled.last = 0 /\ compiled.text = 0
    /\ Len(compiled.report.outcomes) = compiled.report.asked
    /\ compiled.report.score = Right(compiled.report.outcomes)

\* A cleaned input is within the limit, has no control characters and no blanks around
\* it, and more than two newlines follow each other only where a rule was between them;
\* nothing but those is taken from a short one.
InputIsClean ==
    LET t == cleaned.kept
        solid(s) == SelectSeq(s, LAMBDA k : k \in {"x", "stop"})
    IN  /\ Len(t) <= MaxInput /\ "control" \notin Range(t)
        /\ t # <<>> => Head(t) \notin Blank /\ Last(t) \notin Blank
        /\ "rule" \notin Range(cleaned.given) =>
               \A n \in 1..(Len(t) - 2) : \E m \in n..(n + 2) : t[m] # "newline"
        /\ Len(cleaned.given) <= MaxInput => solid(t) = solid(cleaned.given)

VersionsInv == TypeOK /\ NoLostVersion
PromptsInv ==
    /\ VersionsInv /\ FoundIsOwn /\ SelectedBest /\ EndsSurvive /\ TrendIsLatest
    /\ LastIsCompiled /\ InputIsClean
====
