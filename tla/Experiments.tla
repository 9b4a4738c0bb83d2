---------------------------- MODULE Experiments ----------------------------
(***************************************************************************)
(* How changes are tried out: experiments with variants, the splitting of  *)
(* traffic by a hash, the data sets to measure against, the loop that      *)
(* tunes a pipeline against one with the improver that wraps it, and the   *)
(* monitor of live answers.                                                *)
(* Scores, shares and thresholds are percents; time is counted in seconds. *)
(***************************************************************************)
EXTENDS Naturals, Integers, Sequences, SequencesExt, FiniteSets, FiniteSetsExt

CONSTANTS Users, Bucket,             \* user -> the bucket 0..99 of its hash
          Variants,                  \* a sequence of names
          Splits,                    \* traffic: sequences of shares of the variants
          MaxExperiments, MaxObservations, Scores,
          Dimensions, Levels,        \* what a dimension may score in the loop
          MaxIterations, Patience, Threshold, MinImprovement,
          WindowSeconds, MaxTime, MaxAnswers,
          Inputs,                    \* sets of examples [id, query, spaced, category]; the
                                     \* id is the place in the list
          MinimumSize,               \* of a data set
          None

VARIABLES subject,      \* "experiments", "traffic", "data", "loop" or "monitor"
          experiments,  \* _active_experiments, in the order of creation
          created,      \* how many there were: each has an id of its own
          given,        \* the experiment of each user's last assignment, and the variant
          split, counters, assignments, \* TrafficSplitter; assignments: key -> variant
          golden,       \* GoldenDatasetBuilder: its examples, the file and the last split
          loop,         \* IterationClosedLoop.run
          clock, answers, alerts        \* DriftMonitor

experimentVars == <<experiments, created, given>>
trafficVars == <<split, counters, assignments>>
monitorVars == <<clock, answers, alerts>>
vars == <<subject, experimentVars, trafficVars, golden, loop, monitorVars>>

Names == ToSet(Variants)
NoAssignment == [experiment |-> 0, variant |-> None]

Cumulative(shares, i) == MapThenSumSet(LAMBDA j : shares[j], 1..i)
Valid(shares) == Cumulative(shares, Len(shares)) \in 99..101 /\ \A i \in DOMAIN shares : shares[i] > 0

Init ==
    /\ subject \in {"experiments", "traffic", "data", "loop", "monitor"}
    /\ experiments = <<>> /\ created = 0 /\ given = [u \in Users |-> NoAssignment]
    /\ split \in (IF subject = "traffic" THEN {s \in Splits : Valid(s)} ELSE {<<>>}) /\ counters = [v \in Names |-> 0] /\ assignments = [u \in {} |-> None]
    /\ loop = [config |-> 0, best |-> 0, bestConfig |-> None, previous |-> 0, patience |-> 0,
               snapshots |-> <<>>, drifted |-> FALSE, end |-> "no"]
    /\ golden = [examples |-> {}, built |-> FALSE, file |-> {}, split |-> None]
    /\ clock = 0 /\ answers = <<>> /\ alerts = <<>>

\* The variant of a bucket: the first whose cumulative share is above it, or the last.
Routed(shares, bucket) ==
    Variants[Min({i \in DOMAIN shares : bucket < Cumulative(shares, i)} \cup {Len(shares)})]
-----------------------------------------------------------------------------
Ids == {experiments[i].id : i \in DOMAIN experiments}
Position(id) == CHOOSE i \in DOMAIN experiments : experiments[i].id = id
Active == SelectSeq(experiments, LAMBDA e : e.status = "active")
Observations == MapThenSumSet(LAMBDA i : experiments[i].total, DOMAIN experiments)

CreateExperiment(shares) ==
    /\ subject = "experiments" /\ created < MaxExperiments
    /\ Cumulative(shares, Len(shares)) \in 99..101
    /\ created' = created + 1
    /\ experiments' = Append(experiments,
           [id |-> created', status |-> "active", shares |-> shares,
            observations |-> [v \in Names |-> <<>>], total |-> 0, winner |-> None])
    /\ UNCHANGED <<subject, given, trafficVars, golden, loop, monitorVars>>

(* Mutant of AssignVariant: the newest experiment that is active is taken. *)
AssignNewest(u) ==
    /\ subject = "experiments" /\ Active # <<>>
    /\ given' = [given EXCEPT ![u] = [experiment |-> Last(Active).id,
                                      variant |-> Routed(Last(Active).shares, Bucket[u])]]
    /\ UNCHANGED <<subject, experiments, created, trafficVars, golden, loop, monitorVars>>

\* assign_variant(): of the oldest experiment that is active
AssignVariant(u) ==
    /\ subject = "experiments" /\ Active # <<>>
    /\ given' = [given EXCEPT ![u] = [experiment |-> Head(Active).id,
                                      variant |-> Routed(Head(Active).shares, Bucket[u])]]
    /\ UNCHANGED <<subject, experiments, created, trafficVars, golden, loop, monitorVars>>

RecordObservation(u, score) ==
    LET id == given[u].experiment
    IN  /\ subject = "experiments" /\ id \in Ids
        /\ experiments[Position(id)].status = "active"
        /\ Observations < MaxObservations
        /\ experiments' = [experiments EXCEPT
               ![Position(id)].observations[given[u].variant] = Append(@, score),
               ![Position(id)].total = @ + 1]
        /\ UNCHANGED <<subject, created, given, trafficVars, golden, loop, monitorVars>>

Total(scores) == MapThenSumSet(LAMBDA i : scores[i], DOMAIN scores)
\* Two variants can be told apart when both have two observations and some pair of one differs.
Testable(a, b) ==
    /\ Len(a) >= 2 /\ Len(b) >= 2
    /\ \E s \in {a, b} : Cardinality(ToSet(s)) > 1
MeanAtLeast(a, b) ==
    LET Mean(s) == [sum |-> Total(s), of |-> Max({1, Len(s)})]
    IN  Mean(a).sum * Mean(b).of >= Mean(b).sum * Mean(a).of
Differ(a, b) == ~(MeanAtLeast(a, b) /\ MeanAtLeast(b, a))
\* The variants that get_results() may call the winner: the test may or may not find a
\* difference of two that can be told apart significant.
Winners(observations) ==
    LET best == Variants[Min({i \in DOMAIN Variants :
                    \A v \in Names : MeanAtLeast(observations[Variants[i]], observations[v])})]
    IN  IF Len(Variants) > 1 /\ \A v \in Names \ {best} :
               Testable(observations[best], observations[v]) /\ Differ(observations[best], observations[v])
        THEN {best, None} ELSE {None}

Stop(id) ==
    LET i == Position(id)
    IN  /\ subject = "experiments" /\ experiments[i].status = "active"
        /\ \E w \in Winners(experiments[i].observations) :
               experiments' = [experiments EXCEPT ![i].status = "stopped", ![i].winner = w]
        /\ UNCHANGED <<subject, created, given, trafficVars, golden, loop, monitorVars>>

DeleteExperiment(id) ==
    /\ subject = "experiments"
    /\ experiments' = RemoveAt(experiments, Position(id))
    /\ UNCHANGED <<subject, created, given, trafficVars, golden, loop, monitorVars>>
-----------------------------------------------------------------------------
\* TrafficSplitter.assign(), and GrayscaleRouter.route() with the same shares
Assign(u) ==
    LET v == Routed(split, Bucket[u])
    IN  /\ subject = "traffic" /\ \A w \in Names : counters[w] < 2
        /\ counters' = [counters EXCEPT ![v] = @ + 1]
        /\ assignments' = [k \in DOMAIN assignments \cup {u} |-> IF k = u THEN v ELSE assignments[k]]
        /\ UNCHANGED <<subject, experimentVars, split, golden, loop, monitorVars>>
\* A canary is rolled out: the share of the last variant grows.
UpdateConfig(shares) ==
    /\ subject = "traffic" /\ Valid(shares) /\ Last(shares) > Last(split)
    /\ split' = shares /\ counters' = [v \in Names |-> 0]
    /\ UNCHANGED <<subject, experimentVars, assignments, golden, loop, monitorVars>>
ResetCounters ==
    /\ subject = "traffic" /\ counters' = [v \in Names |-> 0] /\ counters' # counters
    /\ UNCHANGED <<subject, experimentVars, split, assignments, golden, loop, monitorVars>>
-----------------------------------------------------------------------------
(* The data sets.  A query stands for its lower-case text without the spaces *)
(* around it; `spaced' says whether there are any.                           *)

Apart == UNCHANGED <<subject, experimentVars, trafficVars, loop, monitorVars>>
Same(x, y) == x.query = y.query /\ x.spaced = y.spaced

\* _deduplicate(): the first of those that are the same to the letter
Deduplicated(all) == {x \in all : \A y \in all : Same(x, y) => x.id <= y.id}

\* build(): the examples are taken over before they are counted, counted before duplicates go,
\* and written to the file; without any those of before are used.
Build(input, written) ==
    LET all == IF input = {} THEN golden.examples ELSE input
        enough == Cardinality(all) >= MinimumSize
    IN  /\ subject = "data"
        /\ golden' = [golden EXCEPT
               !.examples = IF enough THEN Deduplicated(all) ELSE all,
               !.built = enough \/ (input = {} /\ golden.built),
               !.file = IF enough /\ written THEN Deduplicated(all) ELSE golden.file]
        /\ Apart

\* load() of the file
Load ==
    /\ subject = "data" /\ golden.file # {}
    /\ golden' = [golden EXCEPT !.examples = golden.file, !.built = TRUE]
    /\ Apart

Categories(all) == {x.category : x \in all}
OfCategory(all, c) == {x \in all : x.category = c}

\* How many of n examples are for training and for validation: each category of its own has one
\* at least, if there are enough.
TrainSize(n, stratified) == IF stratified THEN Max({1, (70 * n) \div 100}) ELSE (70 * n) \div 100
ValSize(n, stratified) == IF stratified THEN Max({1, (15 * n) \div 100}) ELSE (15 * n) \div 100

\* The shuffled examples of a group are cut into three.
Cut(group, train, val, stratified) ==
    LET n == Cardinality(group)
        first == Min({n, TrainSize(n, stratified)})
    IN  /\ Cardinality(train \cap group) = first
        /\ Cardinality(val \cap group) = Min({n - first, ValSize(n, stratified)})

\* split_dataset(), of the examples of the input or of its own
Split(input, stratified) ==
    LET all == IF input = None THEN golden.examples ELSE input
        groups == IF stratified THEN {OfCategory(all, c) : c \in Categories(all)} ELSE {all}
    IN  /\ subject = "data"
        /\ \E train \in SUBSET all : \E val \in SUBSET (all \ train) :
               /\ \A group \in groups : Cut(group, train, val, stratified)
               /\ golden' = [golden EXCEPT !.split =
                      [train |-> train, val |-> val, test |-> all \ (train \cup val),
                       stratified |-> stratified, built |-> input = None /\ golden.built]]
        /\ Apart

\* _find_overlaps(): the queries of both that are the same but for spaces
Exact(a, b) == {x.query : x \in a} \cap {x.query : x \in b}
-----------------------------------------------------------------------------
(* There is some number of dimensions, and scores are natural numbers.         *)
TuningAssumption ==
    /\ IsFiniteSet(Dimensions) /\ Levels \subseteq Nat /\ None \notin Nat
    /\ MaxIterations \in Nat /\ Patience \in Nat /\ Threshold \in Nat

\* DriftDetector.detect() without samples: by more than 5 points, or by a tenth of what it was
Drifted(base, now) ==
    \E d \in Dimensions : LET delta == IF now[d] > base[d] THEN now[d] - base[d] ELSE base[d] - now[d]
                          IN  delta > 5 \/ (base[d] > 0 /\ 10 * delta > base[d])
Overall(scores) == MapThenSumSet(LAMBDA d : scores[d], Dimensions)
Points(n) == n * Cardinality(Dimensions)
CanOptimize(scores) == \E d \in Dimensions : scores[d] < 70

\* What configure(**best) makes of a pipeline: nothing, as long as there is no best one.
Configured(best, config) == IF best = None THEN config ELSE best

\* One iteration of run(): the scores are of the configuration before it is tuned, and what is
\* kept as the best one is the configuration after.  A configuration is known by the iteration
\* that made it.  After the last one the pipeline gets the best, if there is one: nobody gives
\* run() an initial_config, and a score of 0 is not better than none.
Iterate(scores) ==
    LET n == Len(loop.snapshots) + 1
        overall == Overall(scores)
        config == IF CanOptimize(scores) THEN n ELSE loop.config
        improvement == IF n = 1 THEN 0 ELSE overall - loop.previous
        better == overall > loop.best
        stuck == ~better /\ improvement <= Points(Threshold)
        back == stuck /\ improvement < -Points(2)
        patience == IF stuck THEN loop.patience + 1 ELSE 0
        best == IF better THEN config ELSE loop.bestConfig
        last == patience >= Patience \/ n = MaxIterations
    IN  /\ subject = "loop" /\ loop.end = "no" /\ n <= MaxIterations
        /\ loop' = [best |-> IF better THEN overall ELSE loop.best,
                    bestConfig |-> best,
                    config |-> IF last \/ back THEN Configured(best, config) ELSE config,
                    previous |-> overall, patience |-> patience,
                    snapshots |-> Append(loop.snapshots,
                        [scores |-> scores, measured |-> loop.config, config |-> config]),
                    drifted |-> n > 1 /\ Drifted(loop.snapshots[1].scores, scores),
                    end |-> IF patience >= Patience THEN "converged" ELSE IF last THEN "ended" ELSE "no"]
        /\ UNCHANGED <<subject, experimentVars, trafficVars, golden, monitorVars>>

\* No example could be evaluated: without any iteration the result cannot be made.
NothingEvaluated ==
    /\ subject = "loop" /\ loop.end = "no"
    /\ loop' = [loop EXCEPT !.config = Configured(loop.bestConfig, loop.config),
                            !.end = IF loop.snapshots = <<>> THEN "failed" ELSE "ended"]
    /\ UNCHANGED <<subject, experimentVars, trafficVars, golden, monitorVars>>

\* SelfImprover.improve(): whether the best configuration is worth it
Improvement == loop.best - (IF loop.snapshots = <<>> THEN 0 ELSE Overall(loop.snapshots[1].scores))
Promoted == loop.end \in {"converged", "ended"} /\ Improvement >= Points(MinImprovement)
-----------------------------------------------------------------------------
Recent(seq, t) == SelectSeq(seq, LAMBDA e : e.at >= t - WindowSeconds)
Count(seq, what) == Cardinality({i \in DOMAIN seq : seq[i][what]})
RecordAnswer(rejected, cited, negative) ==
    /\ subject = "monitor" /\ Len(answers) < MaxAnswers
    /\ answers' = Recent(Append(answers,
           [at |-> clock, rejected |-> rejected, cited |-> cited, negative |-> negative]), clock)
    /\ UNCHANGED <<subject, experimentVars, trafficVars, golden, loop, clock, alerts>>
\* check(): the rate of nothing is 0
Check ==
    LET recent == Recent(answers, clock)
        Above(what, limit) == 100 * Count(recent, what) > limit * Len(recent)
        below == recent = <<>> \/ 100 * Count(recent, "cited") < 50 * Len(recent)
        new == {m \in {"rejected", "cited", "negative"} :
                   CASE m = "rejected" -> Above("rejected", 30)
                     [] m = "cited" -> below
                     [] m = "negative" -> Above("negative", 15)}
    IN  /\ subject = "monitor" /\ Len(alerts) < 2
        /\ answers' = recent
        /\ alerts' = Append(alerts, [at |-> clock, metrics |-> new])
        /\ UNCHANGED <<subject, experimentVars, trafficVars, golden, loop, clock>>
Tick == subject = "monitor" /\ clock < MaxTime /\ clock' = clock + 1
        /\ UNCHANGED <<subject, experimentVars, trafficVars, golden, loop, answers, alerts>>

Next ==
    \/ \E s \in Splits : CreateExperiment(s) \/ UpdateConfig(s)
    \/ \E u \in Users : AssignVariant(u) \/ Assign(u) \/ \E s \in Scores : RecordObservation(u, s)
    \/ \E id \in Ids : Stop(id) \/ DeleteExperiment(id)
    \/ ResetCounters
    \/ \E input \in Inputs \cup {{}}, written \in BOOLEAN : Build(input, written)
    \/ Load
    \/ \E input \in Inputs \cup {None}, stratified \in BOOLEAN : Split(input, stratified)
    \/ \E scores \in [Dimensions -> Levels] : Iterate(scores)
    \/ NothingEvaluated
    \/ \E r, c, n \in BOOLEAN : RecordAnswer(r, c, n)
    \/ Check \/ Tick

Spec == Init /\ [][Next]_vars
-----------------------------------------------------------------------------
(* A user stays in an experiment until it is stopped or deleted, whatever    *)
(* others begin; a winner has the best mean and was tested against all.      *)
ExperimentsSound ==
    /\ \A u \in Users : LET id == given[u].experiment
                        IN  (\E i \in DOMAIN Active : Active[i].id = id) => Head(Active).id = id
    /\ \A i \in DOMAIN experiments :
           LET e == experiments[i]
           IN  /\ e.total = MapThenSumSet(LAMBDA v : Len(e.observations[v]), Names)
               /\ e.winner # None => \A v \in Names \ {e.winner} :
                      /\ Len(e.observations[v]) >= 2 /\ Len(e.observations[e.winner]) >= 2
                      /\ ~MeanAtLeast(e.observations[v], e.observations[e.winner])

(* While the share of the canary grows, no key that was routed to it is      *)
(* routed away from it again.                                                *)
CanaryKeepsItsKeys ==
    \A u \in DOMAIN assignments :
        assignments[u] = Last(Variants) => Routed(split, Bucket[u]) = Last(Variants)

(* What a data set was built from is split without a leak: a query that is   *)
(* in two of the splits is there with spaces around it and without, whether  *)
(* the set is used at once or read from its file; and of each category there *)
(* are examples to train with, with two to validate and with four to test.   *)
SplitsDoNotLeak ==
    LET s == golden.split
        all == s.train \cup s.val \cup s.test
        Leaks == Exact(s.train, s.val) \cup Exact(s.train, s.test) \cup Exact(s.val, s.test)
    IN  s # None =>
            /\ s.built => \A q \in Leaks : {x.spaced : x \in {y \in all : y.query = q}} = BOOLEAN
            /\ s.stratified => \A c \in Categories(all) :
                   /\ OfCategory(s.train, c) # {}
                   /\ Cardinality(OfCategory(all, c)) >= 2 => OfCategory(s.val, c) # {}
                   /\ Cardinality(OfCategory(all, c)) >= 4 => OfCategory(s.test, c) # {}

(* The best score is the best that was measured, and the loop gives up only  *)
(* after iterations without a better one.  The configuration it reports and  *)
(* leaves the pipeline with is the one made right after the best measurement *)
(* (and so never measured by it, unless nothing could be tuned).  When no    *)
(* score was above 0 it reports none, and leaves what it tuned last.         *)
After(i) == IF CanOptimize(loop.snapshots[i].scores) THEN i ELSE loop.snapshots[i].measured

LoopEndsAtItsBest ==
    LET n == Len(loop.snapshots)
        all == {Overall(loop.snapshots[i].scores) : i \in 1..n}
    IN  /\ loop.best = Max(all \cup {0})
        /\ IF loop.bestConfig = None
           THEN loop.best = 0 /\ (n > 0 => loop.config = After(n))
           ELSE /\ \E i \in 1..n : Overall(loop.snapshots[i].scores) = loop.best
                                   /\ After(i) = loop.bestConfig
                /\ loop.end # "no" => loop.config = loop.bestConfig
        /\ loop.end = "converged" /\ loop.best > 0 =>
               \E i \in 1..(n - Patience) : Overall(loop.snapshots[i].scores) = loop.best
        /\ Improvement >= 0

(* Answers rejected or disliked are reported only when there were any in the *)
(* window, and none that is older counts.                                    *)
AlertsHaveCause ==
    \A i \in DOMAIN alerts :
        alerts[i].metrics \cap {"rejected", "negative"} # {} /\ alerts[i].at = clock => \E j \in DOMAIN answers :
            (answers[j].rejected \/ answers[j].negative) /\ answers[j].at >= clock - WindowSeconds

ExperimentsInv ==
    /\ ExperimentsSound /\ CanaryKeepsItsKeys /\ SplitsDoNotLeak
    /\ LoopEndsAtItsBest /\ AlertsHaveCause

(* "Minimum 100 examples for a valid dataset": a data set that was saved has *)
(* them.                                                                     *)
SavedAreEnough == golden.file # {} => Cardinality(golden.file) >= MinimumSize

(* self_improve.py says that without auto_apply the best configuration is    *)
(* only reported: the pipeline then has the one that it had.                 *)
OnlyReported == Promoted => loop.config = 0
=============================================================================
