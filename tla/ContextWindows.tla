--------------------------- MODULE ContextWindows ---------------------------
(***************************************************************************)
(* Context management: the window of five zones, which condenses and then  *)
(* drops what has the least priority, and pure operations on one list      *)
(* of messages or documents, whose input and output are kept in `done':     *)
(* one is how the gateway makes a request fit into the window of its model. *)
(***************************************************************************)
EXTENDS Naturals, Integers, Sequences, SequencesExt, FiniteSets, FiniteSetsExt, TLC

CONSTANTS ZoneOrder,      \* the zones, least priority first
          Compressible,   \* those whose content may be condensed
          ContextWindow,  \* tokens
          LongText,       \* a text longer than this is condensed to it ...
          NoteTokens,     \* ... and a note of this size; so is the note of omitted items
          Contents,       \* what may be added: sequences of parts, a text has one
          MaxAdded,       \* items added without a key
          Messages,       \* [role, tokens, chars]
          MaxMessages, Budgets,
          RecentTurns, SummaryTrigger,
          Scores, MaxDocuments,
          Texts, MaxTexts,
          RequestMessages, \* [role, tokens, text]: of text, or of blocks
          Windows          \* the context windows of models

VARIABLES uses,        \* what is used: "zones" or one of the operations
          content,     \* FiveZoneWindow._content: zone -> <<[key, parts]>>
          zoneTokens,  \* _zone_tokens
          compressed,  \* _compressed
          nextId,      \* _next_id
          dropped,     \* the zones that lost an item in the last step
          done         \* input and output of an operation

vars == <<uses, content, zoneTokens, compressed, nextId, dropped, done>>

Zones == ToSet(ZoneOrder)
Named == 0     \* the key of the caller; generated keys are 1, 2, ...
Nothing == [op |-> "none"]

Init ==
    /\ uses \in {"zones", "truncate", "turns", "hybrid", "reorder", "cache", "request"}
    /\ content = [z \in Zones |-> <<>>] /\ zoneTokens = [z \in Zones |-> 0]
    /\ compressed = [z \in Zones |-> FALSE] /\ nextId = 1
    /\ dropped = {} /\ done = Nothing

Indices(s) == DOMAIN s
Tokens(items) ==
    MapThenSumSet(LAMBDA i : MapThenSumSet(LAMBDA p : items[i].parts[p], Indices(items[i].parts)),
                  Indices(items))
CountAll(all) == MapThenSumSet(LAMBDA z : Tokens(all[z]), Zones)

\* A long text is cut, a long list keeps its first and its last part.
Condensed(parts) ==
    IF Len(parts) = 1 THEN IF parts[1] > LongText THEN <<LongText + NoteTokens>> ELSE parts
    ELSE IF Len(parts) > 3 THEN <<parts[1], NoteTokens, Last(parts)>> ELSE parts
CondensedZone(items) == [i \in Indices(items) |-> [items[i] EXCEPT !.parts = Condensed(@)]]

\* _compress_low_priority() of a window w = [content, tokens, compressed]: zone after zone,
\* least priority first, until it fits.
CompressLowPriority(w) ==
    LET after[i \in 0..Len(ZoneOrder)] ==
            IF i = 0 THEN w
            ELSE LET z == ZoneOrder[i]
                     now == after[i - 1]
                     items == CondensedZone(now.content[z])
                 IN  IF z \notin Compressible \/ now.content[z] = <<>>
                        \/ CountAll(now.content) <= ContextWindow THEN now
                     ELSE [content |-> [now.content EXCEPT ![z] = items],
                           tokens |-> [now.tokens EXCEPT ![z] = Tokens(items)],
                           compressed |-> [now.compressed EXCEPT ![z] = TRUE]]
    IN  after[Len(ZoneOrder)]

\* _truncate_low_priority(): zone after zone, the oldest items go until it fits.
TruncateLowPriority(w) ==
    LET after[i \in 0..Len(ZoneOrder)] ==
            IF i = 0 THEN w
            ELSE LET z == ZoneOrder[i]
                     now == after[i - 1]
                     Without(n) == [now.content EXCEPT ![z] = SubSeq(@, n + 1, Len(@))]
                     items == Len(now.content[z])
                     n == Min({items} \cup {k \in 0..items : CountAll(Without(k)) <= ContextWindow})
                 IN  IF items = 0 \/ CountAll(now.content) <= ContextWindow THEN now
                     ELSE [now EXCEPT !.content = Without(n), !.tokens[z] = Tokens(Without(n)[z])]
    IN  after[Len(ZoneOrder)]

CheckOverflow(w) ==
    IF CountAll(w.content) <= ContextWindow THEN w
    ELSE LET small == CompressLowPriority(w)
         IN  IF CountAll(small.content) <= ContextWindow THEN small ELSE TruncateLowPriority(small)

\* A key that is there keeps its place.
Placed(items, key, parts) ==
    LET at == {i \in Indices(items) : items[i].key = key}
        item == [key |-> key, parts |-> parts]
    IN  IF at = {} THEN Append(items, item) ELSE [items EXCEPT ![Min(at)] = item]

AddToZone(z, key, parts) ==
    LET added == [content EXCEPT ![z] = Placed(@, key, parts)]
        w == CheckOverflow([content |-> added,
                            tokens |-> [zoneTokens EXCEPT ![z] = Tokens(added[z])],
                            compressed |-> [compressed EXCEPT ![z] = FALSE]])
    IN  /\ uses = "zones" /\ (key = Named \/ nextId <= MaxAdded)
        /\ content' = w.content /\ zoneTokens' = w.tokens /\ compressed' = w.compressed
        /\ nextId' = IF key = Named THEN nextId ELSE nextId + 1
        /\ dropped' = {q \in Zones : Len(w.content[q]) < Len(added[q])}
        /\ UNCHANGED <<uses, done>>

RemoveFromZone(z, i) ==
    /\ uses = "zones" /\ i \in Indices(content[z])
    /\ content' = [content EXCEPT ![z] = RemoveAt(@, i)]
    /\ zoneTokens' = [zoneTokens EXCEPT ![z] = Tokens(content'[z])]
    /\ dropped' = {} /\ UNCHANGED <<uses, compressed, nextId, done>>

ClearZone(z) ==
    /\ uses = "zones" /\ content[z] # <<>>
    /\ content' = [content EXCEPT ![z] = <<>>] /\ zoneTokens' = [zoneTokens EXCEPT ![z] = 0]
    /\ compressed' = [compressed EXCEPT ![z] = FALSE]
    /\ dropped' = {} /\ UNCHANGED <<uses, nextId, done>>
-----------------------------------------------------------------------------
\* One operation on one input; its record is written once.
Ready(op) == uses = op /\ done = Nothing
Did(op, record) ==
    /\ done' = [op |-> op] @@ record
    /\ UNCHANGED <<uses, content, zoneTokens, compressed, nextId, dropped>>

Role(ms, role) == {i \in Indices(ms) : ms[i].role = role}
Rest(ms) == SetToSortSeq(Indices(ms) \ Role(ms, "system"), <)
Size(ms, those) == MapThenSumSet(LAMBDA i : ms[i].tokens, those)
From(rest, j) == {rest[i] : i \in j..Len(rest)}

\* SlidingWindowTruncator.truncate(): the last messages that fit; of the one before, three
\* characters for each token that is left, or all of it if it has no more.
Truncate(ms, budget, preserve) ==
    LET rest == Rest(ms)
        room == budget - Size(ms, Role(ms, "system"))
        first == Min({j \in 1..(Len(rest) + 1) : Size(ms, From(rest, j)) <= room})
        left == room - Size(ms, From(rest, first))
        cut == IF first > 1 /\ left > 0 THEN {rest[first - 1]} ELSE {}
        short == {i \in cut : ms[i].chars <= 3 * left}
    IN  IF room <= 0 THEN [whole |-> Role(ms, "system"), cut |-> {}]
        ELSE [whole |-> (IF preserve THEN Role(ms, "system") ELSE {}) \cup From(rest, first) \cup short,
              cut |-> cut \ short]

\* A turn begins with the first message and with each message of the user.
TurnStarts(ms) ==
    LET rest == Rest(ms)
    IN  SetToSortSeq({j \in Indices(rest) : j = 1 \/ ms[rest[j]].role = "user"}, <)

\* truncate_by_turns(); `turns[-0:]' is all of them.
ByTurns(ms, turns) ==
    LET starts == TurnStarts(ms)
        n == Len(starts)
    IN  IF n <= turns \/ turns = 0 THEN From(Rest(ms), 1)
        ELSE From(Rest(ms), starts[n - turns + 1])

\* HybridStrategy.process(): old turns are replaced by their summary, which may be blank.
Hybrid(ms, blank) ==
    LET starts == TurnStarts(ms)
        n == Len(starts)
        recent == IF RecentTurns = 0 THEN {}
                  ELSE From(Rest(ms), starts[IF n > RecentTurns THEN n - RecentTurns + 1 ELSE 1])
        old == From(Rest(ms), 1) \ recent
    IN  IF n <= SummaryTrigger THEN [verbatim |-> From(Rest(ms), 1), summary |-> {}]
        ELSE [verbatim |-> recent, summary |-> IF blank THEN {} ELSE old]

\* LostInMiddleReorder.reorder(): best first, second best last, and so on to the middle
Reorder(scores) ==
    LET ranked == SortSeq(scores, >)
        n == Len(scores)
        front == (n + 1) \div 2
    IN  IF n <= 2 THEN scores
        ELSE [i \in 1..n |-> IF i <= front THEN ranked[2 * i - 1] ELSE ranked[2 * (n - i + 1)]]

Matches(now, before) == {i \in Indices(now) \cap Indices(before) : now[i] = before[i]}
Prefix(now, before) == Cardinality({i \in Indices(now) : 1..i \subseteq Matches(now, before)})

\* OpenAIPromptCache.optimize_for_cache(): the messages that are at their old place go first.
OptimizeForCache(now, before) ==
    LET those == Matches(now, before)
        order == SetToSortSeq(those, <) \o SetToSortSeq(Indices(now) \ those, <)
    IN  IF those = {} \/ those = 1..Max(those) THEN now
        ELSE [i \in Indices(now) |-> now[order[i]]]

\* _truncate_messages(): system messages first, then the last of the others whose texts fit into
\* four fifths of the window; blocks count for nothing here.
TextSize(ms, those) == Size(ms, {i \in those : ms[i].text})
TruncateMessages(ms, window) ==
    LET rest == Rest(ms)
        first == Min({j \in 1..(Len(rest) + 1) : TextSize(ms, From(rest, j)) <= (8 * window) \div 10})
    IN  IF rest = <<>> THEN SetToSortSeq(Indices(ms), <)
        ELSE SetToSortSeq(Role(ms, "system"), <) \o SubSeq(rest, first, Len(rest))

\* _check_context_window(): a model without a provider is not checked.
CheckContextWindow(ms, window, known, truncates) ==
    IF ~known \/ Size(ms, Indices(ms)) <= window
    THEN [refused |-> FALSE, kept |-> SetToSortSeq(Indices(ms), <)]
    ELSE IF truncates THEN [refused |-> FALSE, kept |-> TruncateMessages(ms, window)]
    ELSE [refused |-> TRUE, kept |-> <<>>]

Lists(set, n) == UNION {[1..k -> set] : k \in 0..n}
TruncateSome ==
    /\ Ready("truncate")
    /\ \E ms \in Lists(Messages, MaxMessages), b \in Budgets, preserve \in BOOLEAN :
           Did("truncate", [in |-> ms, budget |-> b, out |-> Truncate(ms, b, preserve)])
ByTurnsSome ==
    /\ Ready("turns")
    /\ \E ms \in Lists(Messages, MaxMessages), t \in Budgets :
           Did("turns", [in |-> ms, turns |-> t, out |-> ByTurns(ms, t)])
HybridSome ==
    /\ Ready("hybrid")
    /\ \E ms \in Lists(Messages, MaxMessages), blank \in BOOLEAN :
           Did("hybrid", [in |-> ms, blank |-> blank, out |-> Hybrid(ms, blank)])
ReorderSome ==
    /\ Ready("reorder")
    /\ \E s \in Lists(Scores, MaxDocuments) : Did("reorder", [in |-> s, out |-> Reorder(s)])
OptimizeSome ==
    /\ Ready("cache")
    /\ \E now, before \in Lists(Texts, MaxTexts) :
           Did("cache", [in |-> now, before |-> before, out |-> OptimizeForCache(now, before)])

RequestSome ==
    /\ Ready("request")
    /\ \E ms \in Lists(RequestMessages, MaxMessages), w \in Windows, known, truncates \in BOOLEAN :
           Did("request", [in |-> ms, window |-> w, checked |-> known,
                           out |-> CheckContextWindow(ms, w, known, truncates)])

Next ==
    \/ \E z \in Zones, p \in Contents : \E k \in {Named, nextId} : AddToZone(z, k, p)
    \/ \E z \in Zones : \E i \in Indices(content[z]) : RemoveFromZone(z, i)
    \/ \E z \in Zones : ClearZone(z)
    \/ TruncateSome \/ ByTurnsSome \/ HybridSome \/ ReorderSome \/ OptimizeSome
    \/ RequestSome

Spec == Init /\ [][Next]_vars
-----------------------------------------------------------------------------
(* The count kept for each zone is what a recount gives, through condensing, *)
(* dropping and replacing, and the zones together fit into the window.       *)
ZonesFit ==
    /\ \A z \in Zones : zoneTokens[z] = Tokens(content[z])
    /\ CountAll(content) <= ContextWindow

(* A zone loses an item to the overflow only when every zone of less         *)
(* priority is empty; what is left of a zone is in the order it was added.   *)
LeastFirst ==
    \A i, j \in 1..Len(ZoneOrder) :
        i < j /\ ZoneOrder[j] \in dropped => content[ZoneOrder[i]] = <<>>

(* What truncation keeps is an end of the conversation of which only the     *)
(* oldest message may be over the budget or cut; with room beside the system *)
(* messages the last message is there, and kept turns begin with the user.   *)
RecentIsKept ==
    LET ms == done.in
        rest == {i \in Indices(ms) : ms[i].role # "system"}
        Ends(kept) == \A i \in kept, j \in rest : j > i => j \in kept
    IN  CASE done.op = "truncate" ->
               LET kept == (done.out.whole \cup done.out.cut) \cap rest
                   room == done.budget - Size(ms, Role(ms, "system"))
               IN  /\ Ends(kept)
                   /\ kept # {} => Size(ms, kept \ {Min(kept)}) <= room /\ done.out.cut \subseteq {Min(kept)}
                   /\ room > 0 /\ rest # {} => Max(rest) \in kept
          [] done.op = "turns" ->
               Ends(done.out) /\ (done.out # rest => ms[Min(done.out)].role = "user")
          [] done.op = "hybrid" ->
               /\ Ends(done.out.verbatim)
               /\ ~done.blank => done.out.verbatim \cup done.out.summary = rest
               /\ \A i \in done.out.summary, j \in done.out.verbatim : i < j
          [] OTHER -> TRUE

(* Scores fall from the first document and then rise to the last, which is   *)
(* the second best, and no document is lost or doubled.                      *)
BestAtTheEnds ==
    done.op = "reorder" /\ Len(done.in) > 2 =>
        LET s == done.out
            n == Len(s)
        IN  /\ \A i \in 1..n : s[i] <= s[1] /\ (i > 1 => s[i] <= s[n])
            /\ \A i, j, k \in 1..n : i < j /\ j < k => s[j] <= s[i] \/ s[j] <= s[k]
            /\ \A v \in Scores : Cardinality({i \in 1..n : s[i] = v})
                                   = Cardinality({i \in 1..n : done.in[i] = v})

(* Reordering for the prompt cache never shortens the prefix that the next   *)
(* request shares with the previous one, and leaves out no message.          *)
PrefixIsKept ==
    done.op = "cache" =>
        /\ Prefix(done.out, done.before) >= Prefix(done.in, done.before)
        /\ \A t \in Texts : Cardinality({i \in Indices(done.in) : done.in[i] = t})
                              = Cardinality({i \in Indices(done.out) : done.out[i] = t})

(* A request that the gateway sends has all its system messages and an end of *)
(* the conversation, in order.  What it was shortened to would not fit with   *)
(* one message more, and fits itself, but for the system messages and blocks, *)
(* which are counted when the request is checked and not when it is cut.      *)
RequestsShortened ==
    LET ms == done.in
        kept == ToSet(done.out.kept)
        system == Role(ms, "system")
        rest == Indices(ms) \ system
        gone == rest \ kept
        room == (8 * done.window) \div 10
        whole == Size(ms, Indices(ms)) <= done.window
    IN  done.op = "request" /\ ~done.out.refused =>
            /\ system \subseteq kept /\ Cardinality(kept) = Len(done.out.kept)
            /\ \A i \in gone, j \in kept \cap rest : i < j
            /\ \A i, j \in Indices(done.out.kept) :
                   i < j /\ done.out.kept[i] > done.out.kept[j] =>
                       done.out.kept[i] \in system /\ done.out.kept[j] \in rest
            /\ whole \/ ~done.checked => gone = {}
            /\ gone # {} => /\ TextSize(ms, kept \cap rest) <= room
                            /\ TextSize(ms, (kept \cap rest) \cup {Max(gone)}) > room

ContextInv ==
    /\ ZonesFit /\ LeastFirst /\ RecentIsKept /\ BestAtTheEnds /\ PrefixIsKept
    /\ RequestsShortened
=============================================================================
