------------------------------ MODULE Dialogue ------------------------------
(***************************************************************************)
(* A conversation of domain/conversation: the state machine of a dialogue  *)
(* with its callbacks, the slots that are filled, and the history with its *)
(* indexes of entities and topics, in which a mention is looked up.  A run *)
(* uses one of the three.                                                  *)
(***************************************************************************)
EXTENDS Naturals, Sequences, SequencesExt, FiniteSets, Functions

CONSTANTS Reactions,   \* event -> the event that its callback triggers
          MaxPath,     \* the longest state history, in this model
          Slots,       \* slot -> [required, default, accepted]; default None if there is none
          SlotOrder,   \* the slots as they were declared
          Values,
          Entities, Topics,
          MaxTurns,    \* max_turns
          MaxCounter,  \* the most turns that are added, in this model
          None

VARIABLES uses,       \* "machine", "slots" or "history"
          state, path, \* DialogFSM._state, _state_history
          values, fills, \* SlotFiller._values, the slots of _fill_history that were filled
          turns,      \* ConversationHistory._turns
          counter,    \* _turn_counter
          index       \* _entity_index and _topic_index: what -> turn id

vars == <<uses, state, path, values, fills, turns, counter, index>>
machineVars == <<state, path>>
slotVars == <<values, fills>>
historyVars == <<turns, counter, index>>

\* DialogFSM._TRANSITION_MAP; every event of TRANSITIONS has its entry
Transitions == {
    <<"IDLE", "start", "GREETING">>,
    <<"GREETING", "greeted", "COLLECTING_INFO">>,
    <<"GREETING", "skip_greeting", "COLLECTING_INFO">>,
    <<"GREETING", "error", "HANDLING_ERROR">>,
    <<"COLLECTING_INFO", "info_complete", "CONFIRMING">>,
    <<"COLLECTING_INFO", "timeout", "CLOSING">>,
    <<"COLLECTING_INFO", "error", "HANDLING_ERROR">>,
    <<"COLLECTING_INFO", "cancel", "CLOSING">>,
    <<"CONFIRMING", "confirmed", "EXECUTING">>,
    <<"CONFIRMING", "rejected", "COLLECTING_INFO">>,
    <<"CONFIRMING", "timeout", "CLOSING">>,
    <<"CONFIRMING", "cancel", "CLOSING">>,
    <<"EXECUTING", "executed", "CLOSING">>,
    <<"EXECUTING", "needs_approval", "WAITING_APPROVAL">>,
    <<"EXECUTING", "error", "HANDLING_ERROR">>,
    <<"EXECUTING", "execution_failed", "HANDLING_ERROR">>,
    <<"WAITING_APPROVAL", "approved", "EXECUTING">>,
    <<"WAITING_APPROVAL", "rejected", "CLOSING">>,
    <<"WAITING_APPROVAL", "timeout", "CLOSING">>,
    <<"WAITING_APPROVAL", "cancel", "CLOSING">>,
    <<"HANDLING_ERROR", "recover", "COLLECTING_INFO">>,
    <<"HANDLING_ERROR", "retry", "EXECUTING">>,
    <<"HANDLING_ERROR", "fallback", "CLOSING">>,
    <<"HANDLING_ERROR", "give_up", "CLOSING">>}
Events == {t[2] : t \in Transitions}

Defaults == [s \in {s \in DOMAIN Slots : Slots[s].default # None} |-> Slots[s].default]
NoIndex == [x \in {} |-> 0]

(* The slots are declared in some order, and turns are counted.              *)
DialogueAssumption ==
    SlotOrder \in Seq(DOMAIN Slots) /\ MaxTurns \in Nat /\ MaxPath \in Nat

Init ==
    /\ uses \in {"machine", "slots", "history"}
    /\ state = "IDLE" /\ path = <<"IDLE">>
    /\ values = Defaults /\ fills = <<>>
    /\ turns = <<>> /\ counter = 0 /\ index = NoIndex

\* trigger(): the state is changed and noted before the callback of the event, which may
\* itself trigger an event; an event that does not fit the state is refused.
Reacted(last) ==   \* what is left to do is [state, path, event]
    LET next == {t \in Transitions : t[1] = last.state /\ t[2] = last.event}
    IN  IF next = {} THEN [last EXCEPT !.event = None]
        ELSE LET t == CHOOSE t \in next : TRUE
             IN  [state |-> t[3], path |-> Append(last.path, t[3]),
                  event |-> IF t[2] \in DOMAIN Reactions THEN Reactions[t[2]] ELSE None]
Triggered(event) ==
    LET after[n \in 0..MaxPath] ==
            IF n = 0 THEN [state |-> state, path |-> path, event |-> event]
            ELSE Reacted(after[n - 1])
    IN  after[MaxPath]
Trigger(event) ==
    /\ uses = "machine" /\ Len(path) <= MaxPath
    /\ state' = Triggered(event).state /\ path' = Triggered(event).path
    /\ path' # path
    /\ UNCHANGED <<uses, slotVars, historyVars>>
ResetMachine ==
    /\ uses = "machine" /\ state = "CLOSING"
    /\ state' = "IDLE" /\ path' = <<"IDLE">> /\ UNCHANGED <<uses, slotVars, historyVars>>

\* SlotFiller.fill(): a value that is not accepted leaves the one before.
Fill(s, v) ==
    /\ uses = "slots" /\ Len(fills) < MaxCounter
    /\ IF s \in DOMAIN Slots /\ v \in Slots[s].accepted
       THEN /\ values' = [x \in DOMAIN values \cup {s} |-> IF x = s THEN v ELSE values[x]]
            /\ fills' = Append(fills, s)
       ELSE UNCHANGED slotVars
    /\ UNCHANGED <<uses, machineVars, historyVars>>
ResetSlots == uses = "slots" /\ values' = Defaults /\ fills' = <<>>
              /\ UNCHANGED <<uses, machineVars, historyVars>>
\* The places of the slots that still have to be filled
Missing == {i \in DOMAIN SlotOrder :
                Slots[SlotOrder[i]].required /\ SlotOrder[i] \notin DOMAIN values}
IsComplete == Missing = {}
NextPrompt == IF IsComplete THEN None ELSE SlotOrder[Min(Missing)]

Names(turn) == ToSet(turn.entities) \cup ToSet(turn.topics)

\* What the removed turn was the first to name is forgotten, named again since or not.
Forgotten(known, removed) ==
    Restrict(known, {x \in DOMAIN known : ~(x \in Names(removed) /\ known[x] = removed.id)})

AddTurn(entities, topics) ==
    /\ uses = "history" /\ counter < MaxCounter
    /\ counter' = counter + 1
    /\ LET turn == [id |-> counter + 1, entities |-> entities, topics |-> topics]
           all == Append(turns, turn)
           known == [x \in DOMAIN index \cup Names(turn) |->
                        IF x \in DOMAIN index THEN index[x] ELSE turn.id]
       IN  IF Len(all) > MaxTurns
           THEN turns' = Tail(all) /\ index' = Forgotten(known, Head(all))
           ELSE turns' = all /\ index' = known
    /\ UNCHANGED <<uses, machineVars, slotVars>>
ClearHistory ==
    /\ uses = "history" /\ turns' = <<>> /\ counter' = 0 /\ index' = NoIndex
    /\ UNCHANGED <<uses, machineVars, slotVars>>

\* get_all_entities(): by the turn that named them first, as a set of possible orders
AllEntities == {e \in DOMAIN index : e \in Entities}
Latest == {e \in AllEntities : \A f \in AllEntities : index[f] <= index[e]}
Recent(n) == SubSeq(turns, IF n < Len(turns) THEN Len(turns) - n + 1 ELSE 1, Len(turns))

\* What a turn names: its "entities", its "topics", or "either"
Named(t, what) ==
    IF what = "topics" \/ (what = "either" /\ t.entities = <<>>) THEN t.topics ELSE t.entities
\* The last of the recent turns that names something, and what it names
LastNaming(n, what) ==
    LET naming == {i \in DOMAIN Recent(n) : Named(Recent(n)[i], what) # <<>>}
    IN  IF naming = {} THEN <<>> ELSE Named(Recent(n)[Max(naming)], what)
OrLatest(named) == IF named # <<>> THEN {Last(named)} ELSE IF AllEntities # {} THEN Latest ELSE {None}

\* CoreferenceResolver._resolve_mention(): what a mention of a kind may stand for.  An entity
\* that the last response contains, or that contains the mention, is a choice.
EntityMatches(mention) ==
    IF AllEntities = {} THEN {None}
    ELSE CASE mention = "pronoun" -> AllEntities \cup OrLatest(LastNaming(3, "entities"))
           [] mention = "demonstrative" -> OrLatest(LastNaming(3, "entities"))
           [] mention = "former" -> IF LastNaming(2, "entities") # <<>>
                                    THEN {Head(LastNaming(2, "entities"))} ELSE AllEntities \cup {None}
           [] mention = "latter" -> IF Len(LastNaming(2, "entities")) >= 2
                                    THEN {LastNaming(2, "entities")[2]}
                                    ELSE OrLatest(LastNaming(2, "entities"))
           [] OTHER -> AllEntities \cup {None}
TopicMatch(mention) ==
    IF mention = "vague" /\ LastNaming(5, "topics") # <<>> THEN Last(LastNaming(5, "topics")) ELSE None
PreviousSubject == IF LastNaming(5, "either") # <<>> THEN Last(LastNaming(5, "either")) ELSE None
Antecedents(mention) ==
    UNION {IF e # None THEN {e}
           ELSE IF TopicMatch(mention) # None THEN {TopicMatch(mention)}
           ELSE IF mention \in {"pronoun", "former", "latter", "vague"} THEN {PreviousSubject}
           ELSE {None} : e \in EntityMatches(mention)}

Lists(set) == {<<>>} \cup {<<x>> : x \in set} \cup {<<x, y>> : x, y \in set}
Next ==
    \/ \E event \in Events : Trigger(event)
    \/ ResetMachine
    \/ \E s \in DOMAIN Slots \cup {None}, v \in Values : Fill(s, v)
    \/ ResetSlots
    \/ \E entities \in Lists(Entities), topics \in {<<>>} \cup {<<t>> : t \in Topics} : AddTurn(entities, topics)
    \/ ClearHistory

Spec == Init /\ [][Next]_vars
-----------------------------------------------------------------------------
(* The history of the states is a path of the table, also when callbacks     *)
(* trigger events, and nothing is executed unconfirmed except after an error. *)
ConfirmedFirst ==
    /\ Last(path) = state
    /\ \A i \in 1..(Len(path) - 1) : \E t \in Transitions : t[1] = path[i] /\ t[3] = path[i + 1]
    /\ \A i \in DOMAIN path : path[i] = "EXECUTING" =>
           \E j \in 1..i : path[j] = "CONFIRMING" \/ path[j] = "HANDLING_ERROR"

(* What a slot holds was accepted, unless it is the default that it began    *)
(* with; the next prompt is for a required slot that nothing filled.         *)
SlotsAccepted ==
    /\ \A s \in DOMAIN values : values[s] \in Slots[s].accepted
                                    \/ (values[s] = Slots[s].default /\ s \notin ToSet(fills))
    /\ NextPrompt # None => NextPrompt \notin ToSet(fills) \cup DOMAIN Defaults

(* An indexed name was named by the turn it points to, which is still kept,  *)
(* so that a mention always stands for something the kept turns name.        *)
MentionsAreKept ==
    /\ \A x \in DOMAIN index : \E i \in DOMAIN turns : turns[i].id = index[x] /\ x \in Names(turns[i])
    /\ \A mention \in {"pronoun", "demonstrative", "former", "latter", "vague", "other"} :
           Antecedents(mention) \subseteq {None} \cup UNION {Names(turns[i]) : i \in DOMAIN turns}

DialogueInv == ConfirmedFirst /\ SlotsAccepted /\ MentionsAreKept
=============================================================================
