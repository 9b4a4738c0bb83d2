----------------------------- MODULE TokenUsage -----------------------------
(***************************************************************************)
(* Token management: the usage records of the tenants with their alerts    *)
(* and reports, the budget of one context window, and the shortening of a  *)
(* prompt.  Time is counted in days; a budget of 100 is spent in percent.  *)
(***************************************************************************)
EXTENDS Naturals, Integers, Sequences, SequencesExt, FiniteSets, FiniteSetsExt

CONSTANTS Tenants, Models,
          Costs,          \* what a request may cost
          DaysPerMonth, MaxDays, MaxRecords,
          DefaultBudgets, \* [daily, monthly]
          OwnBudgets,     \* what a tenant's budgets may be set to
          Shares,         \* component -> percent of the effective window
          Windows,        \* the sizes a context window may have
          MaxUsed,        \* the most a component consumes, in this model
          NoticeTokens,   \* the tokens of the notice that messages were omitted
          MessageTokens, MaxMessages, PromptBudgets

VARIABLES subject,   \* the class that is used: "usage", "budget" or "prompt"
          today,
          records,   \* UsageAggregator._records
          budgets,   \* _tenant_budgets
          window,    \* TokenBudget._effective_window
          used,      \* TokenBudget._consumed
          prompt     \* the prompt that was shortened, and what is left of it

vars == <<subject, today, records, budgets, window, used, prompt>>

Components == DOMAIN Shares
Periods == DOMAIN DefaultBudgets
NoPrompt == [system |-> 0, messages |-> <<>>, budget |-> 0, kept |-> <<>>, notice |-> FALSE]

Init ==
    /\ subject \in {"usage", "budget", "prompt"}
    /\ today = 0 /\ records = <<>>
    /\ budgets = [t \in Tenants |-> [p \in {} |-> 0]]
    /\ window \in Windows /\ used = [c \in Components |-> 0]
    /\ prompt = NoPrompt

Uses(class) == subject = class /\ UNCHANGED subject

Record(t, model, cost) ==
    /\ Uses("usage")
    /\ Len(records) < MaxRecords
    /\ records' = Append(records, [tenant |-> t, model |-> model, day |-> today, cost |-> cost])
    /\ UNCHANGED <<today, budgets, window, used, prompt>>

\* set_tenant_budget(): the other period keeps what it has.
SetTenantBudget(t, p, amount) ==
    /\ Uses("usage")
    /\ budgets' = [budgets EXCEPT ![t] =
           [q \in DOMAIN @ \cup {p} |-> IF q = p THEN amount ELSE @[q]]]
    /\ UNCHANGED <<today, records, window, used, prompt>>
TenantBudget(t, p) == IF p \in DOMAIN budgets[t] THEN budgets[t][p] ELSE DefaultBudgets[p]

ClearTenant(t) ==
    /\ Uses("usage")
    /\ records' = SelectSeq(records, LAMBDA r : r.tenant # t)
    /\ records' # records
    /\ UNCHANGED <<today, budgets, window, used, prompt>>

NextDay == Uses("usage") /\ today < MaxDays /\ today' = today + 1
           /\ UNCHANGED <<records, budgets, window, used, prompt>>

Cost(those) == MapThenSumSet(LAMBDA i : records[i].cost, those)
Of(t) == {i \in DOMAIN records : records[i].tenant = t}
MonthStart == today - (today % DaysPerMonth)

\* check_budget_alert() of one period; a budget of 0 is no budget
Level(t, p, cost) ==
    LET budget == TenantBudget(t, p)
    IN  IF budget = 0 THEN "normal"
        ELSE IF 100 * cost >= 95 * budget THEN "critical"
        ELSE IF 100 * cost >= 80 * budget THEN "warning" ELSE "normal"
Daily(t) == Level(t, "daily", Cost({i \in Of(t) : records[i].day >= today}))
Monthly(t) == Level(t, "monthly", Cost({i \in Of(t) : records[i].day >= MonthStart}))

\* The day decides as soon as it has something to say.
Alert(t) == IF Daily(t) # "normal" THEN Daily(t) ELSE Monthly(t)

\* get_tenant_usage(), get_daily_trend(): the records of some days, grouped by day and by model
Usage(t, from) == {i \in Of(t) : records[i].day >= from}
DailyBreakdown(t, from) ==
    LET these == Usage(t, from)
    IN  [d \in {records[i].day : i \in these} |-> Cost({i \in these : records[i].day = d})]
ModelBreakdown(t, from) ==
    LET these == Usage(t, from)
    IN  [m \in {records[i].model : i \in these} |-> Cost({i \in these : records[i].model = m})]
Trend(t, days) ==
    [d \in (today - days + 1)..today |->
        IF d \in DOMAIN DailyBreakdown(t, today - days)
        THEN DailyBreakdown(t, today - days)[d] ELSE 0]
-----------------------------------------------------------------------------
\* TokenBudget: each component has a share of the window, rounded down.
Allocate(c) == (window * Shares[c]) \div 100
Remaining(c) == Allocate(c) - used[c]
TotalUsed == MapThenSumSet(LAMBDA c : used[c], Components)
Exceeded == TotalUsed > window \/ \E c \in Components : Remaining(c) < 0

Consume(c, tokens) ==
    /\ Uses("budget")
    /\ used[c] + tokens <= MaxUsed
    /\ used' = [used EXCEPT ![c] = @ + tokens]
    /\ UNCHANGED <<today, records, budgets, window, prompt>>
ResetBudget == Uses("budget") /\ used' = [c \in Components |-> 0] /\ used' # used
               /\ UNCHANGED <<today, records, budgets, window, prompt>>
Resize(w) == Uses("budget") /\ w # window /\ window' = w /\ UNCHANGED <<today, records, budgets, used, prompt>>
-----------------------------------------------------------------------------
\* CostOptimizer.optimize_prompt(): messages are their sizes.  The first two are kept if they
\* fit, the last three if half of each fits; with five or fewer nothing is left out.
Total(sizes, those) == MapThenSumSet(LAMBDA i : sizes[i], those)
Kept(sizes, room) ==
    LET n == Len(sizes)
        order == <<1, 2, n - 2, n - 1, n>>
        Fits(k, left) == left >= IF k <= 2 THEN sizes[order[k]] ELSE (sizes[order[k]] + 1) \div 2
        \* what is left of the room when it is the turn of message order[k]
        left[k \in 1..5] ==
            IF k = 1 THEN room
            ELSE left[k - 1] - (IF Fits(k - 1, left[k - 1]) THEN sizes[order[k - 1]] ELSE 0)
                             - (IF k = 3 THEN NoticeTokens ELSE 0)
    IN  {order[k] : k \in {k \in 1..5 : Fits(k, left[k])}}
OptimizePrompt(system, sizes, budget) ==
    LET all == DOMAIN sizes
        whole == system + Total(sizes, all) <= budget \/ Len(sizes) <= 5
        kept == IF whole THEN all ELSE Kept(sizes, budget - system)
    IN  /\ Uses("prompt") /\ prompt = NoPrompt
        /\ prompt' = [system |-> system, messages |-> sizes, budget |-> budget,
                       kept |-> SetToSortSeq(kept, <), notice |-> ~whole]
        /\ UNCHANGED <<today, records, budgets, window, used>>

Next ==
    \/ \E t \in Tenants, m \in Models, c \in Costs : Record(t, m, c)
    \/ \E t \in Tenants, p \in Periods, b \in OwnBudgets : SetTenantBudget(t, p, b)
    \/ \E t \in Tenants : ClearTenant(t)
    \/ NextDay
    \/ \E c \in Components : Consume(c, 1)
    \/ ResetBudget
    \/ \E w \in Windows : Resize(w)
    \/ \E s \in {0, 1}, n \in 5..MaxMessages, b \in PromptBudgets :
           \E sizes \in [1..n -> MessageTokens] : OptimizePrompt(s, sizes, b)

Spec == Init /\ [][Next]_vars
-----------------------------------------------------------------------------
(* Spending that reached the warning, of the day or of the month, is never   *)
(* answered by "normal", on any day of the month.                            *)
SpendingIsSeen ==
    \A t \in Tenants, p \in Periods :
        LET start == IF p = "daily" THEN today ELSE MonthStart
            cost == Cost({i \in DOMAIN records : records[i].tenant = t /\ records[i].day \in start..today})
        IN  TenantBudget(t, p) > 0 /\ 5 * cost >= 4 * TenantBudget(t, p) => Alert(t) # "normal"

(* The breakdowns by day and by model add up to the same cost, and what the  *)
(* trend shows of its days is what the report shows of them.                 *)
BreakdownsAgree ==
    \A t \in Tenants, from \in 0..today :
        LET days == DailyBreakdown(t, from)
            models == ModelBreakdown(t, from)
            trend == Trend(t, today - from + 1)
        IN  /\ MapThenSumSet(LAMBDA d : days[d], DOMAIN days)
                   = MapThenSumSet(LAMBDA m : models[m], DOMAIN models)
            /\ \A d \in from..today : trend[d] = IF d \in DOMAIN days THEN days[d] ELSE 0

(* While no component is over its share the whole window is not, whatever    *)
(* it was resized to and however the shares were rounded.                    *)
SharesFit == Exceeded => \E c \in Components : Remaining(c) < 0

(* A prompt that had to be shortened is over its budget by no more than the  *)
(* notice and half a message, and the messages stay in order.                *)
PromptBounded ==
    prompt.notice /\ prompt.system <= prompt.budget =>
        LET kept == ToSet(prompt.kept)
        IN  2 * (prompt.system + Total(prompt.messages, kept))
                <= 2 * prompt.budget + Max(MessageTokens)

TokensUsedInv == SpendingIsSeen /\ BreakdownsAgree /\ SharesFit /\ PromptBounded
=============================================================================
