------------------------------- MODULE Access -------------------------------
(***************************************************************************)
(* Who may do what: the permissions of roles, the policies on attributes,  *)
(* the key of a tenant and its copy in Redis, the approvals that a person  *)
(* gives.  They share no state: a run is about one of them.                *)
(***************************************************************************)
EXTENDS Naturals, SequencesExt, FiniteSets

CONSTANTS Roles, Permissions,   \* <<resource, verb>>; "" where the name has no colon
          BuiltIn,              \* ROLES: [some of Roles -> permissions]
          Policies,             \* [name, attribute, operator, effect, priority]
          Attributes, MaxPolicies,
          Callers, Ttl,         \* the life of a copy of the key
          Approvals, Timeout,   \* of approvals
          MaxTime

VARIABLES decides,   \* "roles", "policies", "key" or "approvals"
          roles, policies,
          active, copy, callers, lost, unheld,
          waiting, decisions, interrupted, now

keyVars == <<active, copy, callers, lost, unheld>>
approvalVars == <<waiting, decisions, interrupted>>
vars == <<decides, roles, policies, keyVars, approvalVars, now>>

Init ==
    /\ decides \in {"roles", "policies", "key", "approvals"}
    /\ roles = BuiltIn /\ policies = <<>>
    /\ active = TRUE /\ copy = 0 /\ callers = [c \in Callers |-> "idle"] /\ lost = FALSE /\ unheld = 0
    /\ waiting = [a \in {} |-> 0] /\ decisions = <<>> /\ interrupted = {}
    /\ now = 0
-----------------------------------------------------------------------------
(* Roles.  Three plain names stand for permissions on models.                *)

Alias == [read |-> <<"models", "read">>, write |-> <<"models", "write">>, execute |-> <<"models", "execute">>]

Grants(granted, p) ==
    \/ <<"", "*">> \in granted
    \/ p \in granted
    \/ p[1] = "" /\ p[2] \in DOMAIN Alias /\ Alias[p[2]] \in granted
    \/ \E g \in granted : g[1] # "" /\ g[2] = "*" /\ g[1] = (IF p[1] = "" THEN p[2] ELSE p[1])
    \/ p[1] = "" /\ \E g \in granted : g[1] = p[2]

\* check_permission()
CheckPermission(role, p) == role \in DOMAIN roles /\ Grants(roles[role], p)

AddRole(role, granted) ==
    roles' = [r \in DOMAIN roles \cup {role} |-> IF r = role THEN granted ELSE roles[r]]

UpdateRole(role, granted) == role \in DOMAIN roles /\ AddRole(role, granted)

RemoveRole(role) == roles' = [r \in DOMAIN roles \ {role} |-> roles[r]]

RoleNext ==
    \E role \in Roles :
        \/ \E granted \in SUBSET Permissions : AddRole(role, granted) \/ UpdateRole(role, granted)
        \/ RemoveRole(role)
-----------------------------------------------------------------------------
(* Policies.  A request gives each attribute: the value that conditions ask  *)
(* for, another one, or none.  A policy has one condition, or is for all.    *)

Holds(policy, request) ==
    LET value == request[policy.attribute]
    IN  CASE policy.operator = "exists"     -> value # "none"
          [] policy.operator = "not_exists" -> value = "none"
          [] policy.operator = "equals"     -> value = "asked"
          [] policy.operator = "not_equals" -> value = "other"   \* never of what is missing
          [] policy.operator = "always"     -> TRUE

(* Mutant of Matching: the first policy that holds decides. *)
MatchingFirst(request) ==
    {n \in DOMAIN policies : /\ Holds(policies[n], request)
                             /\ \A m \in 1..n - 1 : ~Holds(policies[m], request)}

\* The loop over the policies, in their order, ends at the first that denies: the places of
\* those that hold until then.
Denies(policy, request) == Holds(policy, request) /\ policy.effect = "deny"
Matching(request) ==
    {n \in DOMAIN policies : /\ Holds(policies[n], request)
                             /\ \A m \in 1..n - 1 : ~Denies(policies[m], request)}

\* make_access_decision(), and check_access(), which is its answer alone
AccessDecision(request) ==
    /\ \E n \in Matching(request) : policies[n].effect = "allow"
    /\ \A n \in Matching(request) : policies[n].effect # "deny"

\* add_policy(): appended, then sorted by falling priority, which keeps the order of equals.
AddPolicy(policy) ==
    /\ Len(policies) < MaxPolicies
    /\ \E k \in 1..Len(policies) + 1 :
          /\ \A n \in 1..k - 1 : policies[n].priority >= policy.priority
          /\ \A n \in k..Len(policies) : policies[n].priority < policy.priority
          /\ policies' = InsertAt(policies, k, policy)

\* remove_policy(): all of that name go, and the others stay in their order.
RemovePolicy(name) ==
    \E order \in SetToSeqs({n \in DOMAIN policies : policies[n].name # name}) :
        /\ \A i, j \in DOMAIN order : i < j => order[i] < order[j]
        /\ policies' = [i \in DOMAIN order |-> policies[order[i]]]

PolicyNext ==
    \E policy \in Policies : AddPolicy(policy) \/ RemovePolicy(policy.name)
-----------------------------------------------------------------------------
(* The key of a tenant.  The copy in Redis has some ticks to live, 0 where   *)
(* there is none, or has no limit until expire() comes; `unheld` counts the  *)
(* ticks since a caller held what it read of the database.                   *)

Unlimited == Ttl + 1

Holding(c) == callers[c] \in {"found", "stored"}
At(c, from, to) == callers[c] = from /\ callers' = [callers EXCEPT ![c] = to]

\* hgetall: the copy is believed
Look(c) ==
    /\ IF copy # 0 THEN At(c, "idle", "idle") ELSE At(c, "idle", "missed")
    /\ UNCHANGED <<active, copy, lost, unheld>>

Select(c) ==
    /\ At(c, "missed", IF active THEN "found" ELSE "idle")
    /\ unheld' = IF active THEN 0 ELSE unheld
    /\ UNCHANGED <<active, copy, lost>>

\* hset leaves the life of a copy that is there
Store(c) ==
    /\ At(c, "found", "stored")
    /\ copy' = IF copy = 0 THEN Unlimited ELSE copy
    /\ UNCHANGED <<active, lost, unheld>>

Expire(c) ==
    /\ At(c, "stored", "idle")
    /\ copy' = IF copy = 0 THEN 0 ELSE Ttl
    /\ UNCHANGED <<active, lost, unheld>>

\* Redis does not answer, or the request is cancelled
Broken(c) ==
    /\ callers[c] # "idle" /\ callers' = [callers EXCEPT ![c] = "idle"]
    /\ lost' = (lost \/ callers[c] = "stored")
    /\ UNCHANGED <<active, copy, unheld>>

Deactivate == active' = FALSE /\ UNCHANGED <<copy, callers, lost, unheld>>

TickKey ==
    /\ copy' = IF copy \in 1..Ttl THEN copy - 1 ELSE copy
    /\ unheld' = IF \E c \in Callers : Holding(c) THEN 0 ELSE IF unheld > Ttl THEN unheld ELSE unheld + 1
    /\ UNCHANGED <<active, callers, lost>>

KeyNext ==
    \/ \E c \in Callers : Look(c) \/ Select(c) \/ Store(c) \/ Expire(c) \/ Broken(c)
    \/ Deactivate
    \/ TickKey
-----------------------------------------------------------------------------
(* Approvals.  A request has the time at which it was made; a decision is a  *)
(* request with its outcome.  What is interrupted waits for resume().        *)

Without(requests, gone) == [a \in DOMAIN requests \ gone |-> requests[a]]
Decision(a, outcome) == [request |-> a, outcome |-> outcome]
Fresh(a) == a \notin DOMAIN waiting /\ \A n \in DOMAIN decisions : decisions[n].request # a

\* request_approval(), or interrupt(): a safe action is approved at once; the handler may decide,
\* or answer something else or raise, and then the request waits.
Ask(a, interrupts, outcome) ==
    /\ Fresh(a)
    /\ IF outcome = "waits"
       THEN waiting' = [b \in DOMAIN waiting \cup {a} |-> IF b = a THEN now ELSE waiting[b]] /\ UNCHANGED decisions
       ELSE decisions' = Append(decisions, Decision(a, outcome)) /\ UNCHANGED waiting
    /\ interrupted' = IF interrupts THEN interrupted \cup {a} ELSE interrupted

\* resolve(), which refuses what does not wait; resume() also ends the interruption
Resolve(a, outcome, resumes) ==
    /\ a \in DOMAIN waiting
    /\ waiting' = Without(waiting, {a})
    /\ decisions' = Append(decisions, Decision(a, outcome))
    /\ interrupted' = IF resumes THEN interrupted \ {a} ELSE interrupted

Expired == {a \in DOMAIN waiting : now - waiting[a] > Timeout}

\* get_pending_approvals(): requests that waited too long are decided, in the order they were made.
GetPendingApprovals ==
    /\ \E order \in SetToSeqs(Expired) :
          /\ \A i, j \in DOMAIN order : i < j => waiting[order[i]] <= waiting[order[j]]
          /\ decisions' = decisions \o [n \in DOMAIN order |-> Decision(order[n], "timeout")]
    /\ waiting' = Without(waiting, Expired)
    /\ UNCHANGED interrupted

ApprovalNext ==
    \/ \E a \in Approvals :
          \/ \E interrupts \in BOOLEAN, outcome \in {"approved", "rejected", "pending", "waits"} :
                Ask(a, interrupts, outcome) /\ UNCHANGED now
          \/ \E outcome \in {"approved", "rejected"}, resumes \in BOOLEAN :
                Resolve(a, outcome, resumes) /\ UNCHANGED now
    \/ GetPendingApprovals /\ UNCHANGED now
    \/ now < MaxTime /\ now' = now + 1 /\ UNCHANGED <<waiting, decisions, interrupted>>
-----------------------------------------------------------------------------
Next ==
    \/ decides = "roles" /\ RoleNext /\ UNCHANGED <<decides, policies, keyVars, approvalVars, now>>
    \/ decides = "policies" /\ PolicyNext /\ UNCHANGED <<decides, roles, keyVars, approvalVars, now>>
    \/ decides = "key" /\ KeyNext /\ UNCHANGED <<decides, roles, policies, approvalVars, now>>
    \/ decides = "approvals" /\ ApprovalNext /\ UNCHANGED <<decides, roles, policies, keyVars>>

Spec == Init /\ [][Next]_vars
-----------------------------------------------------------------------------
(* A role with more permissions than another allows whatever the other does, *)
(* whatever was added, updated or removed: aliases, "x:*" and plain names    *)
(* only ever grant.                                                          *)
RolesAreMonotone ==
    \A r, s \in DOMAIN roles : roles[r] \subseteq roles[s] =>
        \A p \in Permissions : CheckPermission(r, p) => CheckPermission(s, p)

(* "deny always takes precedence", "default deny": a request is allowed if   *)
(* some policy allows it and none denies it, whatever their priorities and   *)
(* the order in which they came.                                             *)
Requests == [Attributes -> {"asked", "other", "none"}]
DenyPrevails ==
    \A request \in Requests :
        AccessDecision(request) <=>
            /\ \E n \in DOMAIN policies : Holds(policies[n], request) /\ policies[n].effect = "allow"
            /\ \A n \in DOMAIN policies : ~Denies(policies[n], request)

(* The policies are in the order of their priorities, and so the reason that *)
(* is given for a refusal, the last that was looked at, is the most          *)
(* important of those that deny.                                             *)
ReasonIsTheFirst ==
    \A request \in Requests : \A n \in Matching(request) :
        Denies(policies[n], request) =>
            /\ \A m \in Matching(request) : m <= n
            /\ \A m \in DOMAIN policies :
                   Denies(policies[m], request) => policies[n].priority >= policies[m].priority

(* A key that is no longer active is refused once every caller that had read *)
(* it is done for as long as a copy lives, unless one of them was cut off    *)
(* between storing the copy and limiting its life.                           *)
KeysRunOut == ~active /\ ~lost /\ unheld > Ttl => copy = 0

(* Every request waits or is decided, and is decided once, whoever decides:  *)
(* the handler, resolve(), resume() or the time.                             *)
DecidedOnce ==
    \A n \in DOMAIN decisions :
        /\ decisions[n].request \notin DOMAIN waiting
        /\ \A k \in 1..n - 1 : decisions[k].request # decisions[n].request

AccessInv == RolesAreMonotone /\ DenyPrevails /\ ReasonIsTheFirst /\ KeysRunOut /\ DecidedOnce
=============================================================================
