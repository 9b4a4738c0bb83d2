------------------------------ MODULE Gateway ------------------------------
(***************************************************************************)
(* GatewayRouter.route() of src/ai_gateway/gateway.py: how a request goes  *)
(* through the response cache, the fallback chain (fallback.py), the       *)
(* circuit breakers of the providers (BreakerOps) and the retry handler    *)
(* (retry.py), several requests at a time.                                 *)
(*                                                                         *)
(* A request suspends only while a provider answers and while the retry    *)
(* handler sleeps; what it does between two suspensions is one step.  All  *)
(* requests ask the same question, so a cache key is the model's name, and *)
(* a response is the model that gave it and what FallbackChain.execute     *)
(* noted of the model it stands in for.                                    *)
(***************************************************************************)
EXTENDS BreakerOps, FiniteSetsExt

CONSTANTS Requests, Models, Providers,
          None,         \* no provider, no model
          ProviderOf,   \* the provider that serves each model, or None
          Chain,        \* get_chain: the fallback models of each model
          MaxRetries    \* max_retries of the retry handler

(* What route() audits at its end. *)
Statuses == {"auth_error", "rate_limited", "error", "success", "fallback_exhausted"}

ASSUME GatewayAssumption ==
  /\ IsFiniteSet(Requests)
  /\ None \notin Models \union Providers \union Statuses
  /\ ProviderOf \in [Models -> Providers \union {None}]
  /\ Chain \in [Models -> Seq(Models)]
  /\ MaxRetries \in Nat

VARIABLES
  pc,         \* "idle", "calling" a provider, sleeping ("backoff") or "over"
  asked,      \* the model each request asked for
  at,         \* which of the models to try it is at
  attempt,    \* the retry handler's attempt
  failed,     \* failed_models
  answer,     \* the model whose response it got
  status,     \* the status written to the audit log
  breakers,   \* the circuit breaker of each provider
  cache,      \* under every model, the one whose response is cached
  admitted,   \* history: calls each breaker let through
  reported,   \* history: calls of which a breaker was told the outcome
  dropped,    \* history: calls cancelled before their outcome was known
  attempts    \* history: how often each request called a provider

requestVars == <<pc, asked, at, attempt, failed, answer, status, attempts>>
vars == <<requestVars, breakers, cache, admitted, reported, dropped>>

Init ==
  /\ pc = [r \in Requests |-> "idle"]
  /\ asked = [r \in Requests |-> None]
  /\ at = [r \in Requests |-> 0]
  /\ attempt = [r \in Requests |-> 0]
  /\ failed = [r \in Requests |-> {}]
  /\ answer = [r \in Requests |-> None]
  /\ status = [r \in Requests |-> None]
  /\ breakers = [p \in Providers |-> NewBreaker]
  /\ cache = << >>
  /\ admitted = [p \in Providers |-> 0]
  /\ reported = [p \in Providers |-> 0]
  /\ dropped = [p \in Providers |-> 0]
  /\ attempts = [r \in Requests |-> 0]

(* The requested model and then its chain.  Models that failed are meant   *)
(* to be skipped, but "failed_models or set()" makes a new set of the one, *)
(* still empty, that execute_fn adds to: nothing is skipped.               *)
Plan(m) == <<m>> \o Chain[m]

Current(r) == Plan(asked[r])[at[r]]
ProviderAt(r) == ProviderOf[Current(r)]

Change(f, r, value) == f' = [f EXCEPT ![r] = value]

-----------------------------------------------------------------------------
(* A request ends: its status is audited. *)
End(r, result, why) ==
  /\ Change(pc, r, "over")
  /\ Change(answer, r, result)
  /\ Change(status, r, why)

(* The places of the plan, from the i-th, whose provider takes a call. *)
Admitting(m, i, bs) ==
  {k \in i..Len(Plan(m)) : /\ ProviderOf[Plan(m)[k]] # None
                           /\ Admits(bs[ProviderOf[Plan(m)[k]]])}

(* Request r tries its models from the i-th on, with breakers bs and       *)
(* failed models fs.  A model without a provider fails without being       *)
(* noted; one whose breaker rejects is noted.                              *)
TryFrom(r, m, i, bs, fs) ==
  LET open == Admitting(m, i, bs)
      k == Min(open)
      p == ProviderOf[Plan(m)[k]]
      Rejected(j) == {Plan(m)[n] : n \in {n \in i..j : /\ ProviderOf[Plan(m)[n]] # None
                                                      /\ ~Admits(bs[ProviderOf[Plan(m)[n]]])}}
  IN IF open # {}
     THEN /\ Change(pc, r, "calling") /\ Change(at, r, k) /\ Change(attempt, r, 0)
          /\ Change(attempts, r, attempts[r] + 1)
          /\ breakers' = [bs EXCEPT ![p] = BeforeCalled(@)]
          /\ admitted' = [admitted EXCEPT ![p] = @ + 1]
          /\ Change(failed, r, fs \union Rejected(k - 1))
          /\ UNCHANGED <<answer, status>>
     ELSE /\ End(r, None, "fallback_exhausted")
          /\ breakers' = bs
          /\ Change(failed, r, fs \union Rejected(Len(Plan(m))))
          /\ UNCHANGED <<at, attempt, attempts, admitted>>

(* Steps 1 to 3 of route() turn the request down: no valid key, no rate    *)
(* left, or messages that do not fit the context window.                   *)
Refuse(r, why) ==
  /\ pc[r] = "idle"
  /\ End(r, None, why)
  /\ UNCHANGED <<asked, at, attempt, failed, breakers, cache, admitted, reported,
                 dropped, attempts>>

CacheHit(r, m) ==
  /\ pc[r] = "idle" /\ m \in DOMAIN cache
  /\ Change(asked, r, m)
  /\ End(r, cache[m], "success")
  /\ UNCHANGED <<at, attempt, failed, breakers, cache, admitted, reported, dropped,
                 attempts>>

Execute(r, m) ==
  /\ pc[r] = "idle" /\ m \notin DOMAIN cache
  /\ Change(asked, r, m)
  /\ TryFrom(r, m, 1, breakers, {})
  /\ UNCHANGED <<cache, reported, dropped>>

Route(r) ==
  \/ \E why \in {"auth_error", "rate_limited", "error"} : Refuse(r, why)
  \/ \E m \in Models : CacheHit(r, m) \/ Execute(r, m)

-----------------------------------------------------------------------------
(* Mutant of CacheKey: the key computed for the lookup is used again. *)
LookupKey(r) == asked[r]

(* execute() has replaced the model in the request by the one that answered. *)
CacheKey(r) == Current(r)

Stored(key, response) ==
  [k \in DOMAIN cache \union {key} |-> IF k = key THEN response ELSE cache[k]]

(* The answer goes to the breaker, to the cache and to the client. *)
Succeed(r) ==
  /\ pc[r] = "calling"
  /\ breakers' = [breakers EXCEPT ![ProviderAt(r)] = Succeeded(@)]
  /\ reported' = [reported EXCEPT ![ProviderAt(r)] = @ + 1]
  /\ cache' = Stored(CacheKey(r), Current(r))
  /\ End(r, Current(r), "success")
  /\ UNCHANGED <<asked, at, attempt, failed, admitted, dropped, attempts>>

(* Mutants of FailTransient: one retry too many; the breaker is told of    *)
(* every attempt.                                                          *)
FailTransientOnceMore(r) ==
  /\ pc[r] = "calling" /\ attempt[r] <= MaxRetries
  /\ Change(pc, r, "backoff")
  /\ Change(attempt, r, attempt[r] + 1)
  /\ UNCHANGED <<asked, at, failed, answer, status, breakers, cache, admitted,
                 reported, dropped, attempts>>

FailTransientReported(r) ==
  /\ pc[r] = "calling" /\ attempt[r] < MaxRetries
  /\ Change(pc, r, "backoff")
  /\ Change(attempt, r, attempt[r] + 1)
  /\ breakers' = [breakers EXCEPT ![ProviderAt(r)] = Failed(@)]
  /\ reported' = [reported EXCEPT ![ProviderAt(r)] = @ + 1]
  /\ UNCHANGED <<asked, at, failed, answer, status, cache, admitted, dropped, attempts>>

(* A retryable error, with retries left. *)
FailTransient(r) ==
  /\ pc[r] = "calling" /\ attempt[r] < MaxRetries
  /\ Change(pc, r, "backoff")
  /\ Change(attempt, r, attempt[r] + 1)
  /\ UNCHANGED <<asked, at, failed, answer, status, breakers, cache, admitted,
                 reported, dropped, attempts>>

(* Mutant of Retry: it waits until the breaker admits a call. *)
RetryWhenAdmitted(r) ==
  /\ pc[r] = "backoff" /\ Admits(breakers[ProviderAt(r)])
  /\ Change(pc, r, "calling")
  /\ Change(attempts, r, attempts[r] + 1)
  /\ UNCHANGED <<asked, at, attempt, failed, answer, status, breakers, cache,
                 admitted, reported, dropped>>

(* The retry does not ask the breaker again. *)
Retry(r) ==
  /\ pc[r] = "backoff"
  /\ Change(pc, r, "calling")
  /\ Change(attempts, r, attempts[r] + 1)
  /\ UNCHANGED <<asked, at, attempt, failed, answer, status, breakers, cache,
                 admitted, reported, dropped>>

(* An error that is not retryable, or that of the last retry: the breaker  *)
(* is told and the next models are tried.                                  *)
Fail(r) ==
  /\ pc[r] = "calling"
  /\ reported' = [reported EXCEPT ![ProviderAt(r)] = @ + 1]
  /\ TryFrom(r, asked[r], at[r] + 1,
             [breakers EXCEPT ![ProviderAt(r)] = Failed(@)],
             failed[r] \union {Current(r)})
  /\ UNCHANGED <<asked, cache, dropped>>

(* CancelledError is not an Exception: no handler between the provider and *)
(* route()'s finally clause sees it, and the status is still "success".    *)
Cancel(r) ==
  /\ pc[r] \in {"calling", "backoff"}
  /\ dropped' = [dropped EXCEPT ![ProviderAt(r)] = @ + 1]
  /\ End(r, None, "success")
  /\ UNCHANGED <<asked, at, attempt, failed, breakers, cache, admitted, reported,
                 attempts>>

(* An entry expires or is invalidated. *)
Evict(m) ==
  /\ m \in DOMAIN cache
  /\ cache' = [k \in DOMAIN cache \ {m} |-> cache[k]]
  /\ UNCHANGED <<requestVars, breakers, admitted, reported, dropped>>

Tick ==
  /\ breakers' = [p \in Providers |-> Ticked(breakers[p])]
  /\ UNCHANGED <<requestVars, cache, admitted, reported, dropped>>

Progress(r) == Succeed(r) \/ FailTransient(r) \/ Retry(r) \/ Fail(r)

Next ==
  \/ \E r \in Requests : Route(r) \/ Progress(r) \/ Cancel(r)
  \/ \E m \in Models : Evict(m)
  \/ Tick

Spec == Init /\ [][Next]_vars

(* Providers answer or fail, and the retry handler's sleep ends. *)
FairSpec == Spec /\ \A r \in Requests : WF_vars(Progress(r))

-----------------------------------------------------------------------------
TypeOK ==
  /\ pc \in [Requests -> {"idle", "calling", "backoff", "over"}]
  /\ asked \in [Requests -> Models \union {None}]
  /\ at \in [Requests -> Nat] /\ attempt \in [Requests -> 0..MaxRetries]
  /\ failed \in [Requests -> SUBSET Models]
  /\ answer \in [Requests -> Models \union {None}]
  /\ status \in [Requests -> Statuses \union {None}]
  /\ breakers \in [Providers -> Breaker]
  /\ DOMAIN cache \subseteq Models /\ \A m \in DOMAIN cache : cache[m] \in Models
  /\ {admitted, reported, dropped} \subseteq [Providers -> Nat]
  /\ attempts \in [Requests -> Nat]
  /\ \A r \in Requests : pc[r] \in {"calling", "backoff"} =>
       /\ asked[r] \in Models /\ at[r] \in 1..Len(Plan(asked[r]))
       /\ ProviderAt(r) \in Providers

InFlight(p) == {r \in Requests : pc[r] \in {"calling", "backoff"} /\ ProviderAt(r) = p}

(* An entry of the cache came from the model it is stored under, although  *)
(* most requests that fill the cache had asked for another model.          *)
CacheCoherent == \A m \in DOMAIN cache : cache[m] = m

(* A breaker hears of every call it let through once, however often it was *)
(* retried, unless the caller was cancelled.                               *)
OneReportPerCall ==
  \A p \in Providers :
    admitted[p] = reported[p] + dropped[p] + Cardinality(InFlight(p))

(* However failures, retries and fallbacks combine, a request calls        *)
(* providers at most max_retries + 1 times for every model of its plan.    *)
AttemptsBounded ==
  \A r \in Requests : asked[r] # None =>
    attempts[r] <= (MaxRetries + 1) * Len(Plan(asked[r]))

(* A request is given up only when each of its models has failed or was    *)
(* rejected or has no provider; what it gets is an answer of one of them.  *)
Outcomes ==
  \A r \in Requests :
    /\ status[r] = "fallback_exhausted" =>
         \A i \in DOMAIN Plan(asked[r]) :
            Plan(asked[r])[i] \in failed[r] \/ ProviderOf[Plan(asked[r])[i]] = None
    /\ answer[r] # None => \E i \in DOMAIN Plan(asked[r]) :
                             Plan(asked[r])[i] = answer[r]

(* A request that reached a provider ends. *)
RequestsEnd == \A r \in Requests : pc[r] = "calling" ~> pc[r] = "over"

(* The safety of the gateway, in one. *)
GatewayInv ==
  TypeOK /\ CacheCoherent /\ OneReportPerCall /\ AttemptsBounded /\ Outcomes
=============================================================================
