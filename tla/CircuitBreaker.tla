--------------------------- MODULE CircuitBreaker ---------------------------
(***************************************************************************)
(* A circuit breaker of the gateway and the calls it guards.               *)
(*                                                                         *)
(* A call made through route() asks before_call, runs, and reports what    *)
(* became of it; a call made through route_stream() reports without having *)
(* asked.  A call whose task is cancelled reports nothing: the gateway     *)
(* catches Exception, and CancelledError and GeneratorExit are not         *)
(* Exceptions.  A call may be long: time passes, and the breaker may open, *)
(* probe and close again, between its admission and its report.            *)
(***************************************************************************)
EXTENDS BreakerOps

CONSTANTS Calls,     \* tasks that call the provider
          Streams    \* those of them that stream

ASSUME CallsAssumption == IsFiniteSet(Calls) /\ Streams \subseteq Calls

VARIABLES
  breaker,   \* the state of the breaker
  running,   \* the calls at the provider
  probing,   \* history: those admitted since the breaker turned HALF_OPEN
  probes,    \* history: how many were admitted since it turned HALF_OPEN
  lost       \* history: how many of these were cancelled

vars == <<breaker, running, probing, probes, lost>>

Init ==
  /\ breaker = NewBreaker
  /\ running = {}
  /\ probing = {} /\ probes = 0 /\ lost = 0

-----------------------------------------------------------------------------
(* The history of an episode begins anew whenever the breaker changes      *)
(* state.                                                                  *)
Remember(newBreaker, newProbing, newProbes, newLost) ==
  /\ breaker' = newBreaker
  /\ IF newBreaker.state = breaker.state
     THEN probing' = newProbing /\ probes' = newProbes /\ lost' = newLost
     ELSE probing' = {} /\ probes' = 0 /\ lost' = 0

BeforeCall(c) ==
  /\ c \notin Streams /\ c \notin running
  /\ Admits(breaker)
  /\ breaker' = BeforeCalled(breaker)
  /\ running' = running \union {c}
  /\ CASE breaker.state = "CLOSED"    -> UNCHANGED <<probing, probes, lost>>
       [] breaker.state = "OPEN"      -> probing' = {c} /\ probes' = 1 /\ lost' = 0
       [] breaker.state = "HALF_OPEN" -> /\ probing' = probing \union {c}
                                         /\ probes' = probes + 1
                                         /\ lost' = lost

(* route_stream goes to the provider without before_call. *)
BeginStream(c) ==
  /\ c \in Streams /\ c \notin running
  /\ running' = running \union {c}
  /\ UNCHANGED <<breaker, probing, probes, lost>>

OnSuccess(c) ==
  /\ c \in running
  /\ running' = running \ {c}
  /\ Remember(Succeeded(breaker), probing \ {c}, probes, lost)

OnFailure(c) ==
  /\ c \in running
  /\ running' = running \ {c}
  /\ Remember(Failed(breaker), probing \ {c}, probes, lost)

Cancel(c) ==
  /\ c \in running
  /\ running' = running \ {c}
  /\ Remember(breaker, probing \ {c}, probes, IF c \in probing THEN lost + 1 ELSE lost)

Reset ==
  /\ breaker.state # "CLOSED"
  /\ UNCHANGED running
  /\ Remember(TransitionTo(breaker, "CLOSED"), probing, probes, lost)

Tick ==
  /\ breaker' = Ticked(breaker)
  /\ UNCHANGED <<running, probing, probes, lost>>

Report(c) == OnSuccess(c) \/ OnFailure(c)

Next ==
  \/ \E c \in Calls : BeforeCall(c) \/ BeginStream(c) \/ Report(c) \/ Cancel(c)
  \/ Reset
  \/ Tick

Spec == Init /\ [][Next]_vars

(***************************************************************************)
(* Requests keep coming, time passes, and a call that is not cancelled     *)
(* ends: clients have timeouts.                                            *)
(***************************************************************************)
FairSpec ==
  /\ Spec
  /\ WF_vars(Tick)
  /\ \A c \in Calls : WF_vars(BeforeCall(c)) /\ WF_vars(Report(c))

-----------------------------------------------------------------------------
TypeOK ==
  /\ breaker \in Breaker
  /\ running \in SUBSET Calls
  /\ probing \in SUBSET running
  /\ probes \in Nat
  /\ lost \in Nat

(* A breaker that lets everything through has fewer recent failures than   *)
(* open it, whatever it has been through: no round trip through OPEN and   *)
(* HALF_OPEN, and no reset, leaves a CLOSED breaker with a full window.    *)
ClosedBelowThreshold ==
  breaker.state = "CLOSED" => Len(breaker.failures) < FailureThreshold

(* A HALF_OPEN breaker admits at most one call more than                   *)
(* half_open_max_requests, the one that found the timeout elapsed, however *)
(* the callers interleave and however late the others report.              *)
ProbesBounded ==
  breaker.state = "HALF_OPEN" => probes + breaker.allowed = HalfOpenMax + 1

(* A HALF_OPEN breaker that admits no call and waits for none will never   *)
(* leave that state by itself.  That takes more cancelled probes than the  *)
(* probes it has to spare.                                                 *)
WedgedOnlyByCancelling ==
  (breaker.state = "HALF_OPEN" /\ breaker.allowed = 0 /\ probing = {})
    => lost + SuccessThreshold > HalfOpenMax + 1

(* The account behind it: each probe admitted or still to admit is at the  *)
(* provider, cancelled, or has counted as a success.                       *)
ProbesAccounted ==
  breaker.state = "HALF_OPEN" =>
    /\ breaker.allowed + Cardinality(probing) + lost + breaker.successes >= HalfOpenMax + 1
    /\ breaker.successes < SuccessThreshold

(* What the other states leave at rest, and that a breaker that is not     *)
(* CLOSED has opened.                                                      *)
AtRest ==
  /\ breaker.state # "HALF_OPEN" => breaker.successes = 0 /\ breaker.allowed = 0
  /\ breaker.state # "CLOSED" => breaker.opens >= 1

(* The inductive invariant of the proofs. *)
IndInv ==
  TypeOK /\ ClosedBelowThreshold /\ ProbesBounded /\ ProbesAccounted /\ AtRest

(* Each time a breaker reopens without having closed it waits longer than  *)
(* the time before, until it waits max_timeout: the count of openings      *)
(* survives the probes in between.                                         *)
BackoffGrows ==
  [][breaker.state = "HALF_OPEN" /\ breaker'.state = "OPEN"
       => \/ Backoff(breaker') > Backoff(breaker)
          \/ Backoff(breaker') = MaxTimeout]_vars

(* The wait left to an OPEN breaker. *)
WaitLeft == IF breaker.state = "OPEN"
            THEN Greatest(0, Backoff(breaker) - breaker.elapsed) ELSE 0

Protocol == INSTANCE BreakerProtocol WITH
  ShortestWait <- Least(Timeout, MaxTimeout),
  MaxProbes <- HalfOpenMax + 1, EnoughSuccesses <- SuccessThreshold,
  mode <- breaker.state, wait <- WaitLeft,
  permits <- breaker.allowed, good <- breaker.successes

(* The breaker keeps the protocol its docstring draws: it opens for at     *)
(* least the timeout, admits one call after it, then a bounded number of   *)
(* probes, and closes after SuccessThreshold successes or by hand.         *)
KeepsProtocol == Protocol!Spec

(* With requests arriving, a provider is probed again after any failure:   *)
(* no breaker stays OPEN, whoever cancels.                                 *)
OpenIsLeft == breaker.state = "OPEN" ~> breaker.state # "OPEN"

(* ... and a test of a provider ends with a verdict, CLOSED or OPEN,       *)
(* unless more probes are cancelled than there are to spare.               *)
HalfOpenIsLeft ==
  breaker.state = "HALF_OPEN"
    ~> breaker.state # "HALF_OPEN" \/ lost + SuccessThreshold > HalfOpenMax + 1

(* The safety of the breaker, in one. *)
BreakerInv ==
  TypeOK /\ ClosedBelowThreshold /\ ProbesBounded /\ WedgedOnlyByCancelling

(* Neither state in which calls are kept away lasts. *)
StatesAreLeft == OpenIsLeft /\ HalfOpenIsLeft
=============================================================================
