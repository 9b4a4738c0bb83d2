---------------------------- MODULE Calls_proofs ----------------------------
(***************************************************************************)
(* Proofs about the calls that leave the system, for every value of the    *)
(* constants: the breaker of a provider, for any number of calls and any   *)
(* configuration that satisfies BreakerAssumption, the pipe to an MCP      *)
(* server, for any number of tasks that share it, and the providers, for   *)
(* any names, weights, models and answers.                                 *)
(***************************************************************************)
EXTENDS MCCalls, FiniteSetTheorems, SequenceTheorems, NaturalsInduction,
        WellFoundedInduction, TLAPS

-----------------------------------------------------------------------------
(* The inductive invariant.                                                *)

LEMMA InitIndInv == Init => IndInv
<1> SUFFICES ASSUME Init PROVE IndInv
  OBVIOUS
<1>1. breaker \in Breaker
  <2>1. LongestWait \in Nat
    BY WaitTypes
  <2>2. <<>> \in Seq(Nat)
    OBVIOUS
  <2> QED
    BY <2>1, <2>2, BreakerAssumption DEF Init, NewBreaker, Breaker, BreakerStates
<1>2. Len(breaker.failures) = 0
  BY DEF Init, NewBreaker
<1> QED
  BY <1>1, <1>2, BreakerAssumption
  DEF Init, IndInv, TypeOK, NewBreaker, ClosedBelowThreshold, ProbesBounded,
      ProbesAccounted, AtRest

(* A step that changes the breaker to CLOSED or OPEN, as TransitionTo does *)
(* it, begins a new history and so has nothing left to account for.        *)
LEMMA LeavingIsSafe ==
  ASSUME TypeOK, NEW b \in Breaker,
         b.state # breaker.state, b.state \in {"CLOSED", "OPEN"},
         b.successes = 0, b.allowed = 0,
         b.state = "CLOSED" => Len(b.failures) < FailureThreshold,
         b.state = "OPEN" => b.opens >= 1,
         NEW S, NEW p, NEW l,
         running' \in SUBSET Calls,
         Remember(b, S, p, l)
  PROVE  IndInv'
BY DEF Remember, IndInv, TypeOK, ClosedBelowThreshold, ProbesBounded,
       ProbesAccounted, AtRest

LEMMA Closing ==
  ASSUME NEW b \in Breaker, b.state # "CLOSED"
  PROVE  LET t == TransitionTo(b, "CLOSED")
         IN  /\ t \in Breaker /\ t.state = "CLOSED"
             /\ t.successes = 0 /\ t.allowed = 0 /\ t.failures = <<>>
BY TransitionType DEF TransitionTo, BreakerStates

LEMMA Opening ==
  ASSUME NEW b \in Breaker, b.state # "OPEN"
  PROVE  LET t == TransitionTo(b, "OPEN")
         IN  /\ t \in Breaker /\ t.state = "OPEN"
             /\ t.successes = 0 /\ t.allowed = 0 /\ t.elapsed = 0
             /\ t.opens = Least(b.opens + 1, OpenCap) /\ t.opens >= 1
<1>1. b.opens \in 0..OpenCap /\ OpenCap \in Nat \ {0, 1}
  BY BreakerAssumption DEF Breaker
<1>2. Least(b.opens + 1, OpenCap) >= 1
  BY <1>1 DEF Least
<1> QED
  BY <1>2, TransitionType DEF TransitionTo, BreakerStates

(* The calls being probes are finitely many, and one that ends takes at    *)
(* most one from their number.                                             *)
LEMMA ProbingFinite ==
  ASSUME TypeOK
  PROVE  /\ IsFiniteSet(probing) /\ Cardinality(probing) \in Nat
         /\ \A c : /\ Cardinality(probing \ {c}) \in Nat
                   /\ c \in probing => Cardinality(probing \ {c}) = Cardinality(probing) - 1
                   /\ c \notin probing => probing \ {c} = probing
                   /\ c \notin probing =>
                        Cardinality(probing \union {c}) = Cardinality(probing) + 1
<1>1. IsFiniteSet(probing)
  BY CallsAssumption, FS_Subset DEF TypeOK
<1> QED
  BY <1>1, FS_CardinalityType, FS_AddElement, FS_RemoveElement

LEMMA BeforeCallSafe ==
  ASSUME IndInv, NEW c \in Calls, BeforeCall(c)
  PROVE  IndInv'
<1> USE DEF IndInv
<1> DEFINE b == BeforeCalled(breaker)
<1>1. b \in Breaker /\ breaker' = b /\ running' \in SUBSET Calls
  BY BeforeCalledType DEF BeforeCall, TypeOK
<1>2. CASE breaker.state = "CLOSED"
  <2>1. breaker' = breaker /\ probing' = probing /\ probes' = probes /\ lost' = lost
    BY <1>2 DEF BeforeCall, BeforeCalled
  <2> QED
    BY <1>1, <1>2, <2>1 DEF BeforeCall, TypeOK, ClosedBelowThreshold, ProbesBounded,
                            ProbesAccounted, AtRest
<1>3. CASE breaker.state = "OPEN"
  <2>1. breaker' = TransitionTo(breaker, "HALF_OPEN")
    BY <1>3 DEF BeforeCall, BeforeCalled, Admits
  <2>2. /\ breaker'.state = "HALF_OPEN" /\ breaker'.allowed = HalfOpenMax
        /\ breaker'.successes = 0 /\ breaker'.opens = breaker.opens
    BY <1>3, <2>1 DEF TransitionTo
  <2>3. probing' = {c} /\ probes' = 1 /\ lost' = 0 /\ Cardinality({c}) = 1
    BY <1>3, FS_Singleton DEF BeforeCall
  <2>4. probing' \in SUBSET running'
    BY <2>3 DEF BeforeCall
  <2> QED
    BY <1>1, <1>3, <2>2, <2>3, <2>4, BreakerAssumption
    DEF TypeOK, ClosedBelowThreshold, ProbesBounded, ProbesAccounted, AtRest
<1>4. CASE breaker.state = "HALF_OPEN"
  <2>1. breaker.allowed > 0 /\ breaker' = [breaker EXCEPT !.allowed = @ - 1]
    BY <1>4 DEF BeforeCall, BeforeCalled, Admits
  <2>2. /\ breaker'.state = "HALF_OPEN" /\ breaker'.allowed = breaker.allowed - 1
        /\ breaker'.successes = breaker.successes /\ breaker'.opens = breaker.opens
    BY <1>4, <2>1 DEF TypeOK, Breaker
  <2>3. c \notin probing
    BY DEF BeforeCall, TypeOK
  <2>4. /\ probing' = probing \union {c} /\ probes' = probes + 1 /\ lost' = lost
        /\ Cardinality(probing') = Cardinality(probing) + 1
    BY <1>4, <2>3, ProbingFinite DEF BeforeCall
  <2>5. probing' \in SUBSET running'
    BY <2>4 DEF BeforeCall, TypeOK
  <2>6. /\ breaker.allowed \in Nat /\ breaker.successes \in Nat
        /\ Cardinality(probing) \in Nat /\ HalfOpenMax \in Nat
    BY ProbingFinite, BreakerAssumption DEF TypeOK, Breaker
  <2> QED
    BY <1>1, <1>4, <2>2, <2>4, <2>5, <2>6
    DEF TypeOK, ClosedBelowThreshold, ProbesBounded, ProbesAccounted, AtRest
<1> QED
  BY <1>2, <1>3, <1>4 DEF TypeOK, Breaker, BreakerStates

LEMMA OnSuccessSafe ==
  ASSUME IndInv, NEW c \in Calls, OnSuccess(c)
  PROVE  IndInv'
<1> USE DEF IndInv
<1>0. breaker \in Breaker /\ running' \in SUBSET Calls /\ TypeOK
  BY DEF OnSuccess, TypeOK
<1>1. Remember(Succeeded(breaker), probing \ {c}, probes, lost)
  BY DEF OnSuccess
<1>2. CASE breaker.state # "HALF_OPEN"
  <2>1. /\ breaker' = breaker /\ probing' = probing \ {c}
        /\ probes' = probes /\ lost' = lost
    BY <1>1, <1>2 DEF Remember, Succeeded
  <2>2. probing' \in SUBSET running'
    BY <2>1 DEF OnSuccess, TypeOK
  <2> QED
    BY <1>0, <1>2, <2>1, <2>2
    DEF TypeOK, ClosedBelowThreshold, ProbesBounded, ProbesAccounted, AtRest
<1>3. CASE breaker.state = "HALF_OPEN" /\ breaker.successes + 1 >= SuccessThreshold
  <2>1. Succeeded(breaker) = TransitionTo(breaker, "CLOSED")
    BY <1>3 DEF Succeeded
  <2> QED
    BY <1>0, <1>1, <1>3, <2>1, Closing, LeavingIsSafe, BreakerAssumption
<1>4. CASE breaker.state = "HALF_OPEN" /\ ~(breaker.successes + 1 >= SuccessThreshold)
  <2>1. Succeeded(breaker) = [breaker EXCEPT !.successes = @ + 1]
    BY <1>4 DEF Succeeded
  <2>2. /\ breaker' \in Breaker /\ breaker'.state = "HALF_OPEN"
        /\ breaker'.allowed = breaker.allowed /\ breaker'.opens = breaker.opens
        /\ breaker'.successes = breaker.successes + 1
    BY <1>0, <1>1, <1>4, <2>1, SucceededType DEF Remember, Breaker
  <2>3. probing' = probing \ {c} /\ probes' = probes /\ lost' = lost
    BY <1>1, <1>4, <2>2 DEF Remember
  <2>4. Cardinality(probing') \in Nat /\ Cardinality(probing') >= Cardinality(probing) - 1
    BY <2>3, ProbingFinite
  <2>5. probing' \in SUBSET running'
    BY <2>3 DEF OnSuccess, TypeOK
  <2>6. /\ breaker.allowed \in Nat /\ breaker.successes \in Nat
        /\ Cardinality(probing) \in Nat /\ HalfOpenMax \in Nat
        /\ SuccessThreshold \in Nat /\ lost \in Nat
    BY ProbingFinite, BreakerAssumption DEF TypeOK, Breaker
  <2> QED
    BY <1>0, <1>4, <2>2, <2>3, <2>4, <2>5, <2>6
    DEF TypeOK, ClosedBelowThreshold, ProbesBounded, ProbesAccounted, AtRest
<1> QED
  BY <1>2, <1>3, <1>4

LEMMA OnFailureSafe ==
  ASSUME IndInv, NEW c \in Calls, OnFailure(c)
  PROVE  IndInv'
<1> USE DEF IndInv
<1>0. breaker \in Breaker /\ running' \in SUBSET Calls /\ TypeOK
  BY DEF OnFailure, TypeOK
<1>1. Remember(Failed(breaker), probing \ {c}, probes, lost)
  BY DEF OnFailure
<1>2. Failed(breaker) \in Breaker
  BY <1>0, FailedType
<1>3. CASE Failed(breaker).state = breaker.state
  <2>1. /\ breaker' = Failed(breaker) /\ probing' = probing \ {c}
        /\ probes' = probes /\ lost' = lost
    BY <1>1, <1>3 DEF Remember
  <2>2. probing' \in SUBSET running'
    BY <2>1 DEF OnFailure, TypeOK
  <2>3. breaker.state # "HALF_OPEN"
    BY <1>0, <1>3, FailedType, Opening
  <2>4. /\ breaker'.successes = breaker.successes /\ breaker'.allowed = breaker.allowed
        /\ breaker'.opens = breaker.opens /\ breaker'.state = breaker.state
    BY <1>0, <1>3, <2>1, <2>3, FailedType DEF Breaker, BreakerStates
  <2>5. breaker'.state = "CLOSED" => Len(breaker'.failures) < FailureThreshold
    BY <1>0, <2>1, FailedType
  <2> QED
    BY <1>0, <1>2, <2>1, <2>2, <2>3, <2>4, <2>5
    DEF TypeOK, ClosedBelowThreshold, ProbesBounded, ProbesAccounted, AtRest
<1>4. CASE Failed(breaker).state # breaker.state
  <2>1. /\ Failed(breaker).state = "OPEN" /\ Failed(breaker).allowed = 0
        /\ Failed(breaker).successes = 0 /\ Failed(breaker).opens >= 1
    BY <1>0, <1>4, FailedType, Opening DEF Breaker, BreakerStates
  <2> QED
    BY <1>0, <1>1, <1>2, <1>4, <2>1, LeavingIsSafe
<1> QED
  BY <1>3, <1>4

LEMMA CancelSafe ==
  ASSUME IndInv, NEW c \in Calls, Cancel(c)
  PROVE  IndInv'
<1> USE DEF IndInv
<1>1. /\ breaker' = breaker /\ probing' = probing \ {c} /\ probes' = probes
      /\ lost' = IF c \in probing THEN lost + 1 ELSE lost
  BY DEF Cancel, Remember
<1>2. probing' \in SUBSET running' /\ running' \in SUBSET Calls
  BY <1>1 DEF Cancel, TypeOK
<1>3. /\ Cardinality(probing') \in Nat /\ Cardinality(probing) \in Nat /\ lost \in Nat
      /\ lost' \in Nat /\ Cardinality(probing') + lost' >= Cardinality(probing) + lost
  BY <1>1, ProbingFinite DEF TypeOK
<1>4. breaker.allowed \in Nat /\ breaker.successes \in Nat /\ HalfOpenMax \in Nat
  BY BreakerAssumption DEF TypeOK, Breaker
<1>5. ProbesAccounted'
  BY <1>1, <1>3, <1>4 DEF ProbesAccounted
<1> QED
  BY <1>1, <1>2, <1>3, <1>5 DEF TypeOK, ClosedBelowThreshold, ProbesBounded, AtRest

LEMMA TickSafe ==
  ASSUME IndInv, Tick
  PROVE  IndInv'
<1> USE DEF IndInv
<1>1. breaker' \in Breaker /\ Len(breaker'.failures) <= Len(breaker.failures)
  BY TickedType DEF Tick, TypeOK
<1>2. /\ breaker'.state = breaker.state /\ breaker'.allowed = breaker.allowed
      /\ breaker'.successes = breaker.successes /\ breaker'.opens = breaker.opens
  BY DEF Tick, Ticked, TypeOK, Breaker
<1>3. Len(breaker.failures) \in Nat /\ Len(breaker'.failures) \in Nat
  BY <1>1 DEF TypeOK, Breaker
<1> QED
  BY <1>1, <1>2, <1>3, BreakerAssumption
  DEF Tick, TypeOK, ClosedBelowThreshold, ProbesBounded, ProbesAccounted, AtRest

LEMMA NextIndInv == IndInv /\ [Next]_vars => IndInv'
<1> SUFFICES ASSUME IndInv, [Next]_vars PROVE IndInv'
  OBVIOUS
<1>1. ASSUME NEW c \in Calls, BeginStream(c) PROVE IndInv'
  <2>1. running' \in SUBSET Calls /\ probing' \in SUBSET running'
    BY <1>1 DEF BeginStream, IndInv, TypeOK
  <2> QED
    BY <1>1, <2>1 DEF BeginStream, IndInv, TypeOK, ClosedBelowThreshold, ProbesBounded,
                      ProbesAccounted, AtRest
<1>2. ASSUME Reset PROVE IndInv'
  <2>1. breaker \in Breaker /\ TypeOK /\ running' \in SUBSET Calls
    BY <1>2 DEF IndInv, TypeOK, Reset
  <2> QED
    BY <1>2, <2>1, Closing, LeavingIsSafe, BreakerAssumption DEF Reset
<1>3. CASE UNCHANGED vars
  BY <1>3 DEF vars, IndInv, TypeOK, ClosedBelowThreshold, ProbesBounded,
              ProbesAccounted, AtRest
<1> QED
  BY <1>1, <1>2, <1>3, BeforeCallSafe, OnSuccessSafe, OnFailureSafe, CancelSafe, TickSafe
  DEF Next, Report

(* The inductive invariant holds throughout. *)
THEOREM Invariance == Spec => []IndInv
BY InitIndInv, NextIndInv, PTL DEF Spec

(* The breaker's fields, and the history, have their types. *)
THEOREM TypeCorrect == Spec => []TypeOK
BY Invariance, PTL DEF IndInv

(* No history of failures, probes, recoveries, resets and passing time     *)
(* leaves a CLOSED breaker holding a full window of failures.              *)
THEOREM ClosedBelow == Spec => []ClosedBelowThreshold
BY Invariance, PTL DEF IndInv

(* A HALF_OPEN breaker admits half_open_max_requests + 1 calls and no more. *)
THEOREM ProbeLimit == Spec => []ProbesBounded
BY Invariance, PTL DEF IndInv

(* A HALF_OPEN breaker waits for a probe, or admits one, unless more of    *)
(* them were cancelled than it can spare.                                  *)
THEOREM NoWedge == Spec => []WedgedOnlyByCancelling
<1>1. IndInv => WedgedOnlyByCancelling
  <2> SUFFICES ASSUME IndInv, breaker.state = "HALF_OPEN", breaker.allowed = 0,
                      probing = {}
               PROVE  lost + SuccessThreshold > HalfOpenMax + 1
    BY DEF WedgedOnlyByCancelling
  <2>1. Cardinality(probing) = 0
    BY FS_EmptySet
  <2>2. /\ breaker.successes \in Nat /\ lost \in Nat
        /\ SuccessThreshold \in Nat /\ HalfOpenMax \in Nat
    BY BreakerAssumption DEF IndInv, TypeOK, Breaker
  <2> QED
    BY <2>1, <2>2 DEF IndInv, ProbesAccounted
<1> QED
  BY <1>1, Invariance, PTL

(* The safety of the breaker in one: types, failures, probes and wedging.  *)
THEOREM BreakerSafe == Spec => []BreakerInv
BY TypeCorrect, ClosedBelow, ProbeLimit, NoWedge, PTL DEF BreakerInv

-----------------------------------------------------------------------------
(* Backing off.                                                            *)

LEMMA BackoffMonotone ==
  ASSUME NEW b \in Breaker, NEW t \in Breaker,
         b.opens >= 1, t.opens = Least(b.opens + 1, OpenCap)
  PROVE  Backoff(t) > Backoff(b) \/ Backoff(t) = MaxTimeout
<1>1. /\ Timeout \in Nat \ {0} /\ MaxTimeout \in Nat /\ OpenCap \in Nat \ {0, 1}
      /\ b.opens \in 1..OpenCap
  BY BreakerAssumption DEF Breaker
<1>2. CASE b.opens = OpenCap
  <2>1. t.opens = OpenCap /\ t.opens > 1
    BY <1>1, <1>2 DEF Least
  <2>2. PICK q : q = Timeout * 2^(OpenCap - 1) /\ q >= MaxTimeout
    BY BreakerAssumption
  <2>3. q \in Nat
    <3>1. OpenCap - 1 \in 0..OpenCap
      BY <1>1
    <3>2. PICK p \in Nat : p = 2^(OpenCap - 1)
      BY <3>1, PowersAssumption
    <3> QED
      BY <1>1, <2>2, <3>2
  <2>4. Backoff(t) = Least(q, MaxTimeout)
    BY <2>1, <2>2, <1>1 DEF Backoff
  <2> QED
    BY <1>1, <2>2, <2>3, <2>4 DEF Least
<1>3. CASE b.opens = 1
  <2>1. Backoff(b) = Timeout /\ t.opens = 2
    BY <1>1, <1>3 DEF Backoff, Least
  <2>2. 1 \in 0..OpenCap /\ 0 \in 0..OpenCap /\ 0 + 1 = 1
    BY <1>1
  <2>3. PICK p \in Nat \ {0} : p = 2^0 /\ 2^1 = 2 * p
    BY <2>2, PowersAssumption
  <2>4. Backoff(t) = Least(Timeout * (2 * p), MaxTimeout)
    <3>1. t.opens - 1 = 1 /\ ~(t.opens <= 1)
      BY <2>1
    <3>2. Backoff(t) = Least(Timeout * 2^1, MaxTimeout)
      BY <3>1 DEF Backoff
    <3> QED
      BY <2>3, <3>2
  <2>5. Timeout * (2 * p) \in Nat /\ Timeout * (2 * p) > Timeout
    BY <1>1, <2>3
  <2> QED
    BY <1>1, <2>1, <2>4, <2>5 DEF Least
<1>4. CASE b.opens # OpenCap /\ b.opens # 1
  <2>1. t.opens = b.opens + 1 /\ t.opens > 1 /\ b.opens > 1
    BY <1>1, <1>4 DEF Least
  <2>2. b.opens - 1 \in 0..OpenCap /\ (b.opens - 1) + 1 = t.opens - 1
    BY <1>1, <2>1
  <2>3. PICK p \in Nat \ {0} : p = 2^(b.opens - 1) /\ 2^(t.opens - 1) = 2 * p
    BY <2>2, PowersAssumption
  <2>4. /\ Backoff(b) = Least(Timeout * p, MaxTimeout)
        /\ Backoff(t) = Least(Timeout * (2 * p), MaxTimeout)
    BY <1>1, <2>1, <2>3 DEF Backoff
  <2>5. PICK q \in Nat \ {0} : q = Timeout * p /\ Timeout * (2 * p) = 2 * q
    BY <1>1, <2>3
  <2> QED
    BY <1>1, <2>4, <2>5 DEF Least
<1> QED
  BY <1>2, <1>3, <1>4

(* Whatever happens between, a breaker that reopens without having closed  *)
(* waits longer than the time before, or max_timeout.                      *)
THEOREM BackingOff == Spec => BackoffGrows
<1> DEFINE Reopens == breaker.state = "HALF_OPEN" /\ breaker'.state = "OPEN"
<1> DEFINE Longer == \/ Backoff(breaker') > Backoff(breaker)
                     \/ Backoff(breaker') = MaxTimeout
<1>1. IndInv /\ IndInv' /\ [Next]_vars => [Reopens => Longer]_vars
  <2> SUFFICES ASSUME IndInv, IndInv', Next, Reopens
               PROVE  Longer
    OBVIOUS
  <2>1. breaker \in Breaker /\ breaker' \in Breaker /\ breaker.opens >= 1
    BY DEF IndInv, TypeOK, AtRest
  <2>2. breaker' = TransitionTo(breaker, "OPEN")
    <3>1. ASSUME NEW c \in Calls, OnFailure(c) PROVE breaker' = TransitionTo(breaker, "OPEN")
      BY <2>1, <3>1, FailedType DEF OnFailure, Remember
    <3>2. ASSUME NEW c \in Calls, BeforeCall(c) PROVE FALSE
      BY <2>1, <3>2 DEF BeforeCall, BeforeCalled, Breaker
    <3>3. ASSUME NEW c \in Calls, OnSuccess(c) PROVE FALSE
      BY <2>1, <3>3, Closing DEF OnSuccess, Remember, Succeeded, Breaker
    <3>4. ASSUME NEW c \in Calls, BeginStream(c) \/ Cancel(c) PROVE FALSE
      BY <3>4 DEF BeginStream, Cancel, Remember
    <3>5. CASE Reset
      BY <2>1, <3>5, Closing DEF Reset, Remember
    <3>6. CASE Tick
      BY <2>1, <3>6 DEF Tick, Ticked, Breaker
    <3> QED
      BY <3>1, <3>2, <3>3, <3>4, <3>5, <3>6 DEF Next, Report
  <2> QED
    BY <2>1, <2>2, Opening, BackoffMonotone
<1> QED
  BY <1>1, Invariance, PTL DEF Spec, BackoffGrows

-----------------------------------------------------------------------------
(* The refinement of BreakerProtocol.                                      *)

LEMMA InitProtocol == Init => Protocol!Init
BY DEF Init, NewBreaker, Protocol!Init, WaitLeft

(* A breaker that has just opened begins a wait of legal length. *)
LEMMA OpeningMaps ==
  ASSUME NEW b \in Breaker, breaker' = b, b.state = "OPEN",
         b.elapsed = 0, b.allowed = 0, b.successes = 0
  PROVE  Protocol!Open
<1>1. /\ Backoff(b) \in Nat /\ LongestWait \in Nat
      /\ Backoff(b) >= Least(Timeout, MaxTimeout) /\ Backoff(b) <= LongestWait
      /\ Least(Timeout, MaxTimeout) \in Nat
  BY WaitTypes, BreakerAssumption DEF Least
<1>2. WaitLeft' = Backoff(b)
  BY <1>1 DEF WaitLeft, Greatest
<1> QED
  BY <1>1, <1>2 DEF Protocol!Open

LEMMA ClosingMaps ==
  ASSUME NEW b \in Breaker, breaker' = b, b.state = "CLOSED",
         b.allowed = 0, b.successes = 0
  PROVE  Protocol!Close
BY DEF Protocol!Close, WaitLeft

LEMMA TickMaps ==
  ASSUME IndInv, Tick
  PROVE  Protocol!Pass \/ UNCHANGED Protocol!vars
<1>1. breaker \in Breaker /\ LongestWait \in Nat /\ Backoff(breaker) \in Nat
      /\ Backoff(breaker) <= LongestWait
  BY WaitTypes DEF IndInv, TypeOK
<1>2. /\ breaker'.state = breaker.state /\ breaker'.allowed = breaker.allowed
      /\ breaker'.successes = breaker.successes /\ breaker'.opens = breaker.opens
      /\ breaker'.elapsed = Least(breaker.elapsed + 1, LongestWait)
  BY <1>1 DEF Tick, Ticked, Breaker
<1>3. Backoff(breaker') = Backoff(breaker)
  BY <1>2 DEF Backoff
<1>4. breaker.elapsed \in 0..LongestWait
  BY <1>1 DEF Breaker
<1>5. CASE breaker.state # "OPEN"
  BY <1>2, <1>5 DEF WaitLeft, Protocol!vars
<1>6. CASE breaker.state = "OPEN" /\ breaker.elapsed >= Backoff(breaker)
  <2>1. WaitLeft = 0
    BY <1>1, <1>4, <1>6 DEF WaitLeft, Greatest
  <2>2. WaitLeft' = 0
    BY <1>1, <1>2, <1>3, <1>4, <1>6 DEF WaitLeft, Greatest, Least
  <2> QED
    BY <1>2, <2>1, <2>2 DEF Protocol!vars
<1>7. CASE breaker.state = "OPEN" /\ breaker.elapsed < Backoff(breaker)
  <2>1. WaitLeft = Backoff(breaker) - breaker.elapsed
    BY <1>1, <1>4, <1>7 DEF WaitLeft, Greatest
  <2>2. WaitLeft' = Backoff(breaker) - (breaker.elapsed + 1)
    BY <1>1, <1>2, <1>3, <1>4, <1>7 DEF WaitLeft, Greatest, Least
  <2> QED
    BY <1>1, <1>2, <1>4, <1>7, <2>1, <2>2 DEF Protocol!Pass
<1> QED
  BY <1>1, <1>4, <1>5, <1>6, <1>7

LEMMA BeforeCallMaps ==
  ASSUME IndInv, NEW c \in Calls, BeforeCall(c)
  PROVE  Protocol!Readmit \/ Protocol!Probe \/ UNCHANGED Protocol!vars
<1>1. breaker \in Breaker /\ breaker' = BeforeCalled(breaker) /\ Admits(breaker)
  BY DEF IndInv, TypeOK, BeforeCall
<1>2. CASE breaker.state = "CLOSED"
  BY <1>1, <1>2 DEF BeforeCalled, Protocol!vars, WaitLeft
<1>3. CASE breaker.state = "OPEN"
  <2>1. breaker.elapsed >= Backoff(breaker) /\ breaker' = TransitionTo(breaker, "HALF_OPEN")
    BY <1>1, <1>3 DEF BeforeCalled, Admits, TimeoutElapsed
  <2>2. WaitLeft = 0 /\ WaitLeft' = 0
    <3>1. Backoff(breaker) \in Nat /\ breaker.elapsed \in Nat
      BY <1>1, WaitTypes DEF Breaker
    <3>2. WaitLeft = 0
      BY <1>3, <2>1, <3>1 DEF WaitLeft, Greatest
    <3> QED
      BY <1>3, <2>1, <3>2 DEF TransitionTo, WaitLeft
  <2>3. /\ breaker'.state = "HALF_OPEN" /\ breaker'.allowed = HalfOpenMax
        /\ breaker'.successes = 0
    BY <1>3, <2>1 DEF TransitionTo
  <2> QED
    BY <1>3, <2>2, <2>3, BreakerAssumption DEF Protocol!Readmit
<1>4. CASE breaker.state = "HALF_OPEN"
  <2>1. breaker.allowed > 0 /\ breaker' = [breaker EXCEPT !.allowed = @ - 1]
    BY <1>1, <1>4 DEF BeforeCalled, Admits
  <2>2. /\ breaker'.state = "HALF_OPEN" /\ breaker'.allowed = breaker.allowed - 1
        /\ breaker'.successes = breaker.successes
    BY <1>1, <1>4, <2>1 DEF Breaker
  <2> QED
    BY <1>4, <2>1, <2>2 DEF Protocol!Probe, WaitLeft
<1> QED
  BY <1>1, <1>2, <1>3, <1>4 DEF Breaker, BreakerStates

LEMMA ReportMaps ==
  ASSUME IndInv, NEW c \in Calls, Report(c)
  PROVE  \/ Protocol!Trip \/ Protocol!Reopen \/ Protocol!Succeed
         \/ UNCHANGED Protocol!vars
<1>0. breaker \in Breaker
  BY DEF IndInv, TypeOK
<1>1. CASE OnSuccess(c)
  <2>1. breaker' = Succeeded(breaker)
    BY <1>1 DEF OnSuccess, Remember
  <2>2. CASE breaker.state # "HALF_OPEN"
    BY <2>1, <2>2 DEF Succeeded, Protocol!vars, WaitLeft, Backoff
  <2>3. CASE breaker.state = "HALF_OPEN" /\ breaker.successes + 1 >= SuccessThreshold
    <3>1. breaker' = TransitionTo(breaker, "CLOSED")
      BY <2>1, <2>3 DEF Succeeded
    <3>2. Protocol!Close
      BY <1>0, <2>3, <3>1, Closing, ClosingMaps
    <3> QED
      BY <2>3, <3>2 DEF Protocol!Succeed
  <2>4. CASE breaker.state = "HALF_OPEN" /\ ~(breaker.successes + 1 >= SuccessThreshold)
    <3>1. /\ breaker'.state = "HALF_OPEN" /\ breaker'.allowed = breaker.allowed
          /\ breaker'.successes = breaker.successes + 1
      BY <1>0, <2>1, <2>4 DEF Succeeded, Breaker
    <3> QED
      BY <2>4, <3>1 DEF Protocol!Succeed, WaitLeft
  <2> QED
    BY <2>2, <2>3, <2>4
<1>2. CASE OnFailure(c)
  <2>1. breaker' = Failed(breaker) /\ Failed(breaker) \in Breaker
    BY <1>0, <1>2, FailedType DEF OnFailure, Remember
  <2>2. CASE breaker.state = "OPEN"
    BY <1>0, <2>1, <2>2, FailedType DEF Protocol!vars, WaitLeft, Backoff
  <2>3. CASE breaker.state = "HALF_OPEN"
    BY <1>0, <2>1, <2>3, FailedType, Opening, OpeningMaps DEF Protocol!Reopen
  <2>4. CASE breaker.state = "CLOSED" /\ Failed(breaker).state = "OPEN"
    <3>1. /\ Failed(breaker).elapsed = 0 /\ Failed(breaker).allowed = 0
          /\ Failed(breaker).successes = 0
      BY <1>0, <2>4, FailedType DEF Breaker
    <3> QED
      BY <2>1, <2>4, <3>1, OpeningMaps DEF Protocol!Trip
  <2>5. CASE breaker.state = "CLOSED" /\ Failed(breaker).state # "OPEN"
    <3>1. breaker' = [breaker EXCEPT !.failures = Append(@, 0)]
      BY <1>0, <2>1, <2>5, FailedType
    <3>2. /\ breaker'.state = "CLOSED" /\ breaker'.allowed = breaker.allowed
          /\ breaker'.successes = breaker.successes
      BY <1>0, <2>5, <3>1 DEF Breaker
    <3> QED
      BY <2>5, <3>2 DEF Protocol!vars, WaitLeft
  <2> QED
    BY <1>0, <2>2, <2>3, <2>4, <2>5 DEF Breaker, BreakerStates
<1> QED
  BY <1>1, <1>2 DEF Report

(* The code's breaker implements the protocol of its docstring: every step *)
(* of it is a step of the protocol, or changes nothing the protocol sees.  *)
THEOREM Refinement == Spec => KeepsProtocol
<1>1. IndInv /\ [Next]_vars => [Protocol!Next]_(Protocol!vars)
  <2> SUFFICES ASSUME IndInv, [Next]_vars
               PROVE  Protocol!Next \/ UNCHANGED Protocol!vars
    OBVIOUS
  <2>1. ASSUME NEW c \in Calls, BeginStream(c) \/ Cancel(c)
        PROVE  UNCHANGED Protocol!vars
    <3>1. breaker' = breaker
      BY <2>1 DEF BeginStream, Cancel, Remember
    <3> QED
      BY <3>1 DEF Protocol!vars, WaitLeft
  <2>2. CASE Reset
    <3>1. breaker \in Breaker /\ breaker.state # "CLOSED"
          /\ breaker' = TransitionTo(breaker, "CLOSED")
      BY <2>2 DEF Reset, Remember, IndInv, TypeOK
    <3> QED
      BY <3>1, Closing, ClosingMaps DEF Protocol!Next, Protocol!Reset
  <2>3. CASE UNCHANGED vars
    BY <2>3 DEF vars, Protocol!vars, WaitLeft
  <2> QED
    BY <2>1, <2>2, <2>3, BeforeCallMaps, ReportMaps, TickMaps DEF Next, Protocol!Next
<1> QED
  BY <1>1, InitProtocol, Invariance, PTL DEF Spec, KeepsProtocol, Protocol!Spec

-----------------------------------------------------------------------------
(* The pipe of the MCP client.  How many lines lie between the client and  *)
(* its server is bounded only while the lines that are still to be         *)
(* written are known: the invariant follows each task's script.            *)
Methods == {"initialize", "notifications/initialized", "shutdown",
            "tools/list", "tools/call", "ping"}
Results == {"capabilities", "tools", "content", "error", "empty"}
Line == [line : Nat, result : Results]

PipeTyped ==
    /\ sent \in Seq(Methods) /\ served \in Nat /\ served <= Len(sent)
    /\ unread \in Seq(Line)
    /\ \A n \in DOMAIN unread : unread[n].line \in 1..served
    /\ script \in [Clients -> Seq(Methods)]
    /\ awaits \in [Clients -> 0..MaxLines]
    /\ connected \in BOOLEAN

(* Who waits for a reply still has its line at the head of the script. *)
WaitsForHead == \A p \in Clients : awaits[p] # 0 => script[p] # <<>>

(* The tasks that have a line to write. *)
Writers == {p \in Clients : script[p] # <<>> /\ awaits[p] = 0}

(* A connection has room for the lines that were begun: a task begins at   *)
(* most one, and only when every task could.                               *)
RoomLeft ==
  connected => /\ \A p \in Clients : Len(script[p]) <= 1
               /\ Len(sent) + Cardinality(Writers) <= MaxLines

(* Where the handshake of p stands. *)
Shaking(p) ==
  \/ script[p] = McpPipe!Handshake /\ awaits[p] = 0 /\ Len(sent) = 0
  \/ script[p] = McpPipe!Handshake /\ awaits[p] # 0 /\ Len(sent) = 1
  \/ script[p] = Tail(McpPipe!Handshake) /\ awaits[p] = 0 /\ Len(sent) = 1
  \/ script[p] = <<"tools/list">> /\ awaits[p] = 0 /\ Len(sent) = 2
  \/ script[p] = <<"tools/list">> /\ awaits[p] # 0 /\ Len(sent) = 3

(* Before there is a connection one task at most is at its handshake, and  *)
(* the others do nothing.                                                  *)
OneShakes ==
  ~connected => \/ Len(sent) = 0 /\ \A p \in Clients : McpPipe!Idle(p)
                \/ \E p \in Clients : /\ Shaking(p)
                                      /\ \A q \in Clients \ {p} : McpPipe!Idle(q)

PipeIInv == PipeTyped /\ WaitsForHead /\ RoomLeft /\ OneShakes

LEMMA PipeCounts == \A S : McpPipe!Cardinality(S) = Cardinality(S)
BY DEF Cardinality, McpPipe!Cardinality

LEMMA OneLine ==
  ASSUME NEW m \in Methods
  PROVE  /\ <<m>> \in Seq(Methods) /\ <<m>> # <<>> /\ Len(<<m>>) = 1
         /\ Tail(<<m>>) = <<>> /\ Head(<<m>>) = m
<1>1. <<m>> \in Seq(Methods) /\ Len(<<m>>) = 1 /\ Head(<<m>>) = m
  OBVIOUS
<1>2. <<m>> # <<>>
  BY <1>1
<1>3. Tail(<<m>>) \in Seq(Methods) /\ Len(Tail(<<m>>)) = 0
  BY <1>1, <1>2, HeadTailProperties
<1> QED
  BY <1>1, <1>2, <1>3, EmptySeq

LEMMA HandshakeTails ==
  LET h == McpPipe!Handshake
  IN  /\ h \in Seq(Methods) /\ h # <<>> /\ Head(h) = "initialize"
      /\ Tail(h) \in Seq(Methods) /\ Tail(h) # <<>>
      /\ Head(Tail(h)) = "notifications/initialized"
      /\ Tail(Tail(h)) = <<"tools/list">>
<1> DEFINE h == <<"initialize", "notifications/initialized", "tools/list">>
<1>1. h \in Seq(Methods) /\ Len(h) = 3 /\ h # <<>> /\ Head(h) = "initialize"
  BY DEF Methods
<1>2. Tail(h) = <<"notifications/initialized", "tools/list">>
  OBVIOUS
<1>3. /\ Tail(h) \in Seq(Methods) /\ Len(Tail(h)) = 2
      /\ Head(Tail(h)) = "notifications/initialized"
  BY <1>2 DEF Methods
<1>4. Tail(Tail(h)) = <<"tools/list">>
  BY <1>2
<1> QED
  BY <1>1, <1>3, <1>4 DEF McpPipe!Handshake

LEMMA ShortTail ==
  ASSUME NEW s \in Seq(Methods), s # <<>>
  PROVE  /\ Head(s) \in Methods /\ Tail(s) \in Seq(Methods)
         /\ Len(s) <= 1 => Tail(s) = <<>>
         /\ Len(Tail(s)) <= Len(s)
<1>1. Head(s) \in Methods /\ Tail(s) \in Seq(Methods) /\ Len(Tail(s)) = Len(s) - 1 /\ Len(s) \in Nat
  BY HeadTailProperties, LenProperties
<1>2. Len(s) <= 1 => Tail(s) = <<>>
  BY <1>1, EmptySeq
<1> QED
  BY <1>1, <1>2

LEMMA HandshakeFits == ASSUME NEW n \in {0, 1, 2, 3} PROVE n <= MaxLines /\ (n # 3 => n + 1 <= MaxLines)
BY PipeAssumption

(* Who is not idle before there is a connection is at the handshake.       *)
LEMMA ShakerIs ==
  ASSUME PipeIInv, ~connected, NEW p \in Clients, ~McpPipe!Idle(p)
  PROVE  Shaking(p) /\ \A q \in Clients \ {p} : McpPipe!Idle(q)
BY DEF PipeIInv, OneShakes

LEMMA WritersCount ==
  ASSUME NEW S \in SUBSET Clients, NEW p
  PROVE  /\ IsFiniteSet(S) /\ Cardinality(S) \in Nat
         /\ Cardinality(S) <= Cardinality(Clients) /\ Cardinality(Clients) \in Nat
         /\ IsFiniteSet(S \ {p}) /\ Cardinality(S \ {p}) \in Nat
         /\ p \in S => Cardinality(S \ {p}) = Cardinality(S) - 1
         /\ p \notin S => Cardinality(S \cup {p}) = Cardinality(S) + 1
         /\ Cardinality(S \cup {p}) \in Nat /\ IsFiniteSet(S \cup {p})
         /\ Cardinality(S \cup {p}) <= Cardinality(S) + 1
<1>1. IsFiniteSet(S) /\ IsFiniteSet(Clients)
  BY FS_Subset, PipeAssumption
<1>2. Cardinality(S) \in Nat /\ Cardinality(Clients) \in Nat
  BY <1>1, FS_CardinalityType
<1>3. Cardinality(S) <= Cardinality(Clients)
  BY <1>1, FS_Subset
<1>4. IsFiniteSet(S \ {p}) /\ IsFiniteSet(S \cup {p})
  BY <1>1, FS_RemoveElement, FS_AddElement
<1>5. Cardinality(S \ {p}) \in Nat /\ Cardinality(S \cup {p}) \in Nat
  BY <1>4, FS_CardinalityType
<1>6. p \in S => Cardinality(S \ {p}) = Cardinality(S) - 1
  BY <1>1, FS_RemoveElement
<1>7. p \notin S => Cardinality(S \cup {p}) = Cardinality(S) + 1
  BY <1>1, FS_AddElement
<1>8. p \in S => S \cup {p} = S
  OBVIOUS
<1>9. Cardinality(S \cup {p}) <= Cardinality(S) + 1
  BY <1>2, <1>5, <1>7, <1>8
<1> QED
  BY <1>1, <1>2, <1>3, <1>4, <1>5, <1>6, <1>7, <1>9

LEMMA PipeStarts == McpPipe!Init => PipeIInv
<1> SUFFICES ASSUME McpPipe!Init PROVE PipeIInv
  OBVIOUS
<1>1. PipeTyped
  <2>1. sent \in Seq(Methods) /\ unread \in Seq(Line) /\ Len(sent) = 0 /\ Len(unread) = 0
    BY EmptySeq DEF McpPipe!Init
  <2>2. DOMAIN unread = {}
    BY DEF McpPipe!Init
  <2>3. script \in [Clients -> Seq(Methods)] /\ awaits \in [Clients -> 0..MaxLines]
    BY PipeAssumption, EmptySeq DEF McpPipe!Init
  <2>4. served = 0 /\ connected \in BOOLEAN
    BY Zenon DEF McpPipe!Init
  <2> QED
    BY <2>1, <2>2, <2>3, <2>4 DEF PipeTyped
<1>2. OneShakes /\ WaitsForHead /\ RoomLeft
  BY EmptySeq DEF OneShakes, WaitsForHead, RoomLeft, McpPipe!Init, McpPipe!Idle
<1> QED
  BY <1>1, <1>2 DEF PipeIInv

(* The line at the head of a script was dealt with: all the cases of       *)
(* Read, TimeOut and the lines no reply is read for.                       *)
LEMMA HeadDealtWith ==
  ASSUME PipeIInv, NEW p \in Clients, script[p] # <<>>,
         script' = [script EXCEPT ![p] = Tail(script[p])],
         awaits' = [awaits EXCEPT ![p] = 0]
  PROVE  /\ script' \in [Clients -> Seq(Methods)] /\ awaits' \in [Clients -> 0..MaxLines]
         /\ script'[p] = Tail(script[p]) /\ awaits'[p] = 0
         /\ \A q \in Clients \ {p} : script'[q] = script[q] /\ awaits'[q] = awaits[q]
         /\ WaitsForHead'
         /\ Tail(script[p]) \in Seq(Methods)
         /\ connected => (\A q \in Clients : Len(script'[q]) <= 1) /\ Tail(script[p]) = <<>>
<1>1. /\ script \in [Clients -> Seq(Methods)] /\ awaits \in [Clients -> 0..MaxLines]
      /\ MaxLines \in Nat
  BY PipeAssumption DEF PipeIInv, PipeTyped
<1>2. Tail(script[p]) \in Seq(Methods) /\ (Len(script[p]) <= 1 => Tail(script[p]) = <<>>)
  BY <1>1, ShortTail
<1>3. script' \in [Clients -> Seq(Methods)] /\ awaits' \in [Clients -> 0..MaxLines]
  BY <1>1, <1>2
<1>4. /\ script'[p] = Tail(script[p]) /\ awaits'[p] = 0
      /\ \A q \in Clients \ {p} : script'[q] = script[q] /\ awaits'[q] = awaits[q]
  BY <1>1
<1>5. WaitsForHead'
  BY <1>4 DEF PipeIInv, WaitsForHead
<1>6. connected => Tail(script[p]) = <<>> /\ \A q \in Clients : Len(script[q]) <= 1
  BY <1>2 DEF PipeIInv, RoomLeft
<1>7. connected => \A q \in Clients : Len(script'[q]) <= 1
  <2> SUFFICES ASSUME connected, NEW q \in Clients PROVE Len(script'[q]) <= 1
    OBVIOUS
  <2>1. CASE q = p
    BY <2>1, <1>4, <1>6, EmptySeq
  <2>2. CASE q # p
    BY <2>2, <1>4, <1>6
  <2> QED
    BY <2>1, <2>2
<1> QED
  BY <1>2, <1>3, <1>4, <1>5, <1>6, <1>7

(* The same for a task whose line was sent and that gets a reply, or none. *)
LEMMA ReplyDealtWith ==
  ASSUME PipeIInv, NEW p \in Clients, awaits[p] # 0,
         McpPipe!Finished(p), McpPipe!Done(p), UNCHANGED sent,
         script' = [script EXCEPT ![p] = Tail(script[p])]
  PROVE  /\ script' \in [Clients -> Seq(Methods)] /\ awaits' \in [Clients -> 0..MaxLines]
         /\ WaitsForHead' /\ RoomLeft' /\ OneShakes' /\ connected' \in BOOLEAN
<1>1. script[p] # <<>> /\ awaits' = [awaits EXCEPT ![p] = 0]
  BY DEF PipeIInv, WaitsForHead, McpPipe!Done
<1>2. /\ script' \in [Clients -> Seq(Methods)] /\ awaits' \in [Clients -> 0..MaxLines]
      /\ script'[p] = Tail(script[p]) /\ awaits'[p] = 0
      /\ \A q \in Clients \ {p} : script'[q] = script[q] /\ awaits'[q] = awaits[q]
      /\ WaitsForHead'
      /\ Tail(script[p]) \in Seq(Methods)
      /\ connected => (\A q \in Clients : Len(script'[q]) <= 1) /\ Tail(script[p]) = <<>>
  BY <1>1, HeadDealtWith
<1>3. connected' = (connected \/ Tail(script[p]) = <<>>) /\ connected \in BOOLEAN
  BY <1>1 DEF McpPipe!Finished, PipeIInv, PipeTyped
<1>4. CASE connected
  <2>1. Writers' = Writers
    BY <1>1, <1>2, <1>4 DEF Writers
  <2>2. Len(sent) + Cardinality(Writers) <= MaxLines
    BY <1>4 DEF PipeIInv, RoomLeft
  <2>3. RoomLeft' /\ OneShakes'
    BY <1>2, <1>3, <1>4, <2>1, <2>2 DEF RoomLeft, OneShakes
  <2> QED
    BY <1>2, <1>3, <2>3
<1>5. CASE ~connected
  <2>1. Shaking(p) /\ \A q \in Clients \ {p} : McpPipe!Idle(q)
    BY <1>1, <1>5, ShakerIs DEF McpPipe!Idle
  <2>2. \A q \in Clients \ {p} : McpPipe!Idle(q)'
    BY <1>2, <2>1 DEF McpPipe!Idle
  <2>3. CASE script[p] = McpPipe!Handshake /\ Len(sent) = 1
    <3>1. Tail(script[p]) # <<>>
      BY <2>3, HandshakeTails
    <3>2. Shaking(p)'
      BY <1>2, <2>3 DEF Shaking
    <3> QED
      BY <1>2, <1>3, <1>5, <2>2, <3>1, <3>2 DEF RoomLeft, OneShakes
  <2>4. CASE script[p] = <<"tools/list">> /\ Len(sent) = 3
    <3>1. Tail(script[p]) = <<>>
      BY <2>4, OneLine
    <3>2. Writers' = {} /\ \A q \in Clients : script'[q] = <<>>
      BY <1>2, <2>2, <3>1 DEF Writers, McpPipe!Idle
    <3>3. Cardinality(Writers') = 0
      BY <3>2, FS_EmptySet
    <3>4. RoomLeft'
      BY <2>4, <3>2, <3>3, EmptySeq, PipeAssumption DEF RoomLeft
    <3> QED
      BY <1>2, <1>3, <3>1, <3>4 DEF OneShakes
  <2> QED
    BY <2>1, <2>3, <2>4 DEF Shaking
<1> QED
  BY <1>4, <1>5

(* Every step of the pipe keeps its invariant.                             *)
LEMMA PipeSteps == PipeIInv /\ [McpPipe!Next]_(McpPipe!vars) => PipeIInv'
<1> SUFFICES ASSUME PipeIInv, [McpPipe!Next]_(McpPipe!vars) PROVE PipeIInv'
  OBVIOUS
<1>0. /\ PipeTyped /\ WaitsForHead /\ RoomLeft /\ OneShakes
      /\ sent \in Seq(Methods) /\ Len(sent) \in Nat /\ served \in Nat /\ served <= Len(sent)
      /\ unread \in Seq(Line) /\ Len(unread) \in Nat /\ DOMAIN unread = 1..Len(unread)
      /\ \A n \in DOMAIN unread : unread[n].line \in 1..served
      /\ script \in [Clients -> Seq(Methods)]
      /\ awaits \in [Clients -> 0..MaxLines] /\ connected \in BOOLEAN
      /\ MaxLines \in Nat /\ MaxLines >= 3
  BY LenProperties, PipeAssumption DEF PipeIInv, PipeTyped
<1>1. CASE McpPipe!Serve
  <2>1. PICK result : /\ served' = served + 1 /\ served < Len(sent)
                      /\ result \in McpPipe!ResultOf(sent[served'])
                      /\ unread' = Append(unread, [line |-> served', result |-> result])
                      /\ UNCHANGED <<sent, script, awaits, connected>>
    BY <1>1 DEF McpPipe!Serve
  <2> DEFINE line == [line |-> served', result |-> result]
  <2>2. result \in Results
    BY <2>1 DEF McpPipe!ResultOf, Results
  <2>3. line \in Line /\ line.line = served + 1
    BY <1>0, <2>1, <2>2 DEF Line
  <2>4. unread' = Append(unread, line)
    BY <2>1
  <2> HIDE DEF line
  <2>5. /\ unread' \in Seq(Line) /\ Len(unread') = Len(unread) + 1
        /\ \A i \in 1..Len(unread) : unread'[i] = unread[i]
        /\ unread'[Len(unread) + 1] = line /\ DOMAIN unread' = 1..Len(unread')
    BY <1>0, <2>3, <2>4, AppendProperties, LenProperties
  <2>6. \A n \in DOMAIN unread' : unread'[n].line \in 1..served'
    <3> SUFFICES ASSUME NEW n \in DOMAIN unread' PROVE unread'[n].line \in 1..served'
      OBVIOUS
    <3>1. CASE n = Len(unread) + 1
      BY <1>0, <2>1, <2>3, <2>5, <3>1
    <3>2. CASE n # Len(unread) + 1
      <4>1. n \in 1..Len(unread)
        BY <1>0, <2>5, <3>2
      <4>2. unread'[n].line \in 1..served
        BY <1>0, <2>5, <4>1
      <4> QED
        BY <1>0, <2>1, <4>2
    <3> QED
      BY <3>1, <3>2
  <2>7. PipeTyped'
    BY <1>0, <2>1, <2>5, <2>6 DEF PipeTyped
  <2> QED
    BY <1>0, <2>1, <2>7 DEF PipeIInv, WaitsForHead, RoomLeft, OneShakes, Writers, Shaking, McpPipe!Idle
<1>2. ASSUME NEW p \in Clients, McpPipe!Connect(p) PROVE PipeIInv'
  <2>1. /\ ~connected /\ \A q \in Clients : script[q] = <<>> /\ awaits[q] = 0
        /\ script' = [script EXCEPT ![p] = McpPipe!Handshake]
        /\ UNCHANGED <<sent, served, unread, awaits, connected>>
    BY <1>2 DEF McpPipe!Connect, McpPipe!Idle
  <2>2. Len(sent) = 0
    BY <1>0, <2>1, HandshakeTails, OneLine DEF OneShakes, Shaking, Methods
  <2>3. PipeTyped'
    BY <1>0, <2>1, HandshakeTails DEF PipeTyped
  <2>4. Shaking(p)'
    BY <1>0, <2>1, <2>2 DEF Shaking
  <2>5. OneShakes'
    BY <1>0, <2>1, <2>4 DEF OneShakes, McpPipe!Idle
  <2> QED
    BY <1>0, <2>1, <2>3, <2>5 DEF PipeIInv, RoomLeft, WaitsForHead
<1>3. ASSUME NEW p \in Clients, NEW method \in McpPipe!Requests, McpPipe!Request(p, method)
      PROVE PipeIInv'
  <2>1. /\ connected /\ script[p] = <<>> /\ awaits[p] = 0
        /\ Len(sent) + Cardinality(Clients) <= MaxLines
        /\ script' = [script EXCEPT ![p] = <<method>>]
        /\ UNCHANGED <<sent, served, unread, awaits, connected>>
    BY <1>3, PipeCounts DEF McpPipe!Request, McpPipe!Idle
  <2>2. method \in Methods
    BY DEF McpPipe!Requests, Methods
  <2>3. <<method>> \in Seq(Methods) /\ Len(<<method>>) = 1
    BY <2>2, OneLine
  <2>4. PipeTyped'
    BY <1>0, <2>1, <2>3 DEF PipeTyped
  <2>5. WaitsForHead'
    BY <1>0, <2>1 DEF WaitsForHead
  <2>6. Writers' \in SUBSET Clients
    BY DEF Writers
  <2>7. Cardinality(Writers') <= Cardinality(Clients) /\ Cardinality(Writers') \in Nat
        /\ Cardinality(Clients) \in Nat
    BY <2>6, WritersCount
  <2>8. \A q \in Clients : Len(script'[q]) <= 1
    <3> SUFFICES ASSUME NEW q \in Clients PROVE Len(script'[q]) <= 1
      OBVIOUS
    <3>1. CASE q = p
      BY <1>0, <2>1, <2>3, <3>1
    <3>2. CASE q # p
      BY <1>0, <2>1, <3>2 DEF RoomLeft
    <3> QED
      BY <3>1, <3>2
  <2>9. RoomLeft'
    BY <1>0, <2>1, <2>7, <2>8 DEF RoomLeft
  <2> QED
    BY <1>0, <2>1, <2>4, <2>5, <2>9 DEF PipeIInv, OneShakes
<1>4. ASSUME NEW p \in Clients, McpPipe!Write(p) PROVE PipeIInv'
  <2> DEFINE m == Head(script[p])
             quiet == \/ m \in McpPipe!Notifications
                      \/ McpPipe!Readers # {} /\ unread = <<>>
  <2>1. /\ script[p] # <<>> /\ awaits[p] = 0 /\ sent' = Append(sent, m)
        /\ awaits' = [awaits EXCEPT ![p] = IF quiet THEN 0 ELSE Len(sent')]
        /\ script' = [script EXCEPT ![p] = IF quiet THEN Tail(script[p]) ELSE script[p]]
        /\ UNCHANGED <<served, unread, connected>>
    BY <1>0, <1>4 DEF McpPipe!Write
  <2>2. m \in Methods
    BY <1>0, <2>1, ShortTail
  <2>3. sent' \in Seq(Methods) /\ Len(sent') = Len(sent) + 1
    BY <1>0, <2>1, <2>2, AppendProperties
  <2>4. Len(sent') <= MaxLines
    <3>1. CASE connected
      <4>1. Writers \in SUBSET Clients /\ p \in Writers
        BY <2>1 DEF Writers
      <4>2. /\ Cardinality(Writers) = Cardinality(Writers \ {p}) + 1
            /\ Cardinality(Writers) \in Nat /\ Cardinality(Writers \ {p}) \in Nat
        <5>1. /\ Cardinality(Writers) \in Nat /\ Cardinality(Writers \ {p}) \in Nat
              /\ Cardinality(Writers \ {p}) = Cardinality(Writers) - 1
          BY <4>1, WritersCount
        <5> QED
          BY <5>1
      <4> QED
        BY <1>0, <2>3, <3>1, <4>2 DEF RoomLeft
    <3>2. CASE ~connected
      <4>1. Shaking(p)
        BY <2>1, <3>2, ShakerIs DEF McpPipe!Idle
      <4>2. Len(sent) = 0 \/ Len(sent) = 1 \/ Len(sent) = 2
        <5>1. awaits[p] = 0
          BY <2>1
        <5> QED
          BY <4>1, <5>1, Zenon DEF Shaking
      <4>3. Len(sent) \in {0, 1, 2}
        BY <4>2
      <4>4. Len(sent) \in {0, 1, 2, 3} /\ Len(sent) # 3
        BY <4>3
      <4>5. Len(sent) + 1 <= MaxLines
        BY <4>4, HandshakeFits
      <4> QED
        BY <2>3, <4>5
    <3> QED
      BY <1>0, <3>1, <3>2
  <2> HIDE DEF m, quiet
  <2>5. /\ \A q \in Clients \ {p} : script'[q] = script[q] /\ awaits'[q] = awaits[q]
        /\ script' \in [Clients -> Seq(Methods)] /\ awaits' \in [Clients -> 0..MaxLines]
        /\ WaitsForHead'
        /\ connected => \A q \in Clients : Len(script'[q]) <= 1
        /\ IF quiet THEN script'[p] = Tail(script[p]) /\ awaits'[p] = 0
                    ELSE script'[p] = script[p] /\ awaits'[p] = Len(sent')
    <3>1. CASE quiet
      BY <2>1, <3>1, HeadDealtWith
    <3>2. CASE ~quiet
      <4>1. script' = script
        BY <1>0, <2>1, <3>2
      <4>2. awaits' = [awaits EXCEPT ![p] = Len(sent')] /\ Len(sent') \in 0..MaxLines
        BY <1>0, <2>1, <2>3, <2>4, <3>2
      <4>3. WaitsForHead'
        BY <1>0, <2>1, <4>1, <4>2 DEF WaitsForHead
      <4> QED
        BY <1>0, <3>2, <4>1, <4>2, <4>3 DEF RoomLeft
    <3> QED
      BY <3>1, <3>2
  <2>6. PipeTyped'
    BY <1>0, <2>1, <2>3, <2>5 DEF PipeTyped
  <2>7. CASE connected
    <3>1. Writers \in SUBSET Clients /\ p \in Writers
      BY <2>1 DEF Writers
    <3>2. Writers' = Writers \ {p}
      <4>1. script'[p] = <<>> \/ awaits'[p] # 0
        <5>1. CASE quiet
          BY <2>1, <2>5, <2>7, <5>1, <1>0, ShortTail DEF RoomLeft
        <5>2. CASE ~quiet
          BY <1>0, <2>3, <2>5, <5>2
        <5> QED
          BY <5>1, <5>2
      <4> QED
        BY <2>1, <2>5, <4>1 DEF Writers
    <3>3. /\ Cardinality(Writers) = Cardinality(Writers \ {p}) + 1
          /\ Cardinality(Writers) \in Nat /\ Cardinality(Writers \ {p}) \in Nat
      <4>1. /\ Cardinality(Writers) \in Nat /\ Cardinality(Writers \ {p}) \in Nat
            /\ Cardinality(Writers \ {p}) = Cardinality(Writers) - 1
        BY <3>1, WritersCount
      <4> QED
        BY <4>1
    <3>4. RoomLeft'
      BY <1>0, <2>1, <2>3, <2>5, <2>7, <3>2, <3>3 DEF RoomLeft
    <3> QED
      BY <2>1, <2>5, <2>6, <2>7, <3>4 DEF PipeIInv, OneShakes
  <2>8. CASE ~connected
    <3>1. Shaking(p) /\ \A q \in Clients \ {p} : script[q] = <<>> /\ awaits[q] = 0
      BY <2>1, <2>8, ShakerIs DEF McpPipe!Idle
    <3>2. \A q \in Clients \ {p} : McpPipe!Idle(q)'
      BY <2>5, <3>1 DEF McpPipe!Idle
    <3>3. McpPipe!Readers = {}
      BY <2>1, <3>1 DEF McpPipe!Readers
    <3>4. Shaking(p)'
      <4>1. CASE script[p] = McpPipe!Handshake /\ Len(sent) = 0
        <5>1. ~quiet
          BY <3>3, <4>1, HandshakeTails DEF quiet, m, McpPipe!Notifications
        <5> QED
          BY <2>3, <2>5, <4>1, <5>1 DEF Shaking
      <4>2. CASE script[p] = Tail(McpPipe!Handshake) /\ Len(sent) = 1
        <5>1. quiet
          BY <4>2, HandshakeTails DEF quiet, m, McpPipe!Notifications
        <5>2. script'[p] = <<"tools/list">> /\ awaits'[p] = 0
          BY <2>5, <4>2, <5>1, HandshakeTails
        <5> QED
          BY <2>3, <4>2, <5>2 DEF Shaking
      <4>3. CASE script[p] = <<"tools/list">> /\ Len(sent) = 2
        <5>1. ~quiet
          BY <3>3, <4>3, OneLine DEF quiet, m, McpPipe!Notifications, Methods
        <5> QED
          BY <2>3, <2>5, <4>3, <5>1 DEF Shaking
      <4> QED
        BY <2>1, <3>1, <4>1, <4>2, <4>3 DEF Shaking
    <3> QED
      BY <2>1, <2>5, <2>6, <2>8, <3>2, <3>4 DEF PipeIInv, OneShakes, RoomLeft
  <2> QED
    BY <1>0, <2>7, <2>8
<1>5. ASSUME NEW p \in Clients, McpPipe!Read(p) PROVE PipeIInv'
  <2>1. /\ awaits[p] # 0 /\ unread # <<>> /\ unread' = Tail(unread)
        /\ McpPipe!Finished(p) /\ McpPipe!Done(p)
        /\ script' = [script EXCEPT ![p] = Tail(script[p])]
        /\ UNCHANGED <<sent, served>>
    BY <1>0, <1>5 DEF McpPipe!Read
  <2>2. /\ script' \in [Clients -> Seq(Methods)] /\ awaits' \in [Clients -> 0..MaxLines]
        /\ WaitsForHead' /\ RoomLeft' /\ OneShakes' /\ connected' \in BOOLEAN
    BY <2>1, ReplyDealtWith
  <2>3. /\ unread' \in Seq(Line) /\ Len(unread') = Len(unread) - 1
        /\ \A i \in 1..Len(unread') : unread'[i] = unread[i + 1]
        /\ DOMAIN unread' = 1..Len(unread') /\ Len(unread') \in Nat
    BY <1>0, <2>1, HeadTailProperties, LenProperties
  <2>4. \A n \in DOMAIN unread' : unread'[n].line \in 1..served'
    <3> SUFFICES ASSUME NEW n \in DOMAIN unread' PROVE unread'[n].line \in 1..served'
      OBVIOUS
    <3>1. n + 1 \in DOMAIN unread /\ unread'[n] = unread[n + 1]
      BY <1>0, <2>3
    <3> QED
      BY <1>0, <2>1, <3>1
  <2>5. PipeTyped'
    BY <1>0, <2>1, <2>2, <2>3, <2>4 DEF PipeTyped
  <2> QED
    BY <2>2, <2>5 DEF PipeIInv
<1>6. ASSUME NEW p \in Clients, McpPipe!TimeOut(p) PROVE PipeIInv'
  <2>1. /\ awaits[p] # 0
        /\ McpPipe!Finished(p) /\ McpPipe!Done(p)
        /\ script' = [script EXCEPT ![p] = Tail(script[p])]
        /\ UNCHANGED <<sent, served, unread>>
    BY <1>0, <1>6 DEF McpPipe!TimeOut
  <2>2. /\ script' \in [Clients -> Seq(Methods)] /\ awaits' \in [Clients -> 0..MaxLines]
        /\ WaitsForHead' /\ RoomLeft' /\ OneShakes' /\ connected' \in BOOLEAN
    BY <2>1, ReplyDealtWith
  <2>3. PipeTyped'
    BY <1>0, <2>1, <2>2 DEF PipeTyped
  <2> QED
    BY <2>2, <2>3 DEF PipeIInv
<1>7. ASSUME NEW p \in Clients, McpPipe!Close(p) PROVE PipeIInv'
  <2>1. /\ connected' = FALSE /\ sent' = <<>> /\ served' = 0 /\ unread' = <<>>
        /\ script' = [q \in Clients |-> <<>>] /\ awaits' = [q \in Clients |-> 0]
    BY <1>7 DEF McpPipe!Close
  <2>2. /\ sent' \in Seq(Methods) /\ unread' \in Seq(Line) /\ Len(sent') = 0
        /\ DOMAIN unread' = {}
    BY <2>1, EmptySeq
  <2>3. script' \in [Clients -> Seq(Methods)] /\ awaits' \in [Clients -> 0..MaxLines]
    BY <1>0, <2>1, EmptySeq
  <2>4. served' = 0 /\ connected' \in BOOLEAN
    BY <2>1, Zenon
  <2>5. PipeTyped'
    BY <2>2, <2>3, <2>4 DEF PipeTyped
  <2> QED
    BY <2>1, <2>2, <2>5 DEF PipeIInv, WaitsForHead, RoomLeft, OneShakes, McpPipe!Idle
<1>8. CASE UNCHANGED McpPipe!vars
  BY <1>0, <1>8 DEF PipeIInv, PipeTyped, WaitsForHead, RoomLeft, OneShakes, Writers, Shaking,
                    McpPipe!Idle, McpPipe!vars
<1> QED
  BY <1>1, <1>2, <1>3, <1>4, <1>5, <1>6, <1>7, <1>8 DEF McpPipe!Next

(* Which replies were read, and by which requests.                         *)
Paired ==
    /\ Len(unread) <= served
    /\ answered \in SUBSET ((1..Len(sent)) \X (1..served))
    /\ \A p \in Clients : awaits[p] <= Len(sent)
    /\ \A p, q \in Clients : awaits[p] # 0 /\ awaits[p] = awaits[q] => p = q
    /\ McpPipe!RepliesOnce

LEMMA PairsStart == McpPipe!Init => Paired
<1> SUFFICES ASSUME McpPipe!Init PROVE Paired
  OBVIOUS
<1>1. /\ Len(unread) = 0 /\ DOMAIN unread = {} /\ Len(sent) = 0
      /\ served = 0 /\ answered = {} /\ \A p \in Clients : awaits[p] = 0
  BY EmptySeq DEF McpPipe!Init
<1>2. {pair[2] : pair \in answered} = 1..(served - Len(unread))
  BY <1>1
<1> QED
  BY <1>1, <1>2 DEF Paired, McpPipe!RepliesOnce

(* A step that leaves the replies alone, and of the requests makes one at  *)
(* most wait, for the reply to a new line.                                 *)
LEMMA PairsRest ==
  ASSUME PipeTyped, Paired, UNCHANGED <<served, unread, answered>>,
         Len(sent') \in Nat, Len(sent) <= Len(sent'),
         \A p \in Clients : \/ awaits'[p] = awaits[p] \/ awaits'[p] = 0
                            \/ awaits'[p] = Len(sent) + 1 /\ Len(sent') = Len(sent) + 1,
         \A p, q \in Clients : awaits'[p] = Len(sent) + 1 /\ awaits'[q] = Len(sent) + 1 => p = q
  PROVE  Paired'
<1>1. /\ Len(sent) \in Nat /\ served \in Nat /\ \A p \in Clients : awaits[p] \in Nat
      /\ \A pair \in answered : pair[1] \in 1..Len(sent) /\ pair[2] \in 1..served
      /\ \A p \in Clients : awaits[p] <= Len(sent)
  BY LenProperties, PipeAssumption DEF PipeTyped, Paired
<1>2. answered' \in SUBSET ((1..Len(sent')) \X (1..served'))
  BY <1>1 DEF Paired
<1>3. \A p \in Clients : awaits'[p] <= Len(sent')
  BY <1>1
<1>4. \A p, q \in Clients : awaits'[p] # 0 /\ awaits'[p] = awaits'[q] => p = q
  BY <1>1 DEF Paired
<1>5. \A pair \in answered, p \in Clients : pair[1] # awaits'[p]
  <2> SUFFICES ASSUME NEW pair \in answered, NEW p \in Clients PROVE pair[1] # awaits'[p]
    OBVIOUS
  <2>1. pair[1] # awaits[p] /\ pair[1] \in 1..Len(sent)
    BY <1>1 DEF Paired, McpPipe!RepliesOnce
  <2> QED
    BY <1>1, <2>1
<1> QED
  BY <1>2, <1>3, <1>4, <1>5 DEF Paired, McpPipe!RepliesOnce

LEMMA PairsStep == PipeIInv /\ Paired /\ [McpPipe!Next]_(McpPipe!vars) => Paired'
<1> SUFFICES ASSUME PipeIInv, Paired, [McpPipe!Next]_(McpPipe!vars) PROVE Paired'
  OBVIOUS
<1>0. /\ PipeTyped /\ sent \in Seq(Methods) /\ Len(sent) \in Nat
      /\ served \in Nat /\ served <= Len(sent)
      /\ unread \in Seq(Line) /\ Len(unread) \in Nat /\ DOMAIN unread = 1..Len(unread)
      /\ script \in [Clients -> Seq(Methods)]
      /\ awaits \in [Clients -> 0..MaxLines] /\ MaxLines \in Nat
      /\ \A pair \in answered : pair[1] \in 1..Len(sent) /\ pair[2] \in 1..served
      /\ answered \in SUBSET ((1..Len(sent)) \X (1..served))
      /\ \A p \in Clients : awaits[p] <= Len(sent)
      /\ \A p, q \in Clients : awaits[p] # 0 /\ awaits[p] = awaits[q] => p = q
      /\ Len(unread) <= served
      /\ \A n \in DOMAIN unread : unread[n].line = served - Len(unread) + n
      /\ {pair[2] : pair \in answered} = 1..(served - Len(unread))
      /\ \A a, b \in answered : a[1] = b[1] <=> a[2] = b[2]
      /\ \A pair \in answered, p \in Clients : pair[1] # awaits[p]
  BY LenProperties, PipeAssumption DEF PipeIInv, PipeTyped, Paired, McpPipe!RepliesOnce
<1>1. CASE McpPipe!Serve
  <2>1. PICK result : /\ served' = served + 1 /\ served < Len(sent)
                      /\ result \in McpPipe!ResultOf(sent[served'])
                      /\ unread' = Append(unread, [line |-> served', result |-> result])
                      /\ UNCHANGED <<sent, awaits, answered>>
    BY <1>1 DEF McpPipe!Serve
  <2> DEFINE line == [line |-> served', result |-> result]
  <2>2. result \in Results
    BY <2>1 DEF McpPipe!ResultOf, Results
  <2>3. line \in Line /\ line.line = served + 1 /\ unread' = Append(unread, line)
    BY <1>0, <2>1, <2>2 DEF Line
  <2> HIDE DEF line
  <2>4. /\ Len(unread') = Len(unread) + 1 /\ unread' \in Seq(Line)
        /\ \A i \in 1..Len(unread) : unread'[i] = unread[i]
        /\ unread'[Len(unread) + 1] = line /\ DOMAIN unread' = 1..Len(unread')
    BY <1>0, <2>3, AppendProperties, LenProperties
  <2>5. \A n \in DOMAIN unread' : unread'[n].line = served' - Len(unread') + n
    <3> SUFFICES ASSUME NEW n \in DOMAIN unread' PROVE unread'[n].line = served' - Len(unread') + n
      OBVIOUS
    <3>0. n \in 1..(Len(unread) + 1)
      BY <2>4
    <3>1. CASE n = Len(unread) + 1
      BY <1>0, <2>1, <2>3, <2>4, <3>1
    <3>2. CASE n # Len(unread) + 1
      <4>1. n \in 1..Len(unread) /\ unread'[n] = unread[n] /\ unread[n].line = served - Len(unread) + n
        BY <1>0, <2>4, <3>0, <3>2
      <4> QED
        BY <1>0, <2>1, <2>4, <4>1
    <3> QED
      BY <3>1, <3>2
  <2>6. served' - Len(unread') = served - Len(unread) /\ Len(unread') <= served'
    BY <1>0, <2>1, <2>4
  <2>7. answered' \in SUBSET ((1..Len(sent')) \X (1..served'))
    <3>1. 1..served \subseteq 1..served'
      BY <1>0, <2>1
    <3> QED
      BY <1>0, <2>1, <3>1
  <2> QED
    BY <1>0, <2>1, <2>5, <2>6, <2>7 DEF Paired, McpPipe!RepliesOnce
<1>2. ASSUME NEW p \in Clients, McpPipe!Connect(p) \/ \E method : McpPipe!Request(p, method)
      PROVE Paired'
  <2>1. UNCHANGED <<sent, served, unread, answered, awaits>>
    BY <1>2 DEF McpPipe!Connect, McpPipe!Request
  <2>2. \A q \in Clients : awaits'[q] = awaits[q] /\ awaits'[q] # Len(sent) + 1
    BY <1>0, <2>1
  <2> QED
    BY <1>0, <2>1, <2>2, PairsRest
<1>3. ASSUME NEW p \in Clients, McpPipe!Write(p) PROVE Paired'
  <2>1. /\ sent' = Append(sent, Head(script[p])) /\ script[p] # <<>>
        /\ UNCHANGED <<served, unread, answered>>
        /\ \E n \in {0, Len(sent')} : awaits' = [awaits EXCEPT ![p] = n]
    BY <1>3 DEF McpPipe!Write
  <2>2. Len(sent') = Len(sent) + 1
    BY <1>0, <2>1, ShortTail, AppendProperties
  <2>3. /\ \A q \in Clients \ {p} : awaits'[q] = awaits[q] /\ awaits'[q] # Len(sent) + 1
        /\ awaits'[p] \in {0, Len(sent) + 1}
    BY <1>0, <2>1, <2>2
  <2> QED
    BY <1>0, <2>1, <2>2, <2>3, PairsRest
<1>4. ASSUME NEW p \in Clients, McpPipe!TimeOut(p) PROVE Paired'
  <2>1. UNCHANGED <<sent, served, unread, answered>> /\ awaits' = [awaits EXCEPT ![p] = 0]
    BY <1>4 DEF McpPipe!TimeOut, McpPipe!Done
  <2>2. \A q \in Clients : (awaits'[q] = awaits[q] \/ awaits'[q] = 0) /\ awaits'[q] # Len(sent) + 1
    BY <1>0, <2>1
  <2> QED
    BY <1>0, <2>1, <2>2, PairsRest
<1>5. ASSUME NEW p \in Clients, McpPipe!Read(p) PROVE Paired'
  <2>1. /\ awaits[p] # 0 /\ unread # <<>> /\ unread' = Tail(unread)
        /\ answered' = answered \cup {<<awaits[p], Head(unread).line>>}
        /\ awaits' = [awaits EXCEPT ![p] = 0] /\ UNCHANGED <<sent, served>>
    BY <1>5 DEF McpPipe!Read, McpPipe!Done
  <2>2. /\ unread' \in Seq(Line) /\ Len(unread') = Len(unread) - 1 /\ Len(unread') \in Nat
        /\ \A i \in 1..Len(unread') : unread'[i] = unread[i + 1]
        /\ DOMAIN unread' = 1..Len(unread') /\ Head(unread) = unread[1]
    BY <1>0, <2>1, HeadTailProperties, LenProperties
  <2> DEFINE k == Head(unread).line
             a == awaits[p]
  <2>3. k = served - Len(unread) + 1 /\ k \in 1..served
    <3>1. Len(unread) >= 1 /\ 1 \in DOMAIN unread
      BY <1>0, <2>2
    <3>2. unread[1].line = served - Len(unread) + 1 /\ k = unread[1].line
      BY <1>0, <2>2, <3>1
    <3> HIDE DEF k
    <3> QED
      BY <1>0, <3>1, <3>2
  <2>4. a \in 1..Len(sent) /\ \A pair \in answered : pair[1] # a /\ pair[2] # k
    <3>1. a \in 1..Len(sent) /\ \A pair \in answered : pair[1] # a
      BY <1>0, <2>1
    <3>2. \A pair \in answered : pair[2] \in 1..(served - Len(unread))
      BY <1>0
    <3> QED
      BY <1>0, <2>3, <3>1, <3>2
  <2>5. answered' = answered \cup {<<a, k>>}
    BY <2>1
  <2>6. /\ awaits'[p] = 0 /\ \A q \in Clients \ {p} : awaits'[q] = awaits[q] /\ awaits[q] # a
    BY <1>0, <2>1
  <2> HIDE DEF k, a
  <2>7. answered' \in SUBSET ((1..Len(sent')) \X (1..served'))
    BY <1>0, <2>1, <2>3, <2>4, <2>5
  <2>8. \A n \in DOMAIN unread' : unread'[n].line = served' - Len(unread') + n
    <3> SUFFICES ASSUME NEW n \in DOMAIN unread' PROVE unread'[n].line = served' - Len(unread') + n
      OBVIOUS
    <3>1. n \in 1..Len(unread') /\ n + 1 \in 1..Len(unread) /\ unread'[n] = unread[n + 1]
      BY <1>0, <2>2
    <3>2. unread[n + 1].line = served - Len(unread) + (n + 1)
      BY <1>0, <3>1
    <3> QED
      BY <1>0, <2>1, <2>2, <3>1, <3>2
  <2>9. {pair[2] : pair \in answered'} = 1..(served' - Len(unread'))
    <3>1. {pair[2] : pair \in answered'} = {pair[2] : pair \in answered} \cup {k}
      <4>1. <<a, k>>[2] = k /\ <<a, k>> \in answered'
        BY <2>5
      <4>2. {pair[2] : pair \in answered'} \subseteq {pair[2] : pair \in answered} \cup {k}
        <5> SUFFICES ASSUME NEW pair \in answered'
                     PROVE  pair[2] \in {other[2] : other \in answered} \cup {k}
          OBVIOUS
        <5> QED
          BY <2>5, <4>1
      <4>3. {pair[2] : pair \in answered} \cup {k} \subseteq {pair[2] : pair \in answered'}
        <5>1. ASSUME NEW pair \in answered PROVE pair[2] \in {other[2] : other \in answered'}
          BY <2>5
        <5>2. k \in {other[2] : other \in answered'}
          BY <4>1
        <5> QED
          BY <5>1, <5>2
      <4> QED
        BY <4>2, <4>3
    <3>2. 1..(served' - Len(unread')) = (1..(served - Len(unread))) \cup {k}
      BY <1>0, <2>1, <2>2, <2>3
    <3> QED
      BY <1>0, <3>1, <3>2
  <2>10. \A x, y \in answered' : x[1] = y[1] <=> x[2] = y[2]
    BY <1>0, <2>4, <2>5
  <2>11. \A pair \in answered', q \in Clients : pair[1] # awaits'[q]
    <3> SUFFICES ASSUME NEW pair \in answered', NEW q \in Clients PROVE pair[1] # awaits'[q]
      OBVIOUS
    <3>1. pair \in answered \/ pair[1] = a
      BY <2>5
    <3>2. pair[1] # 0
      BY <1>0, <2>4, <3>1
    <3>3. CASE q = p
      BY <2>6, <3>2, <3>3
    <3>4. CASE q # p
      BY <1>0, <2>6, <3>1, <3>4
    <3> QED
      BY <3>3, <3>4
  <2>12. Len(unread') <= served'
    BY <1>0, <2>1, <2>2
  <2>13. /\ \A q \in Clients : awaits'[q] <= Len(sent')
         /\ \A q, r \in Clients : awaits'[q] # 0 /\ awaits'[q] = awaits'[r] => q = r
    BY <1>0, <2>1, <2>6
  <2> QED
    BY <2>7, <2>8, <2>9, <2>10, <2>11, <2>12, <2>13 DEF Paired, McpPipe!RepliesOnce
<1>6. ASSUME NEW p \in Clients, McpPipe!Close(p) PROVE Paired'
  <2>1. /\ sent' = <<>> /\ served' = 0 /\ unread' = <<>> /\ answered' = {}
        /\ awaits' = [q \in Clients |-> 0]
    BY <1>6 DEF McpPipe!Close
  <2>2. Len(sent') = 0 /\ Len(unread') = 0 /\ DOMAIN unread' = {}
    BY <2>1, EmptySeq
  <2>3. {pair[2] : pair \in answered'} = 1..(served' - Len(unread'))
    BY <2>1, <2>2
  <2> QED
    BY <2>1, <2>2, <2>3 DEF Paired, McpPipe!RepliesOnce
<1>7. CASE UNCHANGED McpPipe!vars
  <2>1. UNCHANGED <<sent, served, unread, answered, awaits>>
    BY <1>7 DEF McpPipe!vars
  <2> QED
    BY <2>1 DEF Paired, McpPipe!RepliesOnce
<1> QED
  BY <1>1, <1>2, <1>3, <1>4, <1>5, <1>6, <1>7 DEF McpPipe!Next

LEMMA PipeTypes == PipeIInv => McpPipe!TypeOK
<1> SUFFICES ASSUME PipeIInv PROVE McpPipe!TypeOK
  OBVIOUS
<1>1. /\ PipeTyped /\ Len(sent) \in Nat /\ MaxLines \in Nat /\ MaxLines >= 3
  BY LenProperties, PipeAssumption DEF PipeIInv, PipeTyped
<1>2. Len(sent) <= MaxLines
  <2>1. CASE connected
    <3>1. Len(sent) + Cardinality(Writers) <= MaxLines
      BY <2>1 DEF PipeIInv, RoomLeft
    <3>2. Cardinality(Writers) \in Nat
      BY WritersCount DEF Writers
    <3> QED
      BY <1>1, <3>1, <3>2
  <2>2. CASE ~connected
    <3>1. Len(sent) = 0 \/ Len(sent) = 1 \/ Len(sent) = 2 \/ Len(sent) = 3
      BY <2>2, Zenon DEF PipeIInv, OneShakes, Shaking
    <3>2. Len(sent) \in {0, 1, 2, 3}
      BY <3>1
    <3> QED
      BY <3>2, HandshakeFits
  <2> QED
    BY <2>1, <2>2
<1> QED
  BY <1>1, <1>2 DEF PipeTyped, McpPipe!TypeOK

(* A step of the run is a step of the pipe, or leaves it alone.            *)
LEMMA OneMoves == [PartsNext]_partsVars => [McpPipe!Next]_(McpPipe!vars)
BY DEF PartsNext, Others, partsVars, pipeVars, McpPipe!vars

(* However many tasks share the pipe of an MCP server and whatever waits   *)
(* they give up, no reply is lost or read twice, and no request gets two.  *)
THEOREM PipeSafe == PartsSpec => []PipeInv
<1>1. PartsInit => PipeIInv /\ Paired
  BY PipeStarts, PairsStart DEF PartsInit
<1>2. PipeIInv /\ Paired /\ [PartsNext]_partsVars => PipeIInv' /\ Paired'
  BY PipeSteps, PairsStep, OneMoves
<1>3. PipeIInv /\ Paired => PipeInv
  BY PipeTypes DEF Paired, PipeInv, McpPipe!PipeInv
<1> QED
  BY <1>1, <1>2, <1>3, PTL DEF PartsSpec

(***************************************************************************)
(* The choice of a provider.                                               *)
(***************************************************************************)
BalancerIInv ==
  /\ weights \in Seq([name : Names, weight : Nat])
  /\ counters \in [Names -> Nat]
  /\ Providers!SharesAreKept /\ Providers!FastestIsTaken

(* What is said of a provider in a list of weights is a natural number.    *)
LEMMA WeightIsNatural ==
  ASSUME weights \in Seq([name : Names, weight : Nat])
  PROVE  \A p : Providers!WeightOf(p) \in Nat
<1> SUFFICES ASSUME NEW p, Providers!Places(p) # {} PROVE Providers!WeightOf(p) \in Nat
  BY ProvidersAssumption DEF Providers!WeightOf, Providers!ProvidersBounds
<1> DEFINE S == Providers!Places(p)
           L == Len(weights)
           D == {L - n : n \in S}
<1>1. S \subseteq 1..L /\ L \in Nat
  BY DEF Providers!Places
<1>2. D \subseteq Nat /\ D # {}
  BY <1>1
<1>3. PICK d \in D : \A e \in D : ~(e < d)
  <2>1. PICK x \in D : \A y \in D : ~(<<y, x>> \in OpToRel(<, Nat))
    BY <1>2, NatLessThanWellFounded, WFMin
  <2> QED
    BY <1>2, <2>1, Zenon DEF OpToRel
<1>4. PICK m \in S : d = L - m
  OBVIOUS
<1>5. ASSUME NEW n \in S PROVE m >= n
  <2>1. ~(L - n < d)
    BY <1>3
  <2> HIDE DEF S, D
  <2>2. n \in 1..L /\ m \in 1..L
    BY <1>1
  <2> QED
    BY <1>1, <1>4, <2>1, <2>2
<1>6. Providers!Max(S) \in S
  BY <1>5 DEF Providers!Max
<1> HIDE DEF S
<1>7. \A n \in S : weights[n] \in [name : Names, weight : Nat]
  BY <1>1, ElementOfSeq
<1>8. weights[Providers!Max(S)].weight \in Nat
  BY <1>6, <1>7
<1> QED
  BY <1>8 DEF Providers!WeightOf, S

(* Once more of one factor is no less of the product.                      *)
LEMMA Products ==
  ASSUME NEW a \in Nat, NEW b \in Nat, NEW w \in Nat
  PROVE  /\ a * w \in Nat /\ (a + 1) * w = a * w + w
         /\ a <= b => a * w <= b * w
<1>1. a * w \in Nat /\ (a + 1) * w = a * w + w
  OBVIOUS
<1>2. ASSUME a <= b PROVE a * w <= b * w
  <2>1. PICK d \in Nat : b = a + d
    BY <1>2
  <2>2. b * w = a * w + d * w /\ d * w \in Nat
    BY <2>1
  <2> QED
    BY <1>1, <2>2
<1> QED
  BY <1>1, <1>2

(* Who is used least has not had more than its share.                      *)
LEMMA LeastUsedShare ==
  ASSUME BalancerIInv, NEW c \in Providers!CandidateLists, NEW i \in DOMAIN c,
         Providers!LeastUsed(c, i), NEW k \in DOMAIN c
  PROVE  /\ counters[c[i]] * Providers!WeightOf(c[k]) <= counters[c[k]] * Providers!WeightOf(c[i])
         /\ Providers!WeightOf(c[i]) = 0 => Providers!WeightOf(c[k]) = 0
<1> DEFINE p == c[i]  q == c[k]
           P == Providers!WeightOf(p)  Q == Providers!WeightOf(q)
<1>1. p \in Names /\ q \in Names
  BY DEF Providers!CandidateLists
<1>2. P \in Nat /\ Q \in Nat /\ counters[p] \in Nat /\ counters[q] \in Nat
  BY <1>1, WeightIsNatural DEF BalancerIInv
<1>3. ~Providers!LessUsed(q, p)
  BY DEF Providers!LeastUsed, Providers!FirstOf
<1>4. ~(Q > 0 /\ (P = 0 \/ counters[q] * P < counters[p] * Q))
  BY <1>3 DEF Providers!LessUsed
<1> HIDE DEF P, Q, p, q
<1>5. counters[p] * Q \in Nat /\ counters[q] * P \in Nat
  BY <1>2, Products
<1>6. CASE Q = 0
  <2>1. counters[p] * Q = 0
    BY <1>2, <1>6
  <2> QED
    BY <1>5, <1>6, <2>1 DEF P, Q, p, q
<1>7. CASE Q > 0
  BY <1>4, <1>5, <1>7 DEF P, Q, p, q
<1> QED
  BY <1>2, <1>6, <1>7

LEMMA SelectByWeightSafe ==
  ASSUME BalancerIInv, NEW c \in Providers!CandidateLists, Providers!SelectByWeight(c)
  PROVE  BalancerIInv'
<1>1. PICK i \in DOMAIN c :
        /\ Providers!LeastUsed(c, i)
        /\ chosen' = [from |-> "weights", name |-> c[i], among |-> Providers!Range(c)]
        /\ counters' = IF Len(c) = 1 THEN counters ELSE [counters EXCEPT ![c[i]] = @ + 1]
  BY DEF Providers!SelectByWeight
<1>2. /\ steady' => steady /\ Providers!Range(c) = Names
      /\ UNCHANGED <<weights, samples>>
  BY DEF Providers!SelectByWeight
<1>3. c[i] \in Names
  BY DEF Providers!CandidateLists
<1>4. \A p : Providers!WeightOf(p)' = Providers!WeightOf(p)
  BY <1>2 DEF Providers!WeightOf, Providers!Places
<1>5. counters' \in [Names -> Nat] /\ weights' \in Seq([name : Names, weight : Nat])
  BY <1>1, <1>2, <1>3 DEF BalancerIInv
<1>6. ASSUME steady', NEW p \in Names, NEW q \in Names, counters'[p] > 0
      PROVE  (counters'[p] - 1) * Providers!WeightOf(q) <= counters'[q] * Providers!WeightOf(p)
  <2> DEFINE P == Providers!WeightOf(p)  Q == Providers!WeightOf(q)
  <2>1. P \in Nat /\ Q \in Nat /\ counters[p] \in Nat /\ counters[q] \in Nat
        /\ counters'[p] \in Nat /\ counters'[q] \in Nat
    BY <1>5, WeightIsNatural DEF BalancerIInv
  <2>2. counters[p] > 0 => (counters[p] - 1) * Q <= counters[q] * P
    BY <1>2, <1>6 DEF BalancerIInv, Providers!SharesAreKept
  <2>3. PICK k \in DOMAIN c : c[k] = q
    BY <1>2, <1>6 DEF Providers!Range
  <2>4. p = c[i] => counters[p] * Q <= counters[q] * P
    BY <1>1, <2>3, LeastUsedShare
  <2>5. counters[q] <= counters'[q]
    BY <1>1, <1>3, <2>1 DEF BalancerIInv
  <2>6. counters'[p] = counters[p] \/ (p = c[i] /\ counters'[p] = counters[p] + 1)
    BY <1>1, <1>3, <2>1 DEF BalancerIInv
  <2> HIDE DEF P, Q
  <2>7. counters[q] * P <= counters'[q] * P /\ counters[q] * P \in Nat /\ counters'[q] * P \in Nat
    BY <2>1, <2>5, Products
  <2>8. CASE counters'[p] = counters[p]
    <3>1. counters[p] - 1 \in Nat /\ (counters[p] - 1) * Q \in Nat
      BY <1>6, <2>1, <2>8, Products
    <3> QED
      BY <1>6, <2>2, <2>7, <2>8, <3>1 DEF P, Q
  <2>9. CASE p = c[i] /\ counters'[p] = counters[p] + 1
    <3>1. counters'[p] - 1 = counters[p] /\ counters[p] * Q \in Nat
      BY <2>1, <2>9, Products
    <3> QED
      BY <2>4, <2>7, <2>9, <3>1 DEF P, Q
  <2> QED
    BY <2>6, <2>8, <2>9
<1>7. Providers!WeightOf(c[i]) = 0 => \A p \in Providers!Range(c) : Providers!WeightOf(p) = 0
  BY <1>1, LeastUsedShare DEF Providers!Range
<1>8. Providers!SharesAreKept'
  BY <1>1, <1>4, <1>6, <1>7 DEF Providers!SharesAreKept
<1>9. Providers!FastestIsTaken'
  BY <1>1 DEF Providers!FastestIsTaken
<1> QED
  BY <1>5, <1>8, <1>9 DEF BalancerIInv

LEMMA SelectByLatencySafe ==
  ASSUME BalancerIInv, NEW c \in Providers!CandidateLists, Providers!SelectByLatency(c)
  PROVE  BalancerIInv'
<1>1. PICK i \in DOMAIN c :
        /\ Providers!Fastest(c, i)
        /\ chosen' = [from |-> "latency", name |-> c[i], among |-> Providers!Range(c)]
  BY DEF Providers!SelectByLatency
<1>2. UNCHANGED <<weights, counters, samples, steady>>
  BY DEF Providers!SelectByLatency
<1>3. \A p : /\ Providers!WeightOf(p)' = Providers!WeightOf(p)
             /\ Providers!Measured(p)' = Providers!Measured(p)
             /\ Providers!Median2(p)' = Providers!Median2(p)
  BY <1>2 DEF Providers!WeightOf, Providers!Places, Providers!Measured, Providers!Median2
<1>4. Providers!SharesAreKept'
  BY <1>1, <1>2, <1>3 DEF BalancerIInv, Providers!SharesAreKept
<1>5. ASSUME NEW k \in DOMAIN c, Providers!Measured(c[k])
      PROVE  Providers!Measured(c[i]) /\ Providers!Median2(c[i]) <= Providers!Median2(c[k])
  BY <1>1, <1>5, Zenon DEF Providers!Fastest, Providers!FirstOf
<1>6. Providers!FastestIsTaken'
  BY <1>1, <1>3, <1>5 DEF Providers!FastestIsTaken, Providers!Range
<1> QED
  BY <1>2, <1>4, <1>6 DEF BalancerIInv

LEMMA BalancerSafe ==
  ASSUME BalancerIInv, Providers!WeightNext \/ Providers!LatencyNext
  PROVE  BalancerIInv'
<1>1. ASSUME NEW c \in Providers!CandidateLists, Providers!SelectByWeight(c) PROVE BalancerIInv'
  BY <1>1, SelectByWeightSafe
<1>2. ASSUME NEW c \in Providers!CandidateLists, Providers!SelectByLatency(c) PROVE BalancerIInv'
  BY <1>2, SelectByLatencySafe
<1>3. ASSUME NEW w \in Weightings, Providers!SetWeights(w) PROVE BalancerIInv'
  BY <1>3, ProvidersAssumption
  DEF BalancerIInv, Providers!SetWeights, Providers!ProvidersBounds, Providers!SharesAreKept,
      Providers!FastestIsTaken, Providers!NoChoice
<1>4. ASSUME NEW p \in Names, NEW l \in Latencies, Providers!RecordLatency(p, l) PROVE BalancerIInv'
  <2>1. UNCHANGED <<weights, counters, steady>> /\ chosen' = Providers!NoChoice
    BY <1>4 DEF Providers!RecordLatency
  <2>2. \A q : Providers!WeightOf(q)' = Providers!WeightOf(q)
    BY <2>1 DEF Providers!WeightOf, Providers!Places
  <2> QED
    BY <2>1, <2>2
    DEF BalancerIInv, Providers!SharesAreKept, Providers!FastestIsTaken, Providers!NoChoice
<1> QED
  BY <1>1, <1>2, <1>3, <1>4 DEF Providers!WeightNext, Providers!LatencyNext

(***************************************************************************)
(* The registry of providers and the closing of the gateway.               *)
(***************************************************************************)
Entries == [id : Ids, object : 1..objects]
IdsDiffer == \A n, k \in DOMAIN providers : providers[n].id = providers[k].id => n = k

(* A mapping that was not made too early leads to a provider.              *)
MappingsLead ==
  \A m \in DOMAIN mapping \ early : \E n \in DOMAIN providers : providers[n].id = mapping[m]

(* What is still to be closed is looked for under an id it has.            *)
CloseAccounted ==
  \A n \in DOMAIN providers : providers[n].object \in closing.from =>
      /\ closing.at = "checking" => providers[n].id \in closing.ids
      /\ closing.at = "closing" => providers[n].id \in closing.got \/ providers[n].object \in closed
      /\ closing.at = "closed" => providers[n].object \in closed

ClosingTyped ==
  /\ closing \in [at : {"idle", "checking", "closing", "closed"}, ids : SUBSET Ids,
                  from : SUBSET (1..objects), got : SUBSET Ids, answered : SUBSET Ids]
  /\ closing.at = "idle" => closing.from = {}
  /\ closing.at = "checking" => closing.answered \subseteq closing.got /\ closing.got \subseteq closing.ids

RegistryIInv ==
  /\ objects \in Nat /\ providers \in Seq(Entries) /\ IdsDiffer
  /\ MappingsLead /\ ClosingTyped /\ CloseAccounted

(* The registry after an entry has changed.                                *)
LEMMA RegisterSafe ==
  ASSUME RegistryIInv, NEW id \in Ids, Providers!Register(id)
  PROVE  RegistryIInv'
<1> DEFINE e == [id |-> id, object |-> objects + 1]
<1>1. objects' = objects + 1 /\ UNCHANGED <<mapping, early, closing, closed>>
  BY DEF Providers!Register
<1>2. objects \in Nat /\ providers \in Seq(Entries) /\ e \in Entries' /\ Entries \subseteq Entries'
  BY <1>1 DEF RegistryIInv, Entries
<1>3. providers \in Seq(Entries')
  BY <1>2
<1>4. closing.from \subseteq 1..objects /\ objects + 1 \notin closing.from
  BY <1>2 DEF RegistryIInv, ClosingTyped
<1>5. CASE id \notin Providers!Registered /\ providers' = Append(providers, e)
  <2>1. /\ providers' \in Seq(Entries') /\ DOMAIN providers' = 1..Len(providers) + 1
        /\ DOMAIN providers = 1..Len(providers) /\ Len(providers) \in Nat
        /\ \A n \in DOMAIN providers : providers'[n] = providers[n]
        /\ providers'[Len(providers) + 1] = e
    BY <1>2, <1>3, <1>5
  <2>2. \A n \in DOMAIN providers : providers[n].id # id
    BY <1>5 DEF Providers!Registered
  <2>3. \A n \in DOMAIN providers' : n \in DOMAIN providers \/ n = Len(providers) + 1
    BY <2>1
  <2> HIDE DEF e
  <2>4. e.id = id /\ e.object = objects + 1
    BY DEF e
  <2>5. IdsDiffer'
    BY <2>1, <2>2, <2>3, <2>4 DEF RegistryIInv, IdsDiffer
  <2>6. MappingsLead'
    BY <1>1, <2>1 DEF RegistryIInv, MappingsLead
  <2>7. CloseAccounted'
    BY <1>1, <1>4, <2>1, <2>3, <2>4 DEF RegistryIInv, CloseAccounted
  <2> QED
    BY <1>1, <1>2, <2>1, <2>5, <2>6, <2>7 DEF RegistryIInv, ClosingTyped
<1>6. ASSUME NEW k \in DOMAIN providers, providers[k].id = id, providers' = [providers EXCEPT ![k] = e]
      PROVE  RegistryIInv'
  <2> HIDE DEF e
  <2>1. /\ providers' \in Seq(Entries') /\ DOMAIN providers' = DOMAIN providers
        /\ \A n \in DOMAIN providers : n # k => providers'[n] = providers[n]
        /\ providers'[k] = e
    BY <1>2, <1>3, <1>6
  <2>2. e.id = id /\ e.object = objects + 1
    BY DEF e
  <2>3. \A n \in DOMAIN providers : providers'[n].id = providers[n].id
    BY <1>6, <2>1, <2>2
  <2>4. IdsDiffer' /\ MappingsLead'
    BY <1>1, <2>1, <2>3 DEF RegistryIInv, IdsDiffer, MappingsLead
  <2>5. CloseAccounted'
    BY <1>1, <1>4, <2>1, <2>2 DEF RegistryIInv, CloseAccounted
  <2> QED
    BY <1>1, <1>2, <2>1, <2>4, <2>5 DEF RegistryIInv, ClosingTyped
<1> QED
  BY <1>5, <1>6 DEF Providers!Register

LEMMA UnregisterSafe ==
  ASSUME RegistryIInv, NEW id \in Ids, Providers!Unregister(id)
  PROVE  RegistryIInv'
<1>1. PICK k \in DOMAIN providers :
        providers[k].id = id /\ providers' = Providers!RemoveAt(providers, k)
  BY DEF Providers!Unregister
<1>2. /\ mapping' = [m \in {x \in DOMAIN mapping : mapping[x] # id} |-> mapping[m]]
      /\ UNCHANGED <<early, objects, closing, closed>>
  BY DEF Providers!Unregister
<1>3. providers \in Seq(Entries) /\ Entries' = Entries
  BY <1>2 DEF RegistryIInv, Entries
<1>4. /\ providers' \in Seq(Entries)
      /\ DOMAIN providers' = 1..Len(providers) - 1 /\ Len(providers) \in Nat
      /\ \A n \in DOMAIN providers' : providers'[n] = IF n < k THEN providers[n] ELSE providers[n + 1]
  <2> DEFINE a == SubSeq(providers, 1, k - 1)
             b == SubSeq(providers, k + 1, Len(providers))
  <2>1. k \in 1..Len(providers) /\ Len(providers) \in Nat
    BY <1>3
  <2>2. a \in Seq(Entries) /\ Len(a) = k - 1 /\ \A n \in 1..k - 1 : a[n] = providers[n]
    BY <1>3, <2>1, SubSeqProperties
  <2>3. b \in Seq(Entries) /\ Len(b) = Len(providers) - k /\ \A n \in 1..Len(providers) - k : b[n] = providers[k + n]
    BY <1>3, <2>1, SubSeqProperties
  <2>4. providers' = a \o b
    BY <1>1 DEF Providers!RemoveAt
  <2> HIDE DEF a, b
  <2> QED
    BY <2>1, <2>2, <2>3, <2>4
<1>5. ASSUME NEW n \in DOMAIN providers'
      PROVE  \E j \in DOMAIN providers : providers'[n] = providers[j] /\ j = IF n < k THEN n ELSE n + 1
  BY <1>1, <1>3, <1>4
<1>6. ASSUME NEW n \in DOMAIN providers, providers[n].id # id
      PROVE  \E j \in DOMAIN providers' : providers'[j] = providers[n]
  <2>1. n \in 1..Len(providers) /\ k \in 1..Len(providers) /\ n # k
    BY <1>1, <1>3, <1>6
  <2>2. CASE n < k
    BY <1>4, <2>1, <2>2
  <2>3. CASE n > k
    <3>1. n - 1 \in DOMAIN providers' /\ ~(n - 1 < k) /\ (n - 1) + 1 = n
      BY <1>4, <2>1, <2>3
    <3> QED
      BY <1>4, <3>1
  <2> QED
    BY <2>1, <2>2, <2>3
<1>7. IdsDiffer'
  <2> SUFFICES ASSUME NEW n \in DOMAIN providers', NEW j \in DOMAIN providers',
                      providers'[n].id = providers'[j].id
               PROVE  n = j
    BY DEF IdsDiffer
  <2>1. PICK n1 \in DOMAIN providers : providers'[n] = providers[n1] /\ n1 = IF n < k THEN n ELSE n + 1
    BY <1>5
  <2>2. PICK j1 \in DOMAIN providers : providers'[j] = providers[j1] /\ j1 = IF j < k THEN j ELSE j + 1
    BY <1>5
  <2>3. n1 = j1
    BY <2>1, <2>2 DEF RegistryIInv, IdsDiffer
  <2>4. n \in Nat /\ j \in Nat /\ k \in Nat
    BY <1>3, <1>4
  <2> QED
    BY <2>1, <2>2, <2>3, <2>4
<1>8. MappingsLead'
  BY <1>2, <1>6 DEF RegistryIInv, MappingsLead
<1>9. CloseAccounted'
  BY <1>2, <1>5 DEF RegistryIInv, CloseAccounted
<1> QED
  BY <1>2, <1>3, <1>4, <1>7, <1>8, <1>9 DEF RegistryIInv, ClosingTyped

LEMMA MapModelSafe ==
  ASSUME RegistryIInv, NEW m \in Models, NEW id \in Ids, Providers!MapModel(m, id)
  PROVE  RegistryIInv'
<1>1. /\ mapping' = [x \in DOMAIN mapping \cup {m} |-> IF x = m THEN id ELSE mapping[x]]
      /\ early' = IF id \in Providers!Registered THEN early \ {m} ELSE early \cup {m}
      /\ UNCHANGED <<providers, objects, closing, closed>>
  BY DEF Providers!MapModel
<1>2. MappingsLead'
  BY <1>1 DEF RegistryIInv, MappingsLead, Providers!Registered
<1> QED
  BY <1>1, <1>2 DEF RegistryIInv, IdsDiffer, ClosingTyped, CloseAccounted, Entries

(* The steps of the closing leave the registry as it is.                   *)
LEMMA ClosingSafe ==
  ASSUME RegistryIInv, NEW id,
         \/ id \in Ids /\ (Providers!CheckOne(id) \/ Providers!AnswerOne(id) \/ Providers!CloseOne(id))
         \/ Providers!CloseBegins \/ Providers!CloseStarts \/ Providers!CloseEnds
  PROVE  RegistryIInv'
<1>1. UNCHANGED <<providers, mapping, early, objects>>
  BY DEF Providers!CheckOne, Providers!AnswerOne, Providers!CloseOne, Providers!CloseBegins,
         Providers!CloseStarts, Providers!CloseEnds
<1>2. ClosingTyped
  BY DEF RegistryIInv
<1>3. ClosingTyped' /\ CloseAccounted'
  <2>1. CASE id \in Ids /\ Providers!CheckOne(id)
    BY <1>1, <1>2, <2>1 DEF RegistryIInv, Providers!CheckOne, ClosingTyped, CloseAccounted
  <2>2. CASE id \in Ids /\ Providers!AnswerOne(id)
    BY <1>1, <1>2, <2>2 DEF RegistryIInv, Providers!AnswerOne, ClosingTyped, CloseAccounted
  <2>3. CASE id \in Ids /\ Providers!CloseOne(id)
    BY <1>1, <1>2, <2>3
    DEF RegistryIInv, Providers!CloseOne, ClosingTyped, CloseAccounted, Providers!ObjectsOf
  <2>4. CASE Providers!CloseBegins
    <3>1. Providers!Registered \in SUBSET Ids /\ Providers!ObjectsOf(Providers!Registered) \in SUBSET (1..objects)
      <4>1. \A n \in DOMAIN providers : providers[n].id \in Ids /\ providers[n].object \in 1..objects
        <5>1. \A n \in 1..Len(providers) : providers[n] \in Entries
          BY ElementOfSeq DEF RegistryIInv
        <5>2. DOMAIN providers = 1..Len(providers)
          BY DEF RegistryIInv
        <5> QED
          BY <5>1, <5>2 DEF Entries
      <4> QED
        BY <4>1 DEF Providers!Registered, Providers!ObjectsOf
    <3>2. \A n \in DOMAIN providers : providers[n].id \in Providers!Registered
      BY DEF Providers!Registered
    <3>3. closing' = [at |-> "checking", ids |-> Providers!Registered,
                      from |-> Providers!ObjectsOf(Providers!Registered), got |-> {}, answered |-> {}]
      BY <2>4 DEF Providers!CloseBegins, Providers!NoCheck
    <3> QED
      BY <1>1, <3>1, <3>2, <3>3 DEF ClosingTyped, CloseAccounted
  <2>5. CASE Providers!CloseStarts
    BY <1>1, <1>2, <2>5 DEF RegistryIInv, Providers!CloseStarts, ClosingTyped, CloseAccounted
  <2>6. CASE Providers!CloseEnds
    BY <1>1, <1>2, <2>6 DEF RegistryIInv, Providers!CloseEnds, ClosingTyped, CloseAccounted
  <2> QED
    BY <2>1, <2>2, <2>3, <2>4, <2>5, <2>6
<1> QED
  BY <1>1, <1>3 DEF RegistryIInv, IdsDiffer, MappingsLead, Entries

LEMMA RegistrySafe ==
  ASSUME RegistryIInv, Providers!RegistryNext
  PROVE  RegistryIInv'
<1>1. ASSUME NEW id \in Ids,
             \/ Providers!Register(id) \/ Providers!Unregister(id)
             \/ \E m \in Models : Providers!MapModel(m, id)
      PROVE  RegistryIInv'
  BY <1>1, RegisterSafe, UnregisterSafe, MapModelSafe
<1>2. ASSUME NEW id, \/ id \in Ids /\ (Providers!CheckOne(id) \/ Providers!AnswerOne(id) \/ Providers!CloseOne(id))
                    \/ Providers!CloseBegins \/ Providers!CloseStarts \/ Providers!CloseEnds
      PROVE  RegistryIInv'
  BY <1>2, ClosingSafe
<1> QED
  BY <1>1, <1>2 DEF Providers!RegistryNext

LEMMA RegistryKeeps ==
  ASSUME RegistryIInv
  PROVE  Providers!ModelsAreServed /\ Providers!CloseReachesAll
<1>1. Providers!ModelsAreServed
  <2> SUFFICES ASSUME providers # <<>>, NEW m \in Models \ early, NEW told \in SUBSET Ids
               PROVE  Providers!ProviderFor(m, told) # {}
    BY DEF Providers!ModelsAreServed
  <2>1. CASE m \in DOMAIN mapping
    <3>1. PICK n \in DOMAIN providers : providers[n].id = mapping[m]
      BY <2>1 DEF RegistryIInv, MappingsLead
    <3> QED
      BY <2>1, <3>1 DEF Providers!ProviderFor, Providers!ObjectsOf
  <2>2. CASE m \notin DOMAIN mapping /\ told \cap Providers!Registered # {}
    <3>1. PICK n \in DOMAIN providers : providers[n].id \in told
      BY <2>2 DEF Providers!Registered
    <3>2. providers[n].object \in Providers!ObjectsOf(told)
      BY <3>1 DEF Providers!ObjectsOf
    <3> QED
      BY <2>2, <3>2 DEF Providers!ProviderFor
  <2>3. CASE m \notin DOMAIN mapping /\ told \cap Providers!Registered = {}
    BY <2>3 DEF Providers!ProviderFor
  <2> QED
    BY <2>1, <2>2, <2>3
<1>2. Providers!CloseReachesAll
  BY DEF Providers!CloseReachesAll, RegistryIInv, CloseAccounted, Providers!ObjectsOf
<1> QED
  BY <1>1, <1>2

(***************************************************************************)
(* The adapter of a provider.                                              *)
(***************************************************************************)
Kept(n) == [k \in 1..n |-> k]
StreamStates == {"idle", "open", "done", "failed", "left"}
ChatStates == {"idle", "asked", "returned", "broken", "failed", "cancelled"}

(* A stream keeps, for each call that it has heard of, all the pieces that *)
(* were sent if it finds them.                                             *)
StreamTyped ==
  /\ stream = [at |-> stream.at, ids |-> stream.ids, sent |-> stream.sent,
               kept |-> stream.kept, calls |-> stream.calls]
  /\ stream.at \in StreamStates
  /\ stream.sent \in Seq(Nat) /\ stream.kept \in Seq(Seq(Nat))
  /\ Len(stream.kept) = Len(stream.sent)
  /\ adapter.finds = "index" => \A i \in 1..Len(stream.sent) : stream.kept[i] = Kept(stream.sent[i])

ChatTyped ==
  /\ chat = [at |-> chat.at, tools |-> chat.tools, answer |-> chat.answer, response |-> chat.response]
  /\ chat.at \in ChatStates /\ chat.tools \in BOOLEAN

TotalsTyped ==
  /\ totals \in [requests : Nat, failures : Nat]
  /\ streams \in Nat /\ chats \in Nat /\ abandoned \in Nat

AdapterIInv ==
  /\ adapter \in Providers!Adapters /\ TotalsTyped /\ Providers!RequestsAreCounted
  /\ StreamTyped /\ Providers!CallsArePutTogether
  /\ ChatTyped /\ Providers!ChatsAgree

(* What a request leaves in the totals when its stream goes from one state *)
(* to another, or its chat.                                                *)
LEMMA Counting ==
  ASSUME TotalsTyped, Providers!RequestsAreCounted,
         \/ chat' = chat /\ chats' = chats
            /\ \/ /\ streams' = streams + 1 /\ stream.at # "open" /\ stream'.at = "open"
                  /\ UNCHANGED <<totals, abandoned>>
               \/ /\ stream'.at = stream.at /\ UNCHANGED <<streams, totals, abandoned>>
               \/ /\ stream.at = "open" /\ stream'.at # "open" /\ streams' = streams
                  /\ \/ \E success \in BOOLEAN : Providers!RecordRequest(success) /\ UNCHANGED abandoned
                     \/ UNCHANGED totals /\ abandoned' = abandoned + 1
         \/ stream' = stream /\ streams' = streams
            /\ \/ /\ chats' = chats + 1 /\ chat.at # "asked" /\ chat'.at = "asked"
                  /\ UNCHANGED <<totals, abandoned>>
               \/ /\ chat.at = "asked" /\ chat'.at # "asked" /\ chats' = chats
                  /\ \/ \E success \in BOOLEAN : Providers!RecordRequest(success) /\ UNCHANGED abandoned
                     \/ UNCHANGED totals /\ abandoned' = abandoned + 1
  PROVE  TotalsTyped' /\ Providers!RequestsAreCounted'
<1> DEFINE one == IF stream.at = "open" THEN 1 ELSE 0
           two == IF chat.at = "asked" THEN 1 ELSE 0
<1>1. totals' = totals \/ \E success \in BOOLEAN : Providers!RecordRequest(success)
  OBVIOUS
<1>2. /\ totals' \in [requests : Nat, failures : Nat]
      /\ totals' # totals => totals'.requests = totals.requests + 1
      /\ totals.failures <= totals.requests => totals'.failures <= totals'.requests
  BY <1>1 DEF TotalsTyped, Providers!RecordRequest
<1>3. TotalsTyped'
  BY <1>2 DEF TotalsTyped
<1>4. \A success \in BOOLEAN : Providers!RecordRequest(success) => totals'.requests = totals.requests + 1
  BY DEF Providers!RecordRequest
<1>5. streams' + chats' = totals'.requests + abandoned' + one' + two'
  <2>1. /\ totals.requests \in Nat /\ totals'.requests \in Nat /\ abandoned \in Nat /\ streams \in Nat
        /\ chats \in Nat /\ streams + chats = totals.requests + abandoned + one + two
    BY <1>2 DEF TotalsTyped, Providers!RequestsAreCounted
  <2>2. CASE chat' = chat /\ chats' = chats
    BY <1>4, <2>1, <2>2
  <2>3. CASE stream' = stream /\ streams' = streams
    BY <1>4, <2>1, <2>3
  <2> QED
    BY <2>2, <2>3
<1> QED
  BY <1>2, <1>3, <1>5 DEF Providers!RequestsAreCounted

(* The length of a list that is given by its places.                       *)
LEMMA LengthOf ==
  ASSUME NEW f, NEW n \in Nat, f = [i \in 1..n |-> f[i]]
  PROVE  Len(f) = n /\ DOMAIN f = 1..n
<1> DEFINE S == {f[i] : i \in 1..n}
<1>1. f \in Seq(S)
  BY \A i \in 1..n : f[i] \in S
<1> QED
  BY <1>1

(* The adapters are told apart by their names.                             *)
LEMMA NamesDiffer ==
  /\ adapter = Providers!Anthropic =>
        /\ adapter \notin {Providers!OpenAI, Providers!DeepSeek, Providers!VLLM}
        /\ adapter \notin Providers!LlamaCpp
<1>1. \A l \in Providers!LlamaCpp : l.name # "anthropic"
  <2>1. \A n \in {"llama.cpp", "llama.cpp with tools"} : [name |-> n, finds |-> "no calls"].name # "anthropic"
    OBVIOUS
  <2> QED
    BY <2>1 DEF Providers!LlamaCpp
<1>2. /\ Providers!Anthropic.name = "anthropic" /\ Providers!OpenAI.name = "openai"
      /\ Providers!DeepSeek.name = "deepseek" /\ Providers!VLLM.name = "vllm"
  BY DEF Providers!Anthropic, Providers!OpenAI, Providers!DeepSeek, Providers!VLLM
<1> QED
  BY <1>1, <1>2

LEMMA ChatStepSafe ==
  ASSUME AdapterIInv,
         \/ \E wanted \in BOOLEAN : Providers!Ask(wanted)
         \/ \E answer \in Providers!Answers(chat.tools /\ Providers!SendsTools) : Providers!Answered(answer)
         \/ Providers!AskFails \/ Providers!AskCancelled
  PROVE  AdapterIInv'
<1>1. UNCHANGED <<adapter, stream, streams>>
  BY DEF Providers!Ask, Providers!Answered, Providers!AskFails, Providers!AskCancelled
<1>2. StreamTyped' /\ Providers!CallsArePutTogether'
  BY <1>1 DEF AdapterIInv, StreamTyped, Providers!CallsArePutTogether
<1>3. ChatTyped' /\ TotalsTyped' /\ Providers!RequestsAreCounted' /\ Providers!ChatsAgree'
  <2>1. ASSUME NEW wanted \in BOOLEAN, Providers!Ask(wanted)
        PROVE  ChatTyped' /\ TotalsTyped' /\ Providers!RequestsAreCounted' /\ Providers!ChatsAgree'
    <3>1. /\ chat' = [at |-> "asked", tools |-> wanted, answer |-> Providers!NoAnswer,
                      response |-> Providers!NoResponse]
          /\ chat.at # "asked" /\ chats' = chats + 1 /\ UNCHANGED <<totals, abandoned>>
      BY <2>1 DEF Providers!Ask, Providers!NoChat
    <3>2. chat'.at = "asked"
      BY <3>1
    <3>3. ChatTyped' /\ Providers!ChatsAgree'
      BY <3>1 DEF ChatTyped, ChatStates, Providers!ChatsAgree
    <3> QED
      BY <1>1, <3>1, <3>2, <3>3, Counting DEF AdapterIInv
  <2>2. ASSUME NEW answer \in Providers!Answers(chat.tools /\ Providers!SendsTools), Providers!Answered(answer)
        PROVE  ChatTyped' /\ TotalsTyped' /\ Providers!RequestsAreCounted' /\ Providers!ChatsAgree'
    <3>1. /\ chat.at = "asked" /\ Providers!RecordRequest(TRUE) /\ UNCHANGED <<chats, abandoned>>
          /\ \/ chat' = [chat EXCEPT !.at = "broken", !.answer = answer]
             \/ \E response \in Providers!Responses(answer) :
                  chat' = [chat EXCEPT !.at = "returned", !.answer = answer, !.response = response]
      BY <2>2 DEF Providers!Answered
    <3>2. CASE chat' = [chat EXCEPT !.at = "broken", !.answer = answer]
      <4>1. ChatTyped' /\ chat'.at = "broken" /\ Providers!ChatsAgree'
        BY <3>2 DEF AdapterIInv, ChatTyped, ChatStates, Providers!ChatsAgree
      <4> QED
        BY <1>1, <3>1, <4>1, Counting DEF AdapterIInv
    <3>3. ASSUME NEW response \in Providers!Responses(answer),
                 chat' = [chat EXCEPT !.at = "returned", !.answer = answer, !.response = response]
          PROVE  ChatTyped' /\ TotalsTyped' /\ Providers!RequestsAreCounted' /\ Providers!ChatsAgree'
      <4>1. /\ chat' = [at |-> "returned", tools |-> chat.tools, answer |-> answer, response |-> response]
            /\ chat.tools \in BOOLEAN
        BY <3>3 DEF AdapterIInv, ChatTyped
      <4>2. ChatTyped' /\ chat'.at = "returned"
        BY <4>1 DEF ChatTyped, ChatStates
      <4>3. /\ response.calls # <<>> => chat.tools
            /\ ~answer.empty => response.calls = answer.calls
            /\ response.finish \notin {"", "end_turn", "tool_use"}
            /\ response.finish = "tool_calls" <=> answer.ends \in {"tool_calls", "tool_use"}
        <5>1. /\ answer.calls # <<>> => chat.tools /\ Providers!SendsTools
              /\ answer.ends \in Providers!Reasons
          BY DEF Providers!Answers
        <5>2. CASE adapter = Providers!Anthropic
          <6>1. response \in Providers!AnthropicChat(answer)
            BY <5>2, NamesDiffer DEF Providers!Responses
          <6>2. /\ response.calls = IF answer.empty THEN <<>> ELSE answer.calls
                /\ response.finish = IF answer.ends = "end_turn" THEN "stop"
                                     ELSE IF answer.ends = "tool_use" THEN "tool_calls"
                                          ELSE Providers!Finish(answer.ends)
            BY <6>1 DEF Providers!AnthropicChat
          <6>3. answer.ends \in {"", "end_turn", "tool_use", "max_tokens"}
            BY <5>1, <5>2 DEF Providers!Reasons
          <6> QED
            BY <5>1, <6>2, <6>3 DEF Providers!Finish
        <5>3. CASE adapter # Providers!Anthropic
          <6>1. answer.ends \in {"", "stop", "tool_calls", "length"}
            BY <5>1, <5>3 DEF Providers!Reasons
          <6>2. \/ response \in Providers!FirstChoice(answer)
                \/ response \in Providers!LlamaCppChat(answer)
            BY <5>3
            DEF AdapterIInv, Providers!Adapters, Providers!Responses, Providers!OpenAIChat,
                Providers!DeepSeekChat, Providers!VLLMChat
          <6>3. ASSUME NEW r \in Providers!FirstChoice(answer)
                PROVE  /\ r.calls = answer.calls /\ r.finish = Providers!Finish(answer.ends)
                       /\ Providers!Finish(answer.ends) \notin {"", "end_turn", "tool_use"}
                       /\ Providers!Finish(answer.ends) = "tool_calls" <=> answer.ends \in {"tool_calls", "tool_use"}
            <7>1. r = [calls |-> answer.calls, finish |-> Providers!Finish(answer.ends)]
              BY DEF Providers!FirstChoice
            <7> QED
              BY <6>1, <7>1 DEF Providers!Finish
          <6>4. CASE response \in Providers!FirstChoice(answer)
            BY <5>1, <6>3, <6>4
          <6>5. CASE response \in Providers!LlamaCppChat(answer)
            <7>1. PICK r \in Providers!FirstChoice(answer) :
                    response = [calls |-> IF Providers!SendsTools THEN r.calls ELSE <<>>, finish |-> r.finish]
              BY <6>5 DEF Providers!LlamaCppChat
            <7>2. /\ response.finish = Providers!Finish(answer.ends)
                  /\ response.calls = IF Providers!SendsTools THEN answer.calls ELSE <<>>
              BY <6>3, <7>1
            <7> QED
              BY <5>1, <6>3, <7>2
          <6> QED
            BY <6>2, <6>4, <6>5
        <5> QED
          BY <5>2, <5>3
      <4>4. Providers!ChatsAgree'
        BY <4>1, <4>3 DEF Providers!ChatsAgree
      <4> QED
        BY <1>1, <3>1, <4>2, <4>4, Counting DEF AdapterIInv
    <3> QED
      BY <3>1, <3>2, <3>3
  <2>3. CASE Providers!AskFails \/ Providers!AskCancelled
    <3>1. /\ chat.at = "asked" /\ chats' = chats
          /\ \E a \in {"failed", "cancelled"} : chat' = [chat EXCEPT !.at = a]
          /\ \/ Providers!RecordRequest(FALSE) /\ UNCHANGED abandoned
             \/ UNCHANGED totals /\ abandoned' = abandoned + 1
      BY <2>3 DEF Providers!AskFails, Providers!AskCancelled
    <3>2. ChatTyped' /\ chat'.at \in {"failed", "cancelled"} /\ Providers!ChatsAgree'
      BY <3>1 DEF AdapterIInv, ChatTyped, ChatStates, Providers!ChatsAgree
    <3> QED
      BY <1>1, <3>1, <3>2, Counting DEF AdapterIInv
  <2> QED
    BY <2>1, <2>2, <2>3
<1> QED
  BY <1>1, <1>2, <1>3 DEF AdapterIInv

LEMMA StreamStepSafe ==
  ASSUME AdapterIInv,
         \/ Providers!Begin \/ Providers!CallStarts \/ Providers!StreamEnds
         \/ Providers!StreamFails \/ Providers!ConsumerLeaves
         \/ \E i \in DOMAIN stream.sent : Providers!Fragment(i)
  PROVE  AdapterIInv'
<1>1. UNCHANGED <<adapter, chat, chats>>
  BY DEF Providers!Begin, Providers!CallStarts, Providers!StreamEnds, Providers!StreamFails,
         Providers!ConsumerLeaves, Providers!Fragment, Providers!chatVars
<1>2. ChatTyped' /\ Providers!ChatsAgree'
  BY <1>1 DEF AdapterIInv, ChatTyped, Providers!ChatsAgree
<1> DEFINE Ok == TotalsTyped' /\ Providers!RequestsAreCounted' /\ StreamTyped' /\ Providers!CallsArePutTogether'
<1> SUFFICES Ok
  BY <1>1, <1>2 DEF AdapterIInv
<1>3. StreamTyped
  BY DEF AdapterIInv
<1>4. CASE Providers!Begin
  <2>1. PICK ids \in CallIds :
          stream' = [at |-> "open", ids |-> ids, sent |-> <<>>, kept |-> <<>>, calls |-> <<>>]
    BY <1>4 DEF Providers!Begin, Providers!NoStream
  <2>2. stream.at # "open" /\ streams' = streams + 1 /\ UNCHANGED <<totals, abandoned>>
    BY <1>4 DEF Providers!Begin
  <2>3. StreamTyped' /\ Providers!CallsArePutTogether' /\ stream'.at = "open"
    BY <2>1 DEF StreamTyped, StreamStates, Providers!CallsArePutTogether
  <2> QED
    BY <1>1, <2>2, <2>3, Counting DEF AdapterIInv
<1>5. CASE Providers!CallStarts
  <2>1. /\ stream' = [at |-> stream.at, ids |-> stream.ids, sent |-> Append(stream.sent, 0),
                      kept |-> Append(stream.kept, <<>>), calls |-> stream.calls]
        /\ stream.at = "open" /\ UNCHANGED <<streams, totals, abandoned>>
    BY <1>3, <1>5 DEF Providers!CallStarts, StreamTyped
  <2>2. /\ stream'.at = "open" /\ stream'.sent = Append(stream.sent, 0) /\ stream'.kept = Append(stream.kept, <<>>)
        /\ stream' = [at |-> stream'.at, ids |-> stream'.ids, sent |-> stream'.sent,
                      kept |-> stream'.kept, calls |-> stream'.calls]
    BY <2>1
  <2>3. <<>> = Kept(0) /\ <<>> \in Seq(Nat)
    BY DEF Kept
  <2>4. /\ stream'.sent \in Seq(Nat) /\ stream'.kept \in Seq(Seq(Nat))
        /\ Len(stream'.kept) = Len(stream'.sent) /\ Len(stream'.sent) = Len(stream.sent) + 1
    BY <1>3, <2>2, <2>3 DEF StreamTyped
  <2>5. adapter.finds = "index" => \A i \in 1..Len(stream'.sent) : stream'.kept[i] = Kept(stream'.sent[i])
    <3> SUFFICES ASSUME adapter.finds = "index", NEW i \in 1..Len(stream.sent) + 1
                 PROVE  stream'.kept[i] = Kept(stream'.sent[i])
      BY <2>4
    <3>1. i \in 1..Len(stream.sent) \/ i = Len(stream.sent) + 1
      BY <1>3 DEF StreamTyped
    <3> QED
      BY <1>3, <2>2, <2>3, <3>1 DEF StreamTyped
  <2>6. StreamTyped' /\ Providers!CallsArePutTogether'
    BY <1>1, <2>2, <2>4, <2>5 DEF StreamTyped, StreamStates, Providers!CallsArePutTogether
  <2> QED
    BY <1>1, <2>1, <2>2, <2>6, Counting DEF AdapterIInv
<1>6. ASSUME NEW i \in DOMAIN stream.sent, Providers!Fragment(i) PROVE Ok
  <2> DEFINE sent1 == [stream.sent EXCEPT ![i] = @ + 1]
             kept1 == IF adapter.finds # "index" THEN stream.kept
                      ELSE [stream.kept EXCEPT ![i] = Append(@, stream.sent[i] + 1)]
  <2>1. /\ stream' = [at |-> stream.at, ids |-> stream.ids, sent |-> sent1,
                      kept |-> kept1, calls |-> stream.calls]
        /\ stream.at = "open" /\ UNCHANGED <<streams, totals, abandoned>>
    <3>1. /\ stream' = [stream EXCEPT !.sent = sent1, !.kept = kept1]
          /\ stream.at = "open" /\ UNCHANGED <<streams, totals, abandoned>>
      BY <1>6 DEF Providers!Fragment
    <3> HIDE DEF sent1, kept1
    <3> QED
      BY <1>3, <3>1 DEF StreamTyped
  <2>2. /\ stream.sent \in Seq(Nat) /\ stream.kept \in Seq(Seq(Nat)) /\ i \in 1..Len(stream.sent)
        /\ Len(stream.kept) = Len(stream.sent) /\ stream.sent[i] \in Nat /\ stream.kept[i] \in Seq(Nat)
    BY <1>3, <1>6 DEF StreamTyped
  <2>3. /\ sent1 \in Seq(Nat) /\ Len(sent1) = Len(stream.sent)
        /\ sent1[i] = stream.sent[i] + 1 /\ \A k \in 1..Len(stream.sent) : k # i => sent1[k] = stream.sent[k]
    BY <2>2
  <2>4. Append(stream.kept[i], stream.sent[i] + 1) \in Seq(Nat)
    BY <2>2
  <2>5. kept1 \in Seq(Seq(Nat)) /\ Len(kept1) = Len(stream.sent)
    BY <2>2, <2>4
  <2>6. ASSUME adapter.finds = "index", NEW k \in 1..Len(stream.sent) PROVE kept1[k] = Kept(sent1[k])
    <3>1. CASE k # i
      BY <1>3, <2>2, <2>3, <2>6, <3>1 DEF StreamTyped
    <3>2. CASE k = i
      <4>1. stream.kept[i] = Kept(stream.sent[i])
        BY <1>3, <2>2, <2>6 DEF StreamTyped
      <4>2. kept1[i] = Append(Kept(stream.sent[i]), stream.sent[i] + 1)
        BY <2>2, <2>6, <4>1
      <4>3. \A n \in Nat : Append(Kept(n), n + 1) = Kept(n + 1)
        BY DEF Kept
      <4> QED
        BY <2>2, <2>3, <3>2, <4>2, <4>3
    <3> QED
      BY <3>1, <3>2
  <2> HIDE DEF sent1, kept1
  <2>7. /\ stream'.at = "open" /\ stream'.sent = sent1 /\ stream'.kept = kept1
        /\ stream' = [at |-> stream'.at, ids |-> stream'.ids, sent |-> stream'.sent,
                      kept |-> stream'.kept, calls |-> stream'.calls]
    BY <2>1
  <2>8. StreamTyped' /\ Providers!CallsArePutTogether'
    BY <1>1, <2>3, <2>5, <2>6, <2>7 DEF StreamTyped, StreamStates, Providers!CallsArePutTogether
  <2> QED
    BY <1>1, <2>1, <2>7, <2>8, Counting DEF AdapterIInv
<1>7. CASE Providers!StreamEnds
  <2>1. PICK order \in [DOMAIN stream.sent -> DOMAIN stream.sent] :
          /\ Providers!CallOrder(order)
          /\ stream' = [stream EXCEPT !.at = "done",
                 !.calls = IF adapter.finds = "no calls" THEN <<>>
                           ELSE [n \in DOMAIN stream.sent |->
                                    [id |-> stream.ids[order[n]], arguments |-> stream.kept[order[n]]]]]
    BY <1>7 DEF Providers!StreamEnds
  <2>2. stream.at = "open" /\ streams' = streams /\ Providers!RecordRequest(TRUE) /\ UNCHANGED abandoned
    BY <1>7 DEF Providers!StreamEnds
  <2> DEFINE calls1 == IF adapter.finds = "no calls" THEN <<>>
                       ELSE [n \in DOMAIN stream.sent |->
                                [id |-> stream.ids[order[n]], arguments |-> stream.kept[order[n]]]]
  <2>3. /\ stream' = [at |-> "done", ids |-> stream.ids, sent |-> stream.sent,
                      kept |-> stream.kept, calls |-> calls1]
    BY <1>3, <2>1 DEF StreamTyped
  <2>4. DOMAIN stream.sent = 1..Len(stream.sent) /\ Len(stream.sent) \in Nat
    BY <1>3 DEF StreamTyped
  <2>5. adapter.finds # "no calls" => Len(calls1) = Len(stream.sent) /\ DOMAIN calls1 = DOMAIN stream.sent
    <3> SUFFICES ASSUME adapter.finds # "no calls" PROVE Len(calls1) = Len(stream.sent) /\ DOMAIN calls1 = DOMAIN stream.sent
      OBVIOUS
    <3>1. calls1 = [n \in 1..Len(stream.sent) |-> calls1[n]]
      BY <2>4
    <3> HIDE DEF calls1
    <3> QED
      BY <2>4, <3>1, LengthOf
  <2>6. \A i \in DOMAIN stream.sent : \E n \in DOMAIN stream.sent : order[n] = i
    BY <2>1 DEF Providers!CallOrder, Providers!Range
  <2>7. ASSUME adapter.finds # "no calls", NEW i \in DOMAIN stream.sent
        PROVE  \E n \in DOMAIN calls1 :
                  /\ calls1[n].id = stream.ids[i]
                  /\ adapter.finds = "index" => calls1[n].arguments = Kept(stream.sent[i])
    <3>1. PICK n \in DOMAIN stream.sent : order[n] = i
      BY <2>6
    <3>2. calls1[n].id = stream.ids[i] /\ calls1[n].arguments = stream.kept[i]
      BY <2>7, <3>1
    <3>3. adapter.finds = "index" => stream.kept[i] = Kept(stream.sent[i])
      BY <1>3, <2>4 DEF StreamTyped
    <3> QED
      BY <2>5, <2>7, <3>2, <3>3
  <2> HIDE DEF calls1
  <2>8. /\ stream'.at = "done" /\ stream'.sent = stream.sent /\ stream'.ids = stream.ids
        /\ stream'.kept = stream.kept /\ stream'.calls = calls1
        /\ stream' = [at |-> stream'.at, ids |-> stream'.ids, sent |-> stream'.sent,
                      kept |-> stream'.kept, calls |-> stream'.calls]
    BY <2>3
  <2>9. StreamTyped'
    BY <1>1, <1>3, <2>8 DEF StreamTyped, StreamStates
  <2>10. Providers!CallsArePutTogether'
    <3> SUFFICES ASSUME adapter.finds # "no calls"
                 PROVE  /\ Len(stream'.calls) = Len(stream'.sent)
                        /\ \A i \in DOMAIN stream'.sent : \E n \in DOMAIN stream'.calls :
                              /\ stream'.calls[n].id = stream'.ids[i]
                              /\ adapter.finds = "index" => stream'.calls[n].arguments = Kept(stream'.sent[i])
      BY <1>1 DEF Providers!CallsArePutTogether, Kept
    <3> QED
      BY <2>5, <2>7, <2>8
  <2> QED
    BY <1>1, <2>2, <2>8, <2>9, <2>10, Counting DEF AdapterIInv
<1>8. CASE Providers!StreamFails \/ Providers!ConsumerLeaves
  <2>1. /\ stream.at = "open" /\ streams' = streams
        /\ \E a \in {"failed", "left"} : stream' = [stream EXCEPT !.at = a]
        /\ \/ Providers!RecordRequest(FALSE) /\ UNCHANGED abandoned
           \/ UNCHANGED totals /\ abandoned' = abandoned + 1
    BY <1>8 DEF Providers!StreamFails, Providers!ConsumerLeaves
  <2>2. PICK a \in {"failed", "left"} :
          stream' = [at |-> a, ids |-> stream.ids, sent |-> stream.sent, kept |-> stream.kept, calls |-> stream.calls]
    BY <1>3, <2>1 DEF StreamTyped
  <2>3. StreamTyped' /\ stream'.at \in {"failed", "left"} /\ Providers!CallsArePutTogether'
    BY <1>1, <1>3, <2>2 DEF StreamTyped, StreamStates, Providers!CallsArePutTogether
  <2> QED
    BY <1>1, <2>1, <2>3, Counting DEF AdapterIInv
<1> QED
  BY <1>4, <1>5, <1>6, <1>7, <1>8

ProvidersIInv == BalancerIInv /\ RegistryIInv /\ AdapterIInv

LEMMA ProvidersStart == Providers!Init => ProvidersIInv
<1> SUFFICES ASSUME Providers!Init PROVE ProvidersIInv
  OBVIOUS
<1>1. weights \in Seq([name : Names, weight : Nat])
  <2>1. weights \in Weightings \/ weights = <<>>
    BY DEF Providers!Init
  <2> QED
    BY <2>1, EmptySeq, ProvidersAssumption DEF Providers!ProvidersBounds
<1>2. BalancerIInv
  <2>1. counters = [p \in Names |-> 0] /\ chosen.from = "nobody"
    BY DEF Providers!Init, Providers!NoChoice
  <2>2. counters \in [Names -> Nat] /\ \A p \in Names : counters[p] = 0
    BY <2>1
  <2> QED
    BY <1>1, <2>1, <2>2 DEF BalancerIInv, Providers!SharesAreKept, Providers!FastestIsTaken
<1>3. RegistryIInv
  BY DEF Providers!Init, RegistryIInv, IdsDiffer, MappingsLead, ClosingTyped, CloseAccounted, Providers!NoCheck
<1>4. AdapterIInv
  <2>1. /\ stream = Providers!NoStream /\ streams = 0 /\ chat = Providers!NoChat /\ chats = 0
        /\ totals = [requests |-> 0, failures |-> 0] /\ abandoned = 0
    BY DEF Providers!Init
  <2>2. adapter \in Providers!Adapters
    BY DEF Providers!Init, Providers!Adapters
  <2>3. TotalsTyped /\ Providers!RequestsAreCounted
    BY <2>1 DEF TotalsTyped, Providers!RequestsAreCounted, Providers!NoStream, Providers!NoChat
  <2>4. StreamTyped /\ Providers!CallsArePutTogether
    BY <2>1 DEF StreamTyped, StreamStates, Providers!CallsArePutTogether, Providers!NoStream
  <2>5. ChatTyped /\ Providers!ChatsAgree
    BY <2>1 DEF ChatTyped, ChatStates, Providers!ChatsAgree, Providers!NoChat
  <2> QED
    BY <2>2, <2>3, <2>4, <2>5 DEF AdapterIInv
<1> QED
  BY <1>2, <1>3, <1>4 DEF ProvidersIInv

(* A step of one of the three leaves the others alone.                     *)
LEMMA BalancerRests == BalancerIInv /\ UNCHANGED Providers!balancerVars => BalancerIInv'
<1> SUFFICES ASSUME BalancerIInv, UNCHANGED Providers!balancerVars PROVE BalancerIInv'
  OBVIOUS
<1>1. UNCHANGED <<weights, counters, samples, chosen, steady>>
  BY DEF Providers!balancerVars
<1>2. \A p : /\ Providers!WeightOf(p)' = Providers!WeightOf(p)
             /\ Providers!Measured(p)' = Providers!Measured(p)
             /\ Providers!Median2(p)' = Providers!Median2(p)
  BY <1>1 DEF Providers!WeightOf, Providers!Places, Providers!Measured, Providers!Median2
<1> QED
  BY <1>1, <1>2 DEF BalancerIInv, Providers!SharesAreKept, Providers!FastestIsTaken

LEMMA RegistryRests == RegistryIInv /\ UNCHANGED Providers!registryVars => RegistryIInv'
BY DEF Providers!registryVars, RegistryIInv, IdsDiffer, MappingsLead, ClosingTyped, CloseAccounted, Entries

LEMMA AdapterRests == AdapterIInv /\ UNCHANGED Providers!adapterVars => AdapterIInv'
<1> SUFFICES ASSUME AdapterIInv, UNCHANGED Providers!adapterVars PROVE AdapterIInv'
  OBVIOUS
<1>1. UNCHANGED <<adapter, stream, streams, chat, chats, totals, abandoned>>
  BY DEF Providers!adapterVars, Providers!chatVars
<1>2. TotalsTyped' /\ Providers!RequestsAreCounted'
  BY <1>1 DEF AdapterIInv, TotalsTyped, Providers!RequestsAreCounted
<1>3. StreamTyped' /\ Providers!CallsArePutTogether'
  BY <1>1 DEF AdapterIInv, StreamTyped, Providers!CallsArePutTogether
<1>4. ChatTyped' /\ Providers!ChatsAgree'
  BY <1>1 DEF AdapterIInv, ChatTyped, Providers!ChatsAgree
<1> QED
  BY <1>1, <1>2, <1>3, <1>4 DEF AdapterIInv

LEMMA ProvidersStep == ProvidersIInv /\ [Providers!Next]_(Providers!vars) => ProvidersIInv'
<1> SUFFICES ASSUME ProvidersIInv, [Providers!Next]_(Providers!vars) PROVE ProvidersIInv'
  OBVIOUS
<1> USE DEF ProvidersIInv
<1>1. CASE (Providers!WeightNext \/ Providers!LatencyNext) /\ UNCHANGED <<Providers!registryVars, Providers!adapterVars>>
  BY <1>1, BalancerSafe, RegistryRests, AdapterRests
<1>2. CASE Providers!RegistryNext /\ UNCHANGED <<Providers!balancerVars, Providers!adapterVars>>
  BY <1>2, RegistrySafe, BalancerRests, AdapterRests
<1>3. CASE Providers!AdapterNext /\ UNCHANGED <<Providers!balancerVars, Providers!registryVars>>
  BY <1>3, ChatStepSafe, StreamStepSafe, BalancerRests, RegistryRests DEF Providers!AdapterNext
<1>4. CASE UNCHANGED Providers!vars
  BY <1>4, BalancerRests, RegistryRests, AdapterRests DEF Providers!vars
<1> QED
  BY <1>1, <1>2, <1>3, <1>4 DEF Providers!Next

LEMMA ProvidersMove == [PartsNext]_partsVars => [Providers!Next]_(Providers!vars)
BY DEF PartsNext, Others, partsVars, providersVars, Providers!vars, Providers!balancerVars,
       Providers!registryVars, Providers!adapterVars, Providers!chatVars

(* For any names, weights, latencies, models and answers: the balancer     *)
(* keeps to the shares and takes the fastest, a model is served while its  *)
(* provider is there, the closing reaches everyone, an adapter loses no    *)
(* call and counts every request once.                                     *)
THEOREM ProvidersSafe == PartsSpec => []ProvidersInv
<1>1. PartsInit => ProvidersIInv
  BY ProvidersStart DEF PartsInit
<1>2. ProvidersIInv /\ [PartsNext]_partsVars => ProvidersIInv'
  BY ProvidersStep, ProvidersMove
<1>3. ProvidersIInv => ProvidersInv
  BY RegistryKeeps DEF ProvidersIInv, BalancerIInv, AdapterIInv, ProvidersInv, Providers!ProvidersInv
<1> QED
  BY <1>1, <1>2, <1>3, PTL DEF PartsSpec
=============================================================================
