----------------------------- MODULE BreakerOps -----------------------------
(***************************************************************************)
(* The state of one circuit breaker and what each method of                *)
(* src/ai_gateway/circuit_breaker.py does to it.  Every method runs under  *)
(* the breaker's asyncio lock and awaits nothing that suspends, so each is *)
(* one step; the operators below are those steps as functions of the       *)
(* breaker's state.  Time is counted in whole ticks: a failure is kept as  *)
(* its age and the last state change as the time elapsed since.            *)
(***************************************************************************)
EXTENDS Integers, Sequences, FiniteSets, FiniteSetTheorems, TLAPS

CONSTANTS
  FailureThreshold,   \* failures within the window that open the breaker
  FailureWindow,      \* how many ticks a failure counts
  Timeout,            \* ticks a breaker that opened once stays OPEN
  MaxTimeout,         \* cap of the backoff
  HalfOpenMax,        \* half_open_max_requests
  SuccessThreshold,   \* successes in HALF_OPEN that close the breaker
  OpenCap             \* _open_count is counted up to here

(***************************************************************************)
(* OpenCap is high enough for the cap to be unobservable: the backoff has  *)
(* reached MaxTimeout by then.                                             *)
(***************************************************************************)
ASSUME BreakerAssumption ==
  /\ FailureThreshold \in Nat \ {0}
  /\ FailureWindow \in Nat
  /\ Timeout \in Nat \ {0}
  /\ MaxTimeout \in Nat
  /\ HalfOpenMax \in Nat
  /\ SuccessThreshold \in Nat \ {0}
  /\ OpenCap \in Nat \ {0, 1}
  /\ Timeout * 2^(OpenCap - 1) >= MaxTimeout

(* Facts of arithmetic the provers need and do not know. *)
ASSUME PowersAssumption ==
  \A n \in 0..OpenCap : 2^n \in Nat \ {0} /\ 2^(n + 1) = 2 * 2^n

BreakerStates == {"CLOSED", "OPEN", "HALF_OPEN"}

Least(m, n)   == IF m <= n THEN m ELSE n
Greatest(m, n) == IF m >= n THEN m ELSE n

(* No wait is longer, so time elapsed beyond it tells nothing. *)
LongestWait == Greatest(Timeout, MaxTimeout)

Breaker == [state     : BreakerStates,
            failures  : Seq(Nat),
            successes : Nat,
            opens     : 0..OpenCap,
            elapsed   : 0..LongestWait,
            allowed   : 0..HalfOpenMax]

NewBreaker == [state |-> "CLOSED", failures |-> <<>>, successes |-> 0,
               opens |-> 0, elapsed |-> 0, allowed |-> 0]

(* Mutants of TransitionTo: closing keeps the failures; one request too    *)
(* many is allowed; the count of openings is forgotten when HALF_OPEN.     *)
ClosingKeepsFailures(b, s) ==
  [b EXCEPT !.state = s, !.successes = 0, !.elapsed = 0,
            !.opens = IF s = "OPEN" THEN Least(@ + 1, OpenCap) ELSE @,
            !.allowed = IF s = "HALF_OPEN" THEN HalfOpenMax ELSE 0]

AllowsOneMore(b, s) ==
  [b EXCEPT !.state = s, !.successes = 0, !.elapsed = 0,
            !.failures = IF s = "CLOSED" THEN <<>> ELSE @,
            !.allowed = IF s = "HALF_OPEN" THEN HalfOpenMax + 1 ELSE 0]

ForgetsOpenings(b, s) ==
  [b EXCEPT !.state = s, !.successes = 0, !.elapsed = 0,
            !.failures = IF s = "CLOSED" THEN <<>> ELSE @,
            !.opens = IF s = "OPEN" THEN 1 ELSE 0,
            !.allowed = IF s = "HALF_OPEN" THEN HalfOpenMax ELSE 0]

(* Entering the state a breaker is in changes nothing; failures survive    *)
(* until the breaker closes, the count of openings too.                    *)
TransitionTo(b, s) ==
  IF b.state = s THEN b
  ELSE [state     |-> s,
        failures  |-> IF s = "CLOSED" THEN <<>> ELSE b.failures,
        successes |-> 0,
        opens     |-> CASE s = "CLOSED"    -> 0
                        [] s = "OPEN"      -> Least(b.opens + 1, OpenCap)
                        [] s = "HALF_OPEN" -> b.opens,
        elapsed   |-> 0,
        allowed   |-> IF s = "HALF_OPEN" THEN HalfOpenMax ELSE 0]

Backoff(b) == IF b.opens <= 1 THEN Timeout
              ELSE Least(Timeout * 2^(b.opens - 1), MaxTimeout)

(* Mutant of TimeoutElapsed: no backoff. *)
FixedTimeoutElapsed(b) == b.elapsed >= Timeout

TimeoutElapsed(b) == b.elapsed >= Backoff(b)

(* The answer of before_call. *)
Admits(b) == \/ b.state = "CLOSED"
             \/ b.state = "OPEN" /\ TimeoutElapsed(b)
             \/ b.state = "HALF_OPEN" /\ b.allowed > 0

(* The call that turns an OPEN breaker HALF_OPEN is admitted without       *)
(* taking one of the requests the transition has just allowed.             *)
BeforeCalled(b) ==
  CASE b.state = "OPEN" /\ TimeoutElapsed(b)       -> TransitionTo(b, "HALF_OPEN")
    [] b.state = "HALF_OPEN" /\ b.allowed > 0      -> [b EXCEPT !.allowed = @ - 1]
    [] OTHER                                       -> b

(* Mutant of Succeeded: one success too many is asked for. *)
SucceededOnceMore(b) ==
  IF b.state # "HALF_OPEN" THEN b
  ELSE IF b.successes + 1 > SuccessThreshold THEN TransitionTo(b, "CLOSED")
  ELSE [b EXCEPT !.successes = @ + 1]

Succeeded(b) ==
  IF b.state # "HALF_OPEN" THEN b
  ELSE IF b.successes + 1 >= SuccessThreshold THEN TransitionTo(b, "CLOSED")
  ELSE [b EXCEPT !.successes = @ + 1]

(* Mutants of Failed: a failed probe is ignored; a failure reported to an  *)
(* OPEN breaker starts its timeout again.                                  *)
ProbeFailureIgnored(b) ==
  IF b.state # "CLOSED" THEN b
  ELSE LET counted == [b EXCEPT !.failures = Append(@, 0)]
       IN  IF Len(counted.failures) >= FailureThreshold
           THEN TransitionTo(counted, "OPEN") ELSE counted

FailureRearms(b) ==
  CASE b.state = "OPEN"      -> [b EXCEPT !.elapsed = 0]
    [] b.state = "HALF_OPEN" -> TransitionTo(b, "OPEN")
    [] b.state = "CLOSED"    ->
         LET counted == [b EXCEPT !.failures = Append(@, 0)]
         IN  IF Len(counted.failures) >= FailureThreshold
             THEN TransitionTo(counted, "OPEN") ELSE counted

Failed(b) ==
  CASE b.state = "OPEN"      -> b
    [] b.state = "HALF_OPEN" -> TransitionTo(b, "OPEN")
    [] b.state = "CLOSED"    ->
         LET counted == [b EXCEPT !.failures = Append(@, 0)]
         IN  IF Len(counted.failures) >= FailureThreshold
             THEN TransitionTo(counted, "OPEN") ELSE counted

(* One tick passes.  Failures are recorded in order of time, so those that *)
(* leave the window are the first ones; every reader of the list prunes it *)
(* first, so they may as well be dropped at once.                          *)
Expiring(fs) == Cardinality({i \in 1..Len(fs) : fs[i] >= FailureWindow})

Aged(fs) == [i \in 1..(Len(fs) - Expiring(fs)) |-> fs[i + Expiring(fs)] + 1]

Ticked(b) == [b EXCEPT !.failures = Aged(@), !.elapsed = Least(@ + 1, LongestWait)]
-----------------------------------------------------------------------------
(* What the operators return, for every configuration: the facts that the  *)
(* proofs about CircuitBreaker and Gateway share.                          *)

(* No more failures leave the window than are in it. *)
LEMMA ExpiringBound ==
  ASSUME NEW fs \in Seq(Nat)
  PROVE  Expiring(fs) \in 0..Len(fs)
<1>1. PICK n \in Nat : n = Len(fs)
  OBVIOUS
<1>2. IsFiniteSet(1..n) /\ Cardinality(1..n) = n
  <2>1. 1 \in Int /\ n \in Int
    OBVIOUS
  <2>2. /\ IsFiniteSet(1..n)
        /\ Cardinality(1..n) = IF 1 > n THEN 0 ELSE n - 1 + 1
    BY <2>1, FS_Interval, ZenonT(30)
  <2> QED
    BY <2>2
<1>3. {i \in 1..n : fs[i] >= FailureWindow} \in SUBSET (1..n)
  OBVIOUS
<1> QED
  BY <1>1, <1>2, <1>3, FS_Subset, FS_CardinalityType DEF Expiring

(* Time only ever shortens the list of failures. *)
LEMMA AgedShortens ==
  ASSUME NEW fs \in Seq(Nat)
  PROVE  Aged(fs) \in Seq(Nat) /\ Len(Aged(fs)) <= Len(fs)
<1>1. PICK k \in 0..Len(fs) : k = Expiring(fs)
  BY ExpiringBound
<1>2. \A i \in 1..(Len(fs) - k) : fs[i + k] + 1 \in Nat
  OBVIOUS
<1>3. Aged(fs) = [i \in 1..(Len(fs) - k) |-> fs[i + k] + 1]
  BY <1>1 DEF Aged
<1> QED
  BY <1>2, <1>3

LEMMA WaitTypes ==
  /\ LongestWait \in Nat
  /\ \A b \in Breaker : /\ Backoff(b) \in Nat
                        /\ Backoff(b) >= Least(Timeout, MaxTimeout)
                        /\ Backoff(b) <= LongestWait
<1>1. LongestWait \in Nat
  BY BreakerAssumption DEF LongestWait, Greatest
<1>2. ASSUME NEW b \in Breaker
      PROVE  /\ Backoff(b) \in Nat
             /\ Backoff(b) >= Least(Timeout, MaxTimeout)
             /\ Backoff(b) <= LongestWait
  <2>1. CASE b.opens <= 1
    BY <2>1, BreakerAssumption DEF Backoff, LongestWait, Greatest, Least
  <2>2. CASE b.opens > 1
    <3>1. b.opens - 1 \in 0..OpenCap
      BY <2>2, BreakerAssumption DEF Breaker
    <3>2. PICK p \in Nat \ {0} : p = 2^(b.opens - 1)
      BY <3>1, PowersAssumption
    <3>3. Timeout * p \in Nat /\ Timeout * p >= Timeout
      BY <3>2, BreakerAssumption
    <3>4. Backoff(b) = Least(Timeout * p, MaxTimeout)
      BY <2>2, <3>2, BreakerAssumption DEF Backoff, Breaker
    <3> QED
      BY <3>3, <3>4, BreakerAssumption DEF LongestWait, Greatest, Least
  <2> QED
    BY <2>1, <2>2, BreakerAssumption DEF Breaker
<1> QED
  BY <1>1, <1>2

LEMMA TransitionType ==
  ASSUME NEW b \in Breaker, NEW s \in BreakerStates
  PROVE  TransitionTo(b, s) \in Breaker
<1>1. LongestWait \in Nat
  BY WaitTypes
<1>2. <<>> \in Seq(Nat)
  OBVIOUS
<1>3. CASE b.state = s
  BY <1>3 DEF TransitionTo
<1>4. CASE b.state # s
  <2>1. /\ TransitionTo(b, s).state = s /\ TransitionTo(b, s).successes = 0
        /\ TransitionTo(b, s).failures \in Seq(Nat)
    BY <1>2, <1>4 DEF TransitionTo, Breaker
  <2>2. TransitionTo(b, s).opens \in 0..OpenCap
    <3>1. b.opens \in 0..OpenCap /\ OpenCap \in Nat
      BY BreakerAssumption DEF Breaker
    <3>2. 0 \in 0..OpenCap /\ Least(b.opens + 1, OpenCap) \in 0..OpenCap
      BY <3>1 DEF Least
    <3>3. TransitionTo(b, s).opens \in {0, Least(b.opens + 1, OpenCap), b.opens}
      BY <1>4 DEF TransitionTo, BreakerStates
    <3> QED BY <3>1, <3>2, <3>3
  <2>3. TransitionTo(b, s).elapsed \in 0..LongestWait
    BY <1>1, <1>4 DEF TransitionTo
  <2>4. TransitionTo(b, s).allowed \in 0..HalfOpenMax
    BY <1>4, BreakerAssumption DEF TransitionTo
  <2>5. TransitionTo(b, s) =
          [state |-> TransitionTo(b, s).state, failures |-> TransitionTo(b, s).failures,
           successes |-> TransitionTo(b, s).successes, opens |-> TransitionTo(b, s).opens,
           elapsed |-> TransitionTo(b, s).elapsed, allowed |-> TransitionTo(b, s).allowed]
    BY <1>4 DEF TransitionTo
  <2> QED BY <2>1, <2>2, <2>3, <2>4, <2>5 DEF Breaker
<1> QED BY <1>3, <1>4

LEMMA BeforeCalledType ==
  ASSUME NEW b \in Breaker
  PROVE  BeforeCalled(b) \in Breaker
<1>1. TransitionTo(b, "HALF_OPEN") \in Breaker
  BY TransitionType DEF BreakerStates
<1>2. ASSUME b.allowed > 0 PROVE [b EXCEPT !.allowed = @ - 1] \in Breaker
  <2>1. HalfOpenMax \in Nat /\ b.allowed \in 0..HalfOpenMax
    BY BreakerAssumption DEF Breaker
  <2>2. b.allowed - 1 \in 0..HalfOpenMax
    BY <1>2, <2>1
  <2> QED
    BY <2>2 DEF Breaker
<1> QED
  BY <1>1, <1>2 DEF BeforeCalled, Breaker, BreakerStates

LEMMA SucceededType ==
  ASSUME NEW b \in Breaker
  PROVE  Succeeded(b) \in Breaker
<1>1. TransitionTo(b, "CLOSED") \in Breaker
  BY TransitionType DEF BreakerStates
<1>2. [b EXCEPT !.successes = @ + 1] \in Breaker
  BY DEF Breaker
<1> QED
  BY <1>1, <1>2 DEF Succeeded

(* A reported failure leaves a breaker CLOSED only below the threshold. *)
LEMMA FailedType ==
  ASSUME NEW b \in Breaker
  PROVE  /\ Failed(b) \in Breaker
         /\ Failed(b).state = "CLOSED" => Len(Failed(b).failures) < FailureThreshold
         /\ b.state = "OPEN" => Failed(b) = b
         /\ b.state = "HALF_OPEN" => Failed(b) = TransitionTo(b, "OPEN")
         /\ b.state = "CLOSED" =>
              \/ Failed(b).state = "OPEN" /\ Failed(b).allowed = 0
                   /\ Failed(b).successes = 0 /\ Failed(b).elapsed = 0
                   /\ Failed(b).opens >= 1
              \/ Failed(b) = [b EXCEPT !.failures = Append(@, 0)]
<1> DEFINE counted == [b EXCEPT !.failures = Append(@, 0)]
<1>1. counted \in Breaker /\ counted.state = b.state /\ counted.opens = b.opens
  <2>1. Append(b.failures, 0) \in Seq(Nat)
    BY DEF Breaker
  <2> QED
    BY <2>1 DEF Breaker
<1>2. TransitionTo(counted, "OPEN") \in Breaker /\ TransitionTo(b, "OPEN") \in Breaker
  BY <1>1, TransitionType DEF BreakerStates
<1>3. CASE b.state = "CLOSED"
  <2>1. Failed(b) = IF Len(counted.failures) >= FailureThreshold
                    THEN TransitionTo(counted, "OPEN") ELSE counted
    BY <1>3 DEF Failed
  <2>2. Len(counted.failures) \in Nat
    BY <1>1 DEF Breaker
  <2>3. TransitionTo(counted, "OPEN").state = "OPEN"
    BY <1>1, <1>3 DEF TransitionTo
  <2>4. /\ TransitionTo(counted, "OPEN").allowed = 0
        /\ TransitionTo(counted, "OPEN").successes = 0
        /\ TransitionTo(counted, "OPEN").elapsed = 0
        /\ TransitionTo(counted, "OPEN").opens >= 1
    <3>1. counted.opens \in 0..OpenCap /\ OpenCap \in Nat \ {0, 1}
      BY <1>1, BreakerAssumption DEF Breaker
    <3>2. Least(counted.opens + 1, OpenCap) >= 1
      BY <3>1 DEF Least
    <3> HIDE DEF counted
    <3> QED
      BY <1>1, <1>3, <3>2 DEF TransitionTo
  <2> QED
    BY <1>1, <1>2, <1>3, <2>1, <2>2, <2>3, <2>4, BreakerAssumption
<1>4. CASE b.state = "OPEN"
  BY <1>4 DEF Failed
<1>5. CASE b.state = "HALF_OPEN"
  BY <1>2, <1>5 DEF Failed, TransitionTo
<1> QED
  BY <1>3, <1>4, <1>5 DEF Breaker, BreakerStates

LEMMA TickedType ==
  ASSUME NEW b \in Breaker
  PROVE  /\ Ticked(b) \in Breaker
         /\ Len(Ticked(b).failures) <= Len(b.failures)
<1>1. Aged(b.failures) \in Seq(Nat) /\ Len(Aged(b.failures)) <= Len(b.failures)
  BY AgedShortens DEF Breaker
<1>2. Least(b.elapsed + 1, LongestWait) \in 0..LongestWait
  BY WaitTypes DEF Breaker, Least
<1> QED
  BY <1>1, <1>2 DEF Ticked, Breaker
=============================================================================
