--------------------------- MODULE BreakerProtocol ---------------------------
(***************************************************************************)
(* What a circuit breaker promises its callers, without its bookkeeping    *)
(* (the class docstring's table of transitions).  It may trip at any time, *)
(* but then no call passes before the wait is over; a HALF_OPEN breaker    *)
(* admits a bounded number of probes and closes only after enough          *)
(* successes reported since it turned HALF_OPEN.                           *)
(***************************************************************************)
EXTENDS Integers

CONSTANTS ShortestWait, LongestWait, MaxProbes, EnoughSuccesses

VARIABLES mode,      \* CLOSED, OPEN or HALF_OPEN
          wait,      \* ticks before an OPEN breaker may admit a probe
          permits,   \* probes a HALF_OPEN breaker will still admit
          good       \* successes reported since it turned HALF_OPEN

vars == <<mode, wait, permits, good>>

Init == mode = "CLOSED" /\ wait = 0 /\ permits = 0 /\ good = 0

Open ==
  /\ mode' = "OPEN" /\ permits' = 0 /\ good' = 0
  /\ wait' \in ShortestWait..LongestWait

Close == mode' = "CLOSED" /\ wait' = 0 /\ permits' = 0 /\ good' = 0

Trip   == mode = "CLOSED" /\ Open
Reopen == mode = "HALF_OPEN" /\ Open

(* The admitted call is the first of the MaxProbes probes. *)
Readmit ==
  /\ mode = "OPEN" /\ wait = 0
  /\ mode' = "HALF_OPEN" /\ permits' = MaxProbes - 1 /\ good' = 0 /\ wait' = 0

Probe ==
  /\ mode = "HALF_OPEN" /\ permits > 0
  /\ permits' = permits - 1
  /\ UNCHANGED <<mode, wait, good>>

Succeed ==
  /\ mode = "HALF_OPEN"
  /\ IF good + 1 >= EnoughSuccesses THEN Close
     ELSE good' = good + 1 /\ UNCHANGED <<mode, wait, permits>>

(* An operator may close it by hand. *)
Reset == mode # "CLOSED" /\ Close

Pass ==
  /\ mode = "OPEN" /\ wait > 0
  /\ wait' = wait - 1
  /\ UNCHANGED <<mode, permits, good>>

Next == Trip \/ Reopen \/ Readmit \/ Probe \/ Succeed \/ Reset \/ Pass

Spec == Init /\ [][Next]_vars
=============================================================================
