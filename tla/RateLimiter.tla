---------------------------- MODULE RateLimiter ----------------------------
(***************************************************************************)
(* RateLimiter and TokenBucket of src/ai_gateway/rate_limiter.py, for one  *)
(* tenant (tenants share nothing), on several instances of the gateway.    *)
(*                                                                         *)
(* Every instance and endpoint has two buckets of its own, one of requests *)
(* and one of the tokens of a day.  With Redis it is no different: the     *)
(* limiter writes a bucket to Redis only if it found it there, so none     *)
(* ever is, and it falls back to its own.                                  *)
(*                                                                         *)
(* Time is counted in ticks.  A level is counted in units, Cost of which   *)
(* are one request or one token, so that a tick's refill may be less than  *)
(* one.  Refilling at every tick or, as _refill does, when the bucket is   *)
(* next used comes to the same.                                            *)
(***************************************************************************)
EXTENDS Integers, FiniteSets

CONSTANTS Instances, Endpoints, Tiers, Waiters,
          RpsRate, RpsCap,    \* of a tier: units per tick, units of a burst
          DayRate, DayCap,    \* the same of the daily tokens
          DefaultTier, Cost,
          Second,             \* ticks of a second
          WaitTimeout,        \* timeout of check_or_wait, in ticks
          TokenBound,         \* bound of the model: tokens of one request
          TimeBound           \* bound of the model: the clock

ASSUME RateLimiterAssumption ==
  /\ DefaultTier \in Tiers
  /\ RpsRate \in [Tiers -> Nat \ {0}] /\ RpsCap \in [Tiers -> Nat]
  /\ DayRate \in [Tiers -> Nat] /\ DayCap \in [Tiers -> Nat]
  /\ Cost \in Nat \ {0} /\ Second \in Nat \ {0}
  /\ WaitTimeout \in Nat /\ TokenBound \in Nat /\ TimeBound \in Nat

VARIABLES
  now,       \* the clock
  tier,      \* the tenant's tier, the same on every instance
  created,   \* the slots whose buckets exist
  rps, day,  \* the two buckets of every slot
  waiter,    \* the calls of check_or_wait
  since,     \* history: the beginning of a window of time
  takenRps,  \* history: units taken in the window from each bucket
  takenDay

buckets == <<created, rps, day, takenRps, takenDay>>
vars == <<now, tier, waiter, since, buckets>>

Slots == Instances \X Endpoints

Least(m, n) == IF m <= n THEN m ELSE n

-----------------------------------------------------------------------------
(* TokenBucket. *)
Bucket == [level : Nat, rate : Nat, cap : Nat]

FullBucket(rate, cap) == [level |-> cap, rate |-> rate, cap |-> cap]

(* Mutant of Refilled: the capacity is no limit. *)
RefilledOver(b) == [b EXCEPT !.level = b.level + b.rate]

Refilled(b) == [b EXCEPT !.level = Least(b.cap, b.level + b.rate)]

Consumed(b, n) == IF b.level >= n THEN [b EXCEPT !.level = b.level - n] ELSE b

Charge(b, n) == IF b.level >= n THEN n ELSE 0

TimeUntilToken(b) ==
  IF b.level >= Cost THEN 0 ELSE (Cost - b.level + b.rate - 1) \div b.rate

-----------------------------------------------------------------------------
Init ==
  /\ now = 0 /\ tier = DefaultTier
  /\ created = {}
  /\ rps = [s \in Slots |-> FullBucket(0, 0)]
  /\ day = [s \in Slots |-> FullBucket(0, 0)]
  /\ waiter = [w \in Waiters |-> [pc |-> "idle"]]
  /\ since = 0
  /\ takenRps = [s \in Slots |-> 0] /\ takenDay = [s \in Slots |-> 0]

(* A tenant's tier is set; buckets that exist keep their rate and capacity. *)
SetTier(t) ==
  /\ t # tier
  /\ tier' = t
  /\ UNCHANGED <<now, waiter, since, buckets>>

(* _get_or_create_bucket. *)
RpsBucket(s) == IF s \in created THEN rps[s] ELSE FullBucket(RpsRate[tier], RpsCap[tier])
DayBucket(s) == IF s \in created THEN day[s] ELSE FullBucket(DayRate[tier], DayCap[tier])

Allowed(s, n) == RpsBucket(s).level >= Cost /\ DayBucket(s).level >= n * Cost

(* check() of a request of n tokens: both buckets are charged what they    *)
(* have, also when the other one is short and the request is rejected.     *)
Charged(s, n) ==
  /\ created' = created \union {s}
  /\ rps' = [rps EXCEPT ![s] = Consumed(RpsBucket(s), Cost)]
  /\ day' = [day EXCEPT ![s] = Consumed(DayBucket(s), n * Cost)]
  /\ takenRps' = [takenRps EXCEPT ![s] = @ + Charge(RpsBucket(s), Cost)]
  /\ takenDay' = [takenDay EXCEPT ![s] = @ + Charge(DayBucket(s), n * Cost)]

Check(s, n) == Charged(s, n) /\ UNCHANGED <<now, tier, waiter, since>>

(* The time the answer calls reset: a whole number of seconds. *)
Reset(s) ==
  ((now + TimeUntilToken(Consumed(RpsBucket(s), Cost))) \div Second) * Second

WaitTime(s, deadline) == Least(Reset(s) - now, deadline - now)

(* Mutants of Attempt: the loop is never left without a token; it sleeps   *)
(* for a second, whatever the deadline.                                    *)
AttemptForever(w, s, deadline) ==
  /\ Charged(s, 1)
  /\ waiter' = [waiter EXCEPT ![w] =
       IF Allowed(s, 1) THEN [pc |-> "proceed"]
       ELSE [pc |-> "sleeping", slot |-> s, deadline |-> deadline, wake |-> now]]
  /\ UNCHANGED <<now, tier, since>>

AttemptSleepsOn(w, s, deadline) ==
  /\ Charged(s, 1)
  /\ waiter' = [waiter EXCEPT ![w] =
       IF Allowed(s, 1) THEN [pc |-> "proceed"]
       ELSE IF deadline < now THEN [pc |-> "denied", deadline |-> deadline, at |-> now]
       ELSE [pc |-> "sleeping", slot |-> s, deadline |-> deadline, wake |-> now + Second]]
  /\ UNCHANGED <<now, tier, since>>

(* One round of the loop of check_or_wait. *)
Attempt(w, s, deadline) ==
  /\ Charged(s, 1)
  /\ waiter' = [waiter EXCEPT ![w] =
       IF Allowed(s, 1) THEN [pc |-> "proceed"]
       ELSE IF WaitTime(s, deadline) <= 0
            THEN [pc |-> "denied", deadline |-> deadline, at |-> now]
       ELSE [pc |-> "sleeping", slot |-> s, deadline |-> deadline,
             wake |-> now + Least(WaitTime(s, deadline), Second)]]
  /\ UNCHANGED <<now, tier, since>>

CheckOrWait(w, s) ==
  /\ waiter[w].pc = "idle" /\ now + WaitTimeout <= TimeBound
  /\ Attempt(w, s, now + WaitTimeout)

(* The sleep is over, perhaps some time ago. *)
Wake(w) ==
  /\ waiter[w].pc = "sleeping" /\ waiter[w].wake <= now
  /\ Attempt(w, waiter[w].slot, waiter[w].deadline)

Tick ==
  /\ now < TimeBound
  /\ now' = now + 1
  /\ rps' = [s \in Slots |-> Refilled(rps[s])]
  /\ day' = [s \in Slots |-> Refilled(day[s])]
  /\ UNCHANGED <<tier, created, waiter, since, takenRps, takenDay>>

(* History: a window of time may begin at any moment. *)
NewWindow ==
  /\ since' = now
  /\ takenRps' = [s \in Slots |-> 0] /\ takenDay' = [s \in Slots |-> 0]
  /\ UNCHANGED <<now, tier, created, rps, day, waiter>>

Next ==
  \/ \E t \in Tiers : SetTier(t)
  \/ \E s \in Slots : \/ \E n \in 0..TokenBound : Check(s, n)
                      \/ \E w \in Waiters : CheckOrWait(w, s)
  \/ \E w \in Waiters : Wake(w)
  \/ Tick \/ NewWindow

Spec == Init /\ [][Next]_vars

(* The event loop runs what is due, and time passes. *)
FairSpec == Spec /\ WF_vars(Tick) /\ \A w \in Waiters : WF_vars(Wake(w))

-----------------------------------------------------------------------------
Waiting == [pc : {"idle", "proceed"}]
           \union [pc : {"sleeping"}, slot : Slots, deadline : Nat, wake : Nat]
           \union [pc : {"denied"}, deadline : Nat, at : Nat]

TypeOK ==
  /\ now \in Nat /\ tier \in Tiers
  /\ created \in SUBSET Slots
  /\ rps \in [Slots -> Bucket] /\ day \in [Slots -> Bucket]
  /\ waiter \in [Waiters -> Waiting]
  /\ since \in Nat /\ since <= now
  /\ takenRps \in [Slots -> Nat] /\ takenDay \in [Slots -> Nat]

(* What bucket b has let through in the window, n units, together with     *)
(* what it still holds is at most a burst and the refill of the window.    *)
Within(b, n) == b.level <= b.cap /\ b.level + n <= b.cap + b.rate * (now - since)

(* However requests, waits and changes of the tier interleave, in no       *)
(* window of time does a bucket let through more than its capacity and     *)
(* what its rate refills in that window.                                   *)
WindowBound ==
  \A s \in Slots : Within(rps[s], takenRps[s]) /\ Within(day[s], takenDay[s])

(* check_or_wait never sleeps past its deadline, whatever the buckets of   *)
(* other callers do to the time until the next token.                      *)
SleepsToDeadline ==
  \A w \in Waiters : waiter[w].pc = "sleeping" => waiter[w].wake <= waiter[w].deadline

(* check_or_wait answers. *)
WaitersReturn ==
  \A w \in Waiters : waiter[w].pc = "sleeping" ~> waiter[w].pc \in {"proceed", "denied"}

(* The safety of the limiter, in one. *)
BucketInv == TypeOK /\ WindowBound /\ SleepsToDeadline
=============================================================================
