---------------------------- MODULE Limits_proofs ----------------------------
(***************************************************************************)
(* What is limited stays within its limits, for every value of the         *)
(* constants: the token bucket of a tenant in any window of time, the      *)
(* calls of a run of an agent, the connections to MCP servers, the         *)
(* cleaning of resources, access, and the records of all this.  Each       *)
(* component has its inductive invariant, and a step of the others leaves  *)
(* it alone.                                                               *)
(***************************************************************************)
EXTENDS MCLimits, FiniteSetTheorems, SequenceTheorems, WellFoundedInduction, TLAPS

(* A slot without buckets was charged nothing; a bucket of requests that   *)
(* exists has a rate.                                                      *)
Untouched ==
  \A s \in Slots : IF s \in created THEN rps[s].rate # 0
                   ELSE takenRps[s] = 0 /\ takenDay[s] = 0

(* The inductive invariant. *)
IInv == TypeOK /\ WindowBound /\ Untouched /\ SleepsToDeadline

-----------------------------------------------------------------------------
(* Taking units out of a bucket: what leaves is what is charged. *)
LEMMA ConsumedWithin ==
  ASSUME NEW b \in Bucket, NEW n \in Nat, NEW k \in Nat,
         now \in Nat, since \in Nat, since <= now, Within(b, k)
  PROVE  /\ Consumed(b, n) \in Bucket
         /\ Charge(b, n) \in Nat
         /\ Within(Consumed(b, n), k + Charge(b, n))
         /\ Consumed(b, n).rate = b.rate
<1> DEFINE refill == b.rate * (now - since)
<1>1. refill \in Nat
  BY DEF Bucket
<1> HIDE DEF refill
<1>2. b.level <= b.cap /\ b.level + k <= b.cap + refill
  BY DEF Within, refill
<1>3. CASE b.level >= n
  <2>1. Consumed(b, n) = [b EXCEPT !.level = b.level - n] /\ Charge(b, n) = n
    BY <1>3 DEF Consumed, Charge
  <2>2. /\ Consumed(b, n).level = b.level - n
        /\ Consumed(b, n).cap = b.cap /\ Consumed(b, n).rate = b.rate
        /\ Consumed(b, n) \in Bucket
    BY <2>1, <1>3 DEF Bucket
  <2>3. /\ b.level - n <= b.cap
        /\ (b.level - n) + (k + n) <= b.cap + refill
    BY <1>1, <1>2 DEF Bucket
  <2> QED BY <2>1, <2>2, <2>3 DEF Within, refill
<1>4. CASE ~(b.level >= n)
  <2>1. Consumed(b, n) = b /\ Charge(b, n) = 0
    BY <1>4 DEF Consumed, Charge
  <2> QED BY <2>1
<1> QED BY <1>3, <1>4

(* A tick refills a bucket by no more than the window grows by. *)
LEMMA RefilledWithin ==
  ASSUME NEW b \in Bucket, NEW k \in Nat,
         now \in Nat, since \in Nat, since <= now, Within(b, k)
  PROVE  /\ Refilled(b) \in Bucket
         /\ Refilled(b).rate = b.rate
         /\ Refilled(b).level <= Refilled(b).cap
         /\ Refilled(b).level + k <= Refilled(b).cap + Refilled(b).rate * ((now + 1) - since)
<1> DEFINE refill == b.rate * (now - since)
<1>1. refill \in Nat
  BY DEF Bucket
<1>2. b.rate * ((now + 1) - since) = refill + b.rate
  BY DEF Bucket
<1> HIDE DEF refill
<1>3. b.level <= b.cap /\ b.level + k <= b.cap + refill
  BY DEF Within, refill
<1> DEFINE level == Least(b.cap, b.level + b.rate)
<1>4. /\ level \in Nat /\ level <= b.cap /\ level + k <= b.cap + (refill + b.rate)
  BY <1>1, <1>3 DEF Bucket, Least
<1> HIDE DEF level
<1>5. Refilled(b) = [b EXCEPT !.level = level]
  BY DEF Refilled, level
<1>6. /\ Refilled(b).level = level /\ Refilled(b).cap = b.cap
      /\ Refilled(b).rate = b.rate /\ Refilled(b) \in Bucket
  BY <1>4, <1>5 DEF Bucket
<1> QED BY <1>2, <1>4, <1>6

(* A bucket that is created is full, and is charged nothing yet. *)
LEMMA FullWithin ==
  ASSUME NEW rate \in Nat, NEW cap \in Nat,
         now \in Nat, since \in Nat, since <= now
  PROVE  FullBucket(rate, cap) \in Bucket /\ Within(FullBucket(rate, cap), 0)
         /\ FullBucket(rate, cap).rate = rate
<1>1. rate * (now - since) \in Nat
  OBVIOUS
<1> QED BY <1>1 DEF FullBucket, Bucket, Within

(* The buckets a check looks at, found or created, keep the bound. *)
LEMMA BucketsWithin ==
  ASSUME IInv, NEW s \in Slots
  PROVE  /\ RpsBucket(s) \in Bucket /\ Within(RpsBucket(s), takenRps[s])
         /\ DayBucket(s) \in Bucket /\ Within(DayBucket(s), takenDay[s])
         /\ RpsBucket(s).rate # 0
<1>1. CASE s \in created
  BY <1>1 DEF IInv, TypeOK, WindowBound, Untouched, RpsBucket, DayBucket
<1>2. CASE s \notin created
  <2>1. /\ RpsRate[tier] \in Nat \ {0} /\ RpsCap[tier] \in Nat
        /\ DayRate[tier] \in Nat /\ DayCap[tier] \in Nat
    BY RateLimiterAssumption DEF IInv, TypeOK
  <2>2. takenRps[s] = 0 /\ takenDay[s] = 0
    BY <1>2 DEF IInv, Untouched
  <2>3. now \in Nat /\ since \in Nat /\ since <= now
    BY DEF IInv, TypeOK
  <2> QED BY <1>2, <2>1, <2>2, <2>3, FullWithin DEF RpsBucket, DayBucket
<1> QED BY <1>1, <1>2

-----------------------------------------------------------------------------
(* What a check does to the buckets. *)
LEMMA ChargedKeeps ==
  ASSUME IInv, NEW s \in Slots, NEW n \in Nat, Charged(s, n),
         UNCHANGED <<now, tier, since>>
  PROVE  /\ created' \in SUBSET Slots
         /\ rps' \in [Slots -> Bucket] /\ day' \in [Slots -> Bucket]
         /\ takenRps' \in [Slots -> Nat] /\ takenDay' \in [Slots -> Nat]
         /\ WindowBound' /\ Untouched'
<1> DEFINE rb == RpsBucket(s)
           db == DayBucket(s)
<1>0. /\ now \in Nat /\ since \in Nat /\ since <= now
      /\ takenRps[s] \in Nat /\ takenDay[s] \in Nat
  BY DEF IInv, TypeOK
<1>1. /\ rb \in Bucket /\ Within(rb, takenRps[s]) /\ rb.rate # 0
      /\ db \in Bucket /\ Within(db, takenDay[s])
  BY BucketsWithin
<1>2. Cost \in Nat /\ n * Cost \in Nat
  BY RateLimiterAssumption
<1> HIDE DEF rb, db
<1>3. /\ Consumed(rb, Cost) \in Bucket /\ Charge(rb, Cost) \in Nat
      /\ Within(Consumed(rb, Cost), takenRps[s] + Charge(rb, Cost))
      /\ Consumed(rb, Cost).rate # 0
  BY <1>0, <1>1, <1>2, ConsumedWithin
<1>4. /\ Consumed(db, n * Cost) \in Bucket /\ Charge(db, n * Cost) \in Nat
      /\ Within(Consumed(db, n * Cost), takenDay[s] + Charge(db, n * Cost))
  BY <1>0, <1>1, <1>2, ConsumedWithin
<1>5. /\ created' = created \union {s}
      /\ rps' = [rps EXCEPT ![s] = Consumed(rb, Cost)]
      /\ day' = [day EXCEPT ![s] = Consumed(db, n * Cost)]
      /\ takenRps' = [takenRps EXCEPT ![s] = takenRps[s] + Charge(rb, Cost)]
      /\ takenDay' = [takenDay EXCEPT ![s] = takenDay[s] + Charge(db, n * Cost)]
  BY DEF Charged, rb, db
<1>6. /\ created' \in SUBSET Slots
      /\ rps' \in [Slots -> Bucket] /\ day' \in [Slots -> Bucket]
      /\ takenRps' \in [Slots -> Nat] /\ takenDay' \in [Slots -> Nat]
  BY <1>0, <1>3, <1>4, <1>5 DEF IInv, TypeOK
<1>8. WindowBound'
  <2> SUFFICES ASSUME NEW t \in Slots
               PROVE  Within(rps[t], takenRps[t])' /\ Within(day[t], takenDay[t])'
    BY DEF WindowBound
  <2>1. CASE t = s
    <3>1. /\ rps'[t] = Consumed(rb, Cost)
          /\ takenRps'[t] = takenRps[s] + Charge(rb, Cost)
          /\ day'[t] = Consumed(db, n * Cost)
          /\ takenDay'[t] = takenDay[s] + Charge(db, n * Cost)
      BY <1>5, <2>1 DEF IInv, TypeOK
    <3> QED BY <1>3, <1>4, <3>1 DEF Within
  <2>2. CASE t # s
    <3>1. /\ rps'[t] = rps[t] /\ takenRps'[t] = takenRps[t]
          /\ day'[t] = day[t] /\ takenDay'[t] = takenDay[t]
      BY <1>5, <2>2 DEF IInv, TypeOK
    <3> QED BY <3>1 DEF IInv, WindowBound, Within
  <2> QED BY <2>1, <2>2
<1>9. Untouched'
  <2> SUFFICES ASSUME NEW t \in Slots
               PROVE  (IF t \in created THEN rps[t].rate # 0
                       ELSE takenRps[t] = 0 /\ takenDay[t] = 0)'
    BY DEF Untouched
  <2>1. CASE t = s
    BY <1>3, <1>5, <2>1 DEF IInv, TypeOK
  <2>2. CASE t # s
    <3>1. /\ rps'[t] = rps[t] /\ takenRps'[t] = takenRps[t]
          /\ takenDay'[t] = takenDay[t] /\ (t \in created' <=> t \in created)
      BY <1>5, <2>2 DEF IInv, TypeOK
    <3> QED BY <3>1 DEF IInv, Untouched
  <2> QED BY <2>1, <2>2
<1> QED BY <1>6, <1>8, <1>9

(* The time of the reset is an integer. *)
LEMMA ResetInteger ==
  ASSUME IInv, NEW s \in Slots
  PROVE  Reset(s) \in Int
<1> DEFINE b == Consumed(RpsBucket(s), Cost)
<1>1. b \in Bucket /\ b.rate # 0
  <2>1. RpsBucket(s) \in Bucket /\ Within(RpsBucket(s), takenRps[s]) /\ RpsBucket(s).rate # 0
    BY BucketsWithin
  <2>2. now \in Nat /\ since \in Nat /\ since <= now /\ takenRps[s] \in Nat /\ Cost \in Nat
    BY RateLimiterAssumption DEF IInv, TypeOK
  <2> QED BY <2>1, <2>2, ConsumedWithin
<1>2. Cost \in Nat /\ Second \in Nat /\ Second # 0 /\ now \in Nat
  BY RateLimiterAssumption DEF IInv, TypeOK
<1> HIDE DEF b
<1>3. TimeUntilToken(b) \in Int
  <2>1. b.level \in Nat /\ b.rate \in Nat
    BY <1>1 DEF Bucket
  <2>2. (Cost - b.level + b.rate - 1) \div b.rate \in Int
    BY <1>1, <1>2, <2>1
  <2> QED BY <2>2 DEF TimeUntilToken
<1>4. (now + TimeUntilToken(b)) \div Second \in Int
  BY <1>2, <1>3
<1>5. ((now + TimeUntilToken(b)) \div Second) * Second \in Int
  BY <1>2, <1>4
<1> QED BY <1>5 DEF Reset, b

(* A round of check_or_wait. *)
LEMMA AttemptKeeps ==
  ASSUME IInv, NEW w \in Waiters, NEW s \in Slots, NEW deadline \in Nat,
         Attempt(w, s, deadline)
  PROVE  IInv'
<1>1. Charged(s, 1) /\ UNCHANGED <<now, tier, since>>
  BY DEF Attempt
<1>2. /\ created' \in SUBSET Slots
      /\ rps' \in [Slots -> Bucket] /\ day' \in [Slots -> Bucket]
      /\ takenRps' \in [Slots -> Nat] /\ takenDay' \in [Slots -> Nat]
      /\ WindowBound' /\ Untouched'
  BY <1>1, ChargedKeeps
<1>3. waiter' \in [Waiters -> Waiting]
  <2> DEFINE wait == WaitTime(s, deadline)
  <2>1. now \in Nat /\ Second \in Nat
    BY RateLimiterAssumption DEF IInv, TypeOK
  <2>2. wait \in Int
    <3>1. Reset(s) - now \in Int /\ deadline - now \in Int
      BY <2>1, ResetInteger
    <3> HIDE DEF wait
    <3>2. wait = Least(Reset(s) - now, deadline - now)
      BY DEF wait, WaitTime
    <3> QED BY <3>1, <3>2 DEF Least
  <2> HIDE DEF wait
  <2> DEFINE next == IF Allowed(s, 1) THEN [pc |-> "proceed"]
                     ELSE IF wait <= 0
                          THEN [pc |-> "denied", deadline |-> deadline, at |-> now]
                     ELSE [pc |-> "sleeping", slot |-> s, deadline |-> deadline,
                           wake |-> now + Least(wait, Second)]
  <2>3. wait > 0 => now + Least(wait, Second) \in Nat
    BY <2>1, <2>2 DEF Least
  <2>4. next \in Waiting
    <3>1. CASE Allowed(s, 1)
      BY <3>1 DEF Waiting
    <3>2. CASE ~Allowed(s, 1) /\ wait <= 0
      BY <2>1, <3>2 DEF Waiting
    <3>3. CASE ~Allowed(s, 1) /\ ~(wait <= 0)
      <4>1. now + Least(wait, Second) \in Nat
        BY <2>2, <2>3, <3>3
      <4> QED BY <3>3, <4>1 DEF Waiting
    <3> QED BY <3>1, <3>2, <3>3
  <2>5. waiter' = [waiter EXCEPT ![w] = next]
    BY DEF Attempt, wait
  <2> QED BY <2>4, <2>5 DEF IInv, TypeOK
<1>4. SleepsToDeadline'
  <2> DEFINE wait == WaitTime(s, deadline)
  <2>1. now \in Nat /\ Second \in Nat /\ Reset(s) - now \in Int
    BY RateLimiterAssumption, ResetInteger DEF IInv, TypeOK
  <2>2. wait \in Int /\ wait <= deadline - now
    BY <2>1 DEF WaitTime, Least
  <2> HIDE DEF wait
  <2>3. now + Least(wait, Second) <= deadline
    BY <2>1, <2>2 DEF Least
  <2> DEFINE next == IF Allowed(s, 1) THEN [pc |-> "proceed"]
                     ELSE IF wait <= 0
                          THEN [pc |-> "denied", deadline |-> deadline, at |-> now]
                     ELSE [pc |-> "sleeping", slot |-> s, deadline |-> deadline,
                           wake |-> now + Least(wait, Second)]
  <2>4. next.pc = "sleeping" => next.wake <= next.deadline
    BY <2>3
  <2>5. waiter' = [waiter EXCEPT ![w] = next]
    BY DEF Attempt, wait
  <2>6. waiter'[w] = next /\ \A v \in Waiters : v # w => waiter'[v] = waiter[v]
    BY <2>5 DEF IInv, TypeOK
  <2> QED BY <2>4, <2>6 DEF IInv, SleepsToDeadline
<1> QED BY <1>1, <1>2, <1>3, <1>4 DEF IInv, TypeOK

-----------------------------------------------------------------------------
LEMMA InitIInv == Init => IInv
<1> SUFFICES ASSUME Init PROVE IInv
  OBVIOUS
<1>1. FullBucket(0, 0) \in Bucket /\ Within(FullBucket(0, 0), 0)
  BY FullWithin DEF Init
<1>2. TypeOK
  <2>1. [pc |-> "idle"] \in Waiting
    BY DEF Waiting
  <2>2. waiter \in [Waiters -> Waiting]
    BY <2>1 DEF Init
  <2> QED BY <1>1, <2>2, RateLimiterAssumption DEF Init, TypeOK
<1>3. WindowBound
  BY <1>1 DEF Init, WindowBound
<1>4. Untouched
  BY DEF Init, Untouched
<1>5. SleepsToDeadline
  BY DEF Init, SleepsToDeadline
<1> QED BY <1>2, <1>3, <1>4, <1>5 DEF IInv

LEMMA TickKeeps == ASSUME IInv, Tick PROVE IInv'
<1>0. /\ now \in Nat /\ since \in Nat /\ since <= now
      /\ now' = now + 1 /\ since' = since
      /\ created' = created /\ takenRps' = takenRps /\ takenDay' = takenDay
  BY DEF IInv, TypeOK, Tick
<1>1. ASSUME NEW s \in Slots
      PROVE  /\ rps'[s] \in Bucket /\ Within(rps[s], takenRps[s])'
             /\ day'[s] \in Bucket /\ Within(day[s], takenDay[s])'
             /\ rps'[s].rate = rps[s].rate
  <2>1. rps'[s] = Refilled(rps[s]) /\ day'[s] = Refilled(day[s])
    BY DEF Tick
  <2>2. /\ rps[s] \in Bucket /\ Within(rps[s], takenRps[s]) /\ takenRps[s] \in Nat
        /\ day[s] \in Bucket /\ Within(day[s], takenDay[s]) /\ takenDay[s] \in Nat
    BY DEF IInv, TypeOK, WindowBound
  <2>3. /\ Refilled(rps[s]) \in Bucket /\ Refilled(rps[s]).rate = rps[s].rate
        /\ Refilled(rps[s]).level <= Refilled(rps[s]).cap
        /\ Refilled(rps[s]).level + takenRps[s]
             <= Refilled(rps[s]).cap + Refilled(rps[s]).rate * ((now + 1) - since)
    BY <1>0, <2>2, RefilledWithin
  <2>4. /\ Refilled(day[s]) \in Bucket
        /\ Refilled(day[s]).level <= Refilled(day[s]).cap
        /\ Refilled(day[s]).level + takenDay[s]
             <= Refilled(day[s]).cap + Refilled(day[s]).rate * ((now + 1) - since)
    BY <1>0, <2>2, RefilledWithin
  <2> QED BY <1>0, <2>1, <2>3, <2>4 DEF Within
<1>2. rps' \in [Slots -> Bucket] /\ day' \in [Slots -> Bucket]
  BY <1>1 DEF Tick
<1>3. TypeOK'
  BY <1>0, <1>2 DEF IInv, TypeOK, Tick
<1>4. WindowBound'
  BY <1>1 DEF WindowBound
<1>5. Untouched'
  BY <1>0, <1>1 DEF IInv, Untouched
<1>6. SleepsToDeadline'
  BY DEF IInv, SleepsToDeadline, Tick
<1> QED BY <1>3, <1>4, <1>5, <1>6 DEF IInv

LEMMA NewWindowKeeps == ASSUME IInv, NewWindow PROVE IInv'
<1>0. /\ now \in Nat /\ now' = now /\ since' = now
      /\ rps' = rps /\ day' = day /\ created' = created
      /\ takenRps' = [s \in Slots |-> 0] /\ takenDay' = [s \in Slots |-> 0]
  BY DEF IInv, TypeOK, NewWindow
<1>1. TypeOK'
  BY <1>0 DEF IInv, TypeOK, NewWindow
<1>2. ASSUME NEW b \in Bucket, NEW k \in Nat, Within(b, k)
      PROVE  b.level + 0 <= b.cap + b.rate * (now - now)
  <2>1. b.level <= b.cap
    BY <1>2 DEF Within
  <2>2. b.level \in Nat /\ b.cap \in Nat /\ b.rate \in Nat
    BY DEF Bucket
  <2>3. now - now = 0
    BY <1>0
  <2>4. b.rate * 0 = 0
    BY <2>2
  <2> QED BY <2>1, <2>2, <2>3, <2>4
<1>3. WindowBound'
  <2> SUFFICES ASSUME NEW s \in Slots
               PROVE  Within(rps[s], takenRps[s])' /\ Within(day[s], takenDay[s])'
    BY DEF WindowBound
  <2>1. /\ rps[s] \in Bucket /\ Within(rps[s], takenRps[s]) /\ takenRps[s] \in Nat
        /\ day[s] \in Bucket /\ Within(day[s], takenDay[s]) /\ takenDay[s] \in Nat
    BY DEF IInv, TypeOK, WindowBound
  <2>2. /\ rps[s].level + 0 <= rps[s].cap + rps[s].rate * (now - now)
        /\ day[s].level + 0 <= day[s].cap + day[s].rate * (now - now)
    BY <1>2, <2>1
  <2> QED BY <1>0, <2>1, <2>2 DEF Within
<1>4. Untouched'
  BY <1>0 DEF IInv, Untouched
<1>5. SleepsToDeadline'
  BY DEF IInv, SleepsToDeadline, NewWindow
<1> QED BY <1>1, <1>3, <1>4, <1>5 DEF IInv

LEMMA NextIInv == IInv /\ [Next]_vars => IInv'
<1> SUFFICES ASSUME IInv, [Next]_vars PROVE IInv'
  OBVIOUS
<1>1. ASSUME NEW t \in Tiers, SetTier(t) PROVE IInv'
  BY <1>1 DEF SetTier, buckets, IInv, TypeOK, WindowBound, Untouched, Within, SleepsToDeadline
<1>2. ASSUME NEW s \in Slots, NEW n \in 0..TokenBound, Check(s, n) PROVE IInv'
  <2>1. n \in Nat
    BY RateLimiterAssumption
  <2>2. Charged(s, n) /\ UNCHANGED <<now, tier, since>> /\ waiter' = waiter
    BY <1>2 DEF Check
  <2> QED BY <2>1, <2>2, ChargedKeeps DEF IInv, TypeOK, SleepsToDeadline
<1>3. ASSUME NEW s \in Slots, NEW w \in Waiters, CheckOrWait(w, s) PROVE IInv'
  <2>1. now + WaitTimeout \in Nat
    BY RateLimiterAssumption DEF IInv, TypeOK
  <2> QED BY <1>3, <2>1, AttemptKeeps DEF CheckOrWait
<1>4. ASSUME NEW w \in Waiters, Wake(w) PROVE IInv'
  <2>1. waiter[w].slot \in Slots /\ waiter[w].deadline \in Nat
    BY <1>4 DEF Wake, IInv, TypeOK, Waiting
  <2> QED BY <1>4, <2>1, AttemptKeeps DEF Wake
<1>5. CASE Tick
  BY <1>5, TickKeeps
<1>6. CASE NewWindow
  BY <1>6, NewWindowKeeps
<1>7. CASE UNCHANGED vars
  BY <1>7 DEF vars, buckets, IInv, TypeOK, WindowBound, Untouched, Within, SleepsToDeadline
<1> QED BY <1>1, <1>2, <1>3, <1>4, <1>5, <1>6, <1>7 DEF Next

(* All variables keep their types. *)
THEOREM TypeCorrect == Spec => []TypeOK
<1>1. IInv => TypeOK
  BY DEF IInv
<1> QED BY InitIInv, NextIInv, <1>1, PTL DEF Spec

(* In no window of time does a bucket let through more than its capacity   *)
(* and the refill of the window.                                           *)
THEOREM BoundedInEveryWindow == Spec => []WindowBound
<1>1. IInv => WindowBound
  BY DEF IInv
<1> QED BY InitIInv, NextIInv, <1>1, PTL DEF Spec

(* The safety of the limiter: besides, no call of check_or_wait sleeps     *)
(* past its deadline, whatever the other callers do to the buckets.        *)
THEOREM BucketSafe == Spec => []BucketInv
<1>1. IInv => BucketInv
  BY DEF IInv, BucketInv
<1> QED BY InitIInv, NextIInv, <1>1, PTL DEF Spec

-----------------------------------------------------------------------------
(* The reclaimer.                                                          *)
(* A registration stands under one id at most and is clean as long as it   *)
(* does; a round that goes on or cleans has an id to do.                   *)
Registered ==
  /\ \A id, other \in Ids :
        resources[id] # 0 /\ resources[id] = resources[other] => id = other
  /\ \A id \in Ids : resources[id] # 0 => cleaned[resources[id]] = 0
  /\ \A n \in 1..MaxRegistered : n > registered => cleaned[n] = 0
  /\ \A r \in Rounds : rounds[r].status # "idle" => rounds[r].todo # <<>>

ReclaimerIInv == ReclaimerInv /\ Registered

LEMMA ReclaimerStarts == Reclaimer!Init => ReclaimerIInv
<1> SUFFICES ASSUME Reclaimer!Init PROVE ReclaimerIInv
  OBVIOUS
<1>1. <<>> \in Seq(Ids)
  BY EmptySeq
<1> QED
  BY <1>1, LimitsAssumption DEF ReclaimerIInv, ReclaimerInv, Registered, Reclaimer!Init,
     Reclaimer!ReclaimerInv, Reclaimer!TypeOK, Reclaimer!CleanedOnce, Reclaimer!Round, Reclaimer!Rest

(* The instance counts as FiniteSets does. *)
LEMMA ReclaimerCounts == \A S : Reclaimer!Cardinality(S) = Cardinality(S)
BY DEF Cardinality, Reclaimer!Cardinality

(* The orders of the expired ids are sequences of ids. *)
LEMMA OrdersAreSequences ==
  ASSUME NEW order \in Reclaimer!SetToSeqs(Reclaimer!ExpiredIds)
  PROVE  order \in Seq(Ids) /\ (Reclaimer!ExpiredIds # {} => order # <<>>)
<1> DEFINE S == Reclaimer!ExpiredIds
<1>1. S \subseteq Ids
  BY DEF Reclaimer!ExpiredIds
<1>2. IsFiniteSet(S) /\ Cardinality(S) \in Nat
  BY <1>1, FS_Subset, FS_CardinalityType, LimitsAssumption
<1>3. order \in [1..Cardinality(S) -> S]
  BY ReclaimerCounts DEF Reclaimer!SetToSeqs
<1>4. order \in Seq(Ids) /\ Len(order) = Cardinality(S)
  BY <1>1, <1>2, <1>3
<1>5. S # {} => Cardinality(S) # 0
  BY <1>2, FS_EmptySet
<1> QED
  BY <1>4, <1>5

LEMMA ReclaimerSteps ==
  ReclaimerIInv /\ [Reclaimer!Next]_(Reclaimer!vars) => ReclaimerIInv'
<1> SUFFICES ASSUME ReclaimerIInv, [Reclaimer!Next]_(Reclaimer!vars)
             PROVE  ReclaimerIInv'
  OBVIOUS
<1> USE DEF ReclaimerIInv, ReclaimerInv, Reclaimer!ReclaimerInv, Reclaimer!TypeOK,
        Reclaimer!CleanedOnce, Registered
<1>1. ASSUME NEW id \in Ids, Reclaimer!Register(id) PROVE ReclaimerIInv'
  <2>1. registered' \in 0..MaxRegistered /\ registered' = registered + 1
    BY <1>1, LimitsAssumption DEF Reclaimer!Register
  <2>2. resources' = [resources EXCEPT ![id] = registered'] /\ UNCHANGED <<expired, cleaned, rounds>>
    BY <1>1 DEF Reclaimer!Register
  <2>3. ReclaimerInv'
    BY <2>1, <2>2
  <2>4. cleaned[registered'] = 0
    BY <2>1
  <2>5. Registered'
    BY <2>1, <2>2, <2>4
  <2> QED
    BY <2>3, <2>5
<1>2. ASSUME NEW id \in Ids, Reclaimer!Unregister(id) PROVE ReclaimerIInv'
  <2>1. resources' = [resources EXCEPT ![id] = 0] /\ UNCHANGED <<expired, cleaned, registered, rounds>>
    BY <1>2 DEF Reclaimer!Unregister
  <2>2. resources' \in [Ids -> 0..registered']
    BY <2>1, LimitsAssumption
  <2>3. Registered'
    BY <2>1
  <2> QED
    BY <2>1, <2>2, <2>3
<1>3. ASSUME NEW id \in Ids, Reclaimer!Expire(id) PROVE ReclaimerIInv'
  <2>1. expired' = expired \cup {resources[id]} /\ UNCHANGED <<resources, cleaned, registered, rounds>>
    BY <1>3 DEF Reclaimer!Expire
  <2>2. resources[id] \in 1..registered
    BY <1>3, LimitsAssumption DEF Reclaimer!Expire
  <2> QED
    BY <2>1, <2>2
<1>4. ASSUME NEW r \in Rounds, Reclaimer!Begin(r) PROVE ReclaimerIInv'
  <2>1. PICK order \in Reclaimer!SetToSeqs(Reclaimer!ExpiredIds) :
            rounds' = [rounds EXCEPT ![r] = [status |-> "going", todo |-> order]]
    BY <1>4 DEF Reclaimer!Begin
  <2>2. order \in Seq(Ids) /\ order # <<>>
    BY <1>4, OrdersAreSequences DEF Reclaimer!Begin
  <2>3. UNCHANGED <<resources, expired, cleaned, registered>>
    BY <1>4 DEF Reclaimer!Begin
  <2> QED
    BY <2>1, <2>2, <2>3 DEF Reclaimer!Round
<1>5. ASSUME NEW r \in Rounds, Reclaimer!Take(r) PROVE ReclaimerIInv'
  <2> DEFINE id == Head(rounds[r].todo)
  <2>1. rounds[r] \in Reclaimer!Round /\ rounds[r].todo # <<>> /\ id \in Ids
    BY <1>5 DEF Reclaimer!Take, Reclaimer!Round
  <2>2. UNCHANGED <<expired, registered>>
    BY <1>5 DEF Reclaimer!Take
  <2> HIDE DEF id
  <2>3. CASE resources[id] = 0
    <3>1. rounds' = [rounds EXCEPT ![r] = Reclaimer!Rest] /\ UNCHANGED <<resources, cleaned>>
      BY <1>5, <2>3 DEF Reclaimer!Take, id
    <3>2. Reclaimer!Rest \in Reclaimer!Round /\ Reclaimer!Rest.status = "idle"
      BY EmptySeq DEF Reclaimer!Rest, Reclaimer!Round
    <3> QED
      BY <2>2, <3>1, <3>2
  <2>4. CASE resources[id] # 0
    <3>1. /\ resources' = [resources EXCEPT ![id] = 0]
          /\ cleaned' = [cleaned EXCEPT ![resources[id]] = @ + 1]
          /\ rounds' = [rounds EXCEPT ![r].status = "cleaning"]
      BY <1>5, <2>4 DEF Reclaimer!Take, id
    <3>2. resources[id] \in 1..registered /\ cleaned[resources[id]] = 0
      BY <2>1, <2>4, LimitsAssumption
    <3>3. rounds' \in [Rounds -> Reclaimer!Round]
      BY <2>1, <3>1 DEF Reclaimer!Round
    <3>4. ReclaimerInv'
      BY <2>1, <2>2, <3>1, <3>2, <3>3, LimitsAssumption
    <3>5. \A q \in Rounds : rounds'[q].todo = rounds[q].todo
      BY <3>1
    <3>6. \A q \in Rounds : rounds'[q].status # "idle" => rounds'[q].todo # <<>>
      BY <2>1, <3>1, <3>5
    <3>7. Registered'
      BY <2>1, <2>2, <3>1, <3>2, <3>6, LimitsAssumption
    <3> QED
      BY <3>4, <3>7
  <2> QED
    BY <2>3, <2>4
<1>6. ASSUME NEW r \in Rounds, Reclaimer!Cleaned(r) PROVE ReclaimerIInv'
  <2> DEFINE end == IF Len(rounds[r].todo) = 1 THEN Reclaimer!Rest
                    ELSE [status |-> "going", todo |-> Tail(rounds[r].todo)]
  <2>1. rounds' = [rounds EXCEPT ![r] = end] /\ UNCHANGED <<resources, expired, cleaned, registered>>
    BY <1>6 DEF Reclaimer!Cleaned
  <2>2. rounds[r].todo \in Seq(Ids) /\ rounds[r].todo # <<>>
    BY <1>6 DEF Reclaimer!Cleaned, Reclaimer!Round
  <2>3. end \in Reclaimer!Round /\ (end.status # "idle" => end.todo # <<>>)
    <3>1. CASE Len(rounds[r].todo) = 1
      BY <3>1, EmptySeq DEF Reclaimer!Rest, Reclaimer!Round
    <3>2. CASE Len(rounds[r].todo) # 1
      <4>1. /\ Tail(rounds[r].todo) \in Seq(Ids)
            /\ Len(Tail(rounds[r].todo)) = Len(rounds[r].todo) - 1
            /\ Len(Tail(rounds[r].todo)) # 0
        BY <2>2, <3>2, HeadTailProperties, EmptySeq, LenProperties
      <4>2. Tail(rounds[r].todo) # <<>>
        <5> DEFINE rest == Tail(rounds[r].todo)
        <5>1. rest \in Seq(Ids) /\ Len(rest) # 0
          BY <4>1
        <5> HIDE DEF rest
        <5>2. rest # <<>>
          BY <5>1
        <5> QED
          BY <5>2 DEF rest
      <4> QED
        BY <3>2, <4>1, <4>2 DEF Reclaimer!Round
    <3> QED
      BY <3>1, <3>2
  <2> HIDE DEF end
  <2> QED
    BY <2>1, <2>3
<1>7. CASE UNCHANGED Reclaimer!vars
  BY <1>7 DEF Reclaimer!vars
<1> QED
  BY <1>1, <1>2, <1>3, <1>4, <1>5, <1>6, <1>7 DEF Reclaimer!Next

-----------------------------------------------------------------------------
(* The runs of agents.  What a run has asked of the model by the node it   *)
(* is at, pattern by pattern: the limit of a loop is looked at before the  *)
(* edge that goes back.                                                    *)
ReactCounted ==
  /\ Runs!Runs("react", "agent") \/ Runs!Runs("react", "tools") => calls = turns /\ turns < MaxSteps
  /\ Runs!Runs("react", "force_conclude") => calls = turns /\ turns <= MaxSteps
PlanExecuteCounted ==
  /\ Runs!Runs("plan_execute", "plan") => calls = 0 /\ turns = 0
  /\ Runs!Runs("plan_execute", "replan") => calls = turns + 1 /\ turns < MaxReplans
  /\ Runs!Runs("plan_execute", "execute") \/ Runs!Runs("plan_execute", "finalize")
       => calls = turns + 1 /\ turns <= MaxReplans
RewooCounted ==
  /\ Runs!Runs("rewoo", "plan") => calls = 0
  /\ Runs!Runs("rewoo", "execute") \/ Runs!Runs("rewoo", "solve") => calls = 1
ReflectionCounted ==
  /\ Runs!Runs("reflection", "generate") => calls = 2 * turns /\ turns < MaxReflections
  /\ Runs!Runs("reflection", "reflect") => calls = 2 * turns + 1 /\ turns < MaxReflections

(* The calls of so many rounds of planning, each with a whole plan.        *)
Rounded(n) == n * (MaxPlan + 1)
PevCounted ==
  /\ Runs!Runs("pev", "plan") => calls = 0 /\ turns = 0
  /\ Runs!Runs("pev", "replan") => calls <= Rounded(turns + 1) /\ turns < MaxReplans
  /\ Runs!Runs("pev", "step") => /\ calls <= Rounded(turns) + 1 + Len(results)
                                 /\ Len(results) < planned /\ planned <= MaxPlan
                                 /\ turns <= MaxReplans
  /\ Runs!Runs("pev", "verify") => calls <= Rounded(turns + 1) /\ turns <= MaxReplans
Counted == ReactCounted /\ PlanExecuteCounted /\ RewooCounted /\ ReflectionCounted /\ PevCounted

(* The steps of a ReWOO plan that ran are among those of every closed set  *)
(* of steps, and the loop is left when they are closed themselves.         *)
BatchesSound ==
  /\ Runs!Runs("rewoo", "plan") => ran = {}
  /\ \A S \in SUBSET (DOMAIN refs) : Runs!Closed(S) => ran \subseteq S
  /\ node = "solve" => Runs!Closed(ran)

RunsIInv == Runs!TypeOK /\ Runs!CallsBounded /\ Counted /\ BatchesSound

(* Rounds of calls add up.                                                 *)
LEMMA RoundsAdd ==
  ASSUME NEW n \in Nat
  PROVE  /\ Rounded(n) \in Nat
         /\ Rounded(n + 1) = Rounded(n) + MaxPlan + 1
         /\ \A m \in Nat : n <= m => Rounded(n) <= Rounded(m)
<1>1. MaxPlan + 1 \in Nat
  BY LimitsAssumption
<1>2. ASSUME NEW b \in Nat
      PROVE  n * b \in Nat /\ (n + 1) * b = n * b + b
             /\ \A m \in Nat : n <= m => n * b <= m * b
  BY <1>2
<1> QED
  BY <1>1, <1>2, LimitsAssumption DEF Rounded

(* The budget of each pattern.                                             *)
LEMMA Budgets ==
  /\ Runs!Budget["react"] = MaxSteps + 1
  /\ Runs!Budget["plan_execute"] = MaxReplans + 2
  /\ Runs!Budget["rewoo"] = 2
  /\ Runs!Budget["reflection"] = 2 * MaxReflections
  /\ Runs!Budget["pev"] = Rounded(MaxReplans + 1)
BY DEF Runs!Budget, Rounded

LEMMA BudgetsPositive == \A k \in Runs!Kinds : 0 <= Runs!Budget[k]
<1>1. Rounded(MaxReplans + 1) \in Nat
  BY LimitsAssumption, RoundsAdd
<1> QED
  BY <1>1, Budgets, LimitsAssumption DEF Runs!Kinds

LEMMA RunsStart == Runs!Init => RunsIInv
<1> SUFFICES ASSUME Runs!Init PROVE RunsIInv
  OBVIOUS
<1>1. Runs!TypeOK
  BY EmptySeq DEF Runs!Init, Runs!TypeOK
<1>2. Runs!CallsBounded
  BY BudgetsPositive DEF Runs!Init, Runs!CallsBounded
<1>3. Counted
  BY DEF Runs!Init, Counted, ReactCounted, PlanExecuteCounted, RewooCounted, ReflectionCounted,
     PevCounted, Runs!Runs
<1>4. BatchesSound
  BY DEF Runs!Init, BatchesSound, Runs!Runs
<1> QED
  BY <1>1, <1>2, <1>3, <1>4 DEF RunsIInv

LEMMA RunsSteps == RunsIInv /\ [Runs!Next]_(Runs!vars) => RunsIInv'
<1> SUFFICES ASSUME RunsIInv, [Runs!Next]_(Runs!vars) PROVE RunsIInv'
  OBVIOUS
<1> DEFINE Safe == Runs!TypeOK /\ Runs!CallsBounded /\ Counted /\ BatchesSound
<1> USE LimitsAssumption DEF RunsIInv
<1>a. /\ turns \in Nat /\ calls \in Nat /\ planned \in Nat /\ trace \in Nat
      /\ Len(results) \in Nat /\ results \in Seq(BOOLEAN) /\ kind \in Runs!Kinds
  BY LenProperties DEF Runs!TypeOK
<1>1. ASSUME NEW k \in Runs!Kinds, Runs!Start(k) PROVE Safe'
  <2>1. /\ kind' = k /\ history' = <<>> /\ refs' = <<>> /\ ran' = {} /\ planned' = 0
        /\ results' = <<>> /\ turns' = 0 /\ trace' = 0 /\ calls' = 0
        /\ node' = Runs!Entry(k) \/ node' = "over"
    BY <1>1 DEF Runs!Start, Runs!Ends
  <2>2. Runs!TypeOK'
    BY <2>1, EmptySeq DEF Runs!TypeOK
  <2>3. Runs!CallsBounded'
    BY <2>1, BudgetsPositive DEF Runs!CallsBounded
  <2>4. node' \in {"agent", "generate", "plan", "over"} /\ (node' = "generate" => k = "reflection")
        /\ (node' = "agent" => k = "react")
    BY <2>1 DEF Runs!Entry
  <2>5. Counted'
    BY <2>1, <2>4 DEF Counted, ReactCounted, PlanExecuteCounted, RewooCounted,
       ReflectionCounted, PevCounted, Runs!Runs
  <2>6. BatchesSound'
    BY <2>1, <2>4 DEF BatchesSound
  <2> QED
    BY <2>2, <2>3, <2>5, <2>6
<1> USE DEF Runs!Runs, Runs!Calls, Runs!Ends

(* ReAct *)
<1>2. CASE Runs!AgentNode \/ Runs!ToolsNode \/ Runs!ForceConclude
  <2>1. kind = "react" /\ kind' = kind /\ UNCHANGED <<refs, ran, planned, results, trace>>
    BY <1>2 DEF Runs!AgentNode, Runs!ToolsNode, Runs!ForceConclude
  <2>2. history' \in Seq(Tools)
    <3>1. CASE Runs!AgentNode
      <4>1. PICK n \in 0..MaxCalls : \E asked \in [1..n -> Tools] : history' = history \o asked
        BY <3>1 DEF Runs!AgentNode
      <4>2. PICK asked \in [1..n -> Tools] : history' = history \o asked
        BY <4>1
      <4>3. asked \in Seq(Tools) /\ history \in Seq(Tools)
        BY DEF Runs!TypeOK
      <4> QED
        BY <4>2, <4>3, ConcatProperties
    <3>2. CASE UNCHANGED history
      BY <3>2 DEF Runs!TypeOK
    <3> QED
      BY <1>2, <3>1, <3>2 DEF Runs!ToolsNode, Runs!ForceConclude
  <2>3. /\ turns' \in Nat /\ calls' \in Nat /\ calls' <= MaxSteps + 1
        /\ ReactCounted' /\ node' # "solve"
    <3>1. CASE Runs!AgentNode
      <4>1. calls' = turns + 1 /\ turns' = turns + 1 /\ turns < MaxSteps
        BY <1>a, <3>1 DEF Runs!AgentNode, Counted, ReactCounted
      <4>2. /\ node' \in {"force_conclude", "tools", "over"}
            /\ node' # "force_conclude" => turns' < MaxSteps
        BY <1>a, <3>1, <4>1 DEF Runs!AgentNode, Runs!ShouldContinue
      <4> QED
        BY <1>a, <2>1, <4>1, <4>2 DEF ReactCounted
    <3>2. CASE Runs!ToolsNode
      BY <1>a, <2>1, <3>2 DEF Runs!ToolsNode, Counted, ReactCounted
    <3>3. CASE Runs!ForceConclude
      BY <1>a, <2>1, <3>3 DEF Runs!ForceConclude, Counted, ReactCounted
    <3> QED
      BY <1>2, <3>1, <3>2, <3>3
  <2>4. Runs!TypeOK'
    BY <2>1, <2>2, <2>3 DEF Runs!TypeOK
  <2>5. Runs!CallsBounded'
    BY <2>1, <2>3, Budgets DEF Runs!CallsBounded
  <2>6. Counted'
    BY <2>1, <2>3 DEF Counted, PlanExecuteCounted, RewooCounted, ReflectionCounted, PevCounted
  <2>7. BatchesSound'
    BY <2>1, <2>3 DEF BatchesSound, Runs!Closed
  <2> QED
    BY <2>4, <2>5, <2>6, <2>7

(* Plan-execute *)
<1>3. CASE Runs!PlanNode \/ Runs!ExecuteNode \/ Runs!FinalizeNode
  <2>1. kind = "plan_execute" /\ kind' = kind /\ UNCHANGED <<history, refs, ran, trace>>
    BY <1>3 DEF Runs!PlanNode, Runs!ExecuteNode, Runs!FinalizeNode
  <2>2. results' \in Seq(BOOLEAN) /\ planned' \in Nat
    <3>1. CASE Runs!PlanNode
      BY <1>a, <3>1 DEF Runs!PlanNode
    <3>2. CASE Runs!ExecuteNode
      BY <1>a, <3>2, AppendProperties DEF Runs!ExecuteNode
    <3>3. CASE Runs!FinalizeNode
      BY <1>a, <3>3 DEF Runs!FinalizeNode
    <3> QED
      BY <1>3, <3>1, <3>2, <3>3
  <2>3. /\ turns' \in Nat /\ calls' \in Nat /\ calls' <= MaxReplans + 2
        /\ PlanExecuteCounted' /\ node' # "solve"
    <3>1. CASE Runs!PlanNode
      BY <1>a, <2>1, <3>1 DEF Runs!PlanNode, Counted, PlanExecuteCounted
    <3>2. CASE Runs!ExecuteNode
      <4>1. /\ node' \in {"replan", "finalize"} /\ UNCHANGED <<turns, calls>>
            /\ node' = "replan" => turns < MaxReplans
        BY <3>2 DEF Runs!ExecuteNode, Runs!AfterExecute
      <4> QED
        BY <1>a, <2>1, <3>2, <4>1 DEF Runs!ExecuteNode, Counted, PlanExecuteCounted
    <3>3. CASE Runs!FinalizeNode
      BY <1>a, <2>1, <3>3 DEF Runs!FinalizeNode, Counted, PlanExecuteCounted
    <3> QED
      BY <1>3, <3>1, <3>2, <3>3
  <2>4. Runs!TypeOK'
    BY <2>1, <2>2, <2>3 DEF Runs!TypeOK
  <2>5. Runs!CallsBounded'
    BY <2>1, <2>3, Budgets DEF Runs!CallsBounded
  <2>6. Counted'
    BY <2>1, <2>3 DEF Counted, ReactCounted, RewooCounted, ReflectionCounted, PevCounted
  <2>7. BatchesSound'
    BY <2>1, <2>3 DEF BatchesSound, Runs!Closed
  <2> QED
    BY <2>4, <2>5, <2>6, <2>7

(* ReWOO *)
<1>4. CASE Runs!PlanSteps \/ Runs!ExecuteBatch \/ Runs!SolveNode
  <2>1. kind = "rewoo" /\ kind' = kind /\ UNCHANGED <<history, planned, results, turns, trace>>
    BY <1>4 DEF Runs!PlanSteps, Runs!ExecuteBatch, Runs!SolveNode
  <2>2. calls' \in Nat /\ calls' <= 2 /\ RewooCounted'
    BY <1>a, <1>4, <2>1 DEF Runs!PlanSteps, Runs!ExecuteBatch, Runs!SolveNode, Counted, RewooCounted
  <2>3. ran' \subseteq DOMAIN refs' /\ BatchesSound'
    <3>1. CASE Runs!PlanSteps
      <4>1. ran' = {} /\ node' = "execute"
        BY <3>1 DEF Runs!PlanSteps, BatchesSound
      <4> QED
        BY <4>1 DEF BatchesSound
    <3>2. CASE Runs!ExecuteBatch
      <4> DEFINE batch == {i \in DOMAIN refs : Runs!Ready(i)}
      <4>1. /\ refs' = refs /\ ran' = ran \cup batch
            /\ node' = IF batch = {} THEN "solve" ELSE "execute"
        BY <3>2 DEF Runs!ExecuteBatch
      <4>2. \A i \in batch : i \in DOMAIN refs /\ refs[i] \subseteq ran
        BY DEF Runs!Ready
      <4>3. ASSUME NEW S \in SUBSET (DOMAIN refs), Runs!Closed(S) PROVE ran' \subseteq S
        <5>1. ran \subseteq S
          BY <4>3 DEF BatchesSound
        <5> QED
          BY <4>1, <4>2, <4>3, <5>1 DEF Runs!Closed
      <4>4. ASSUME batch = {} PROVE Runs!Closed(ran')
        <5>1. \A i \in DOMAIN refs : refs[i] \subseteq ran => i \in ran
          BY <4>4 DEF Runs!Ready
        <5> QED
          BY <4>1, <4>4, <5>1 DEF Runs!Closed
      <4>5. ran' \subseteq DOMAIN refs'
        BY <4>1 DEF Runs!TypeOK
      <4>6. \A S \in SUBSET (DOMAIN refs') : Runs!Closed(S)' => ran' \subseteq S
        BY <4>1, <4>3 DEF Runs!Closed
      <4>7. node' = "solve" => Runs!Closed(ran)'
        BY <4>1, <4>4 DEF Runs!Closed
      <4>8. node' # "plan"
        BY <4>1
      <4> QED
        BY <4>5, <4>6, <4>7, <4>8 DEF BatchesSound, Runs!Closed
    <3>3. CASE Runs!SolveNode
      BY <3>3 DEF Runs!SolveNode, BatchesSound, Runs!Closed, Runs!TypeOK
    <3> QED
      BY <1>4, <3>1, <3>2, <3>3
  <2>4. Runs!TypeOK'
    BY <2>1, <2>2, <2>3 DEF Runs!TypeOK
  <2>5. Runs!CallsBounded'
    BY <2>1, <2>2, Budgets DEF Runs!CallsBounded
  <2>6. Counted'
    BY <2>1, <2>2 DEF Counted, ReactCounted, PlanExecuteCounted, ReflectionCounted, PevCounted
  <2> QED
    BY <2>3, <2>4, <2>5, <2>6

(* Reflection *)
<1>5. CASE Runs!GenerateNode \/ Runs!ReflectNode
  <2>1. kind = "reflection" /\ kind' = kind
        /\ UNCHANGED <<history, refs, ran, planned, results, trace>>
    BY <1>5 DEF Runs!GenerateNode, Runs!ReflectNode
  <2>2. /\ turns' \in Nat /\ calls' \in Nat /\ calls' <= 2 * MaxReflections
        /\ ReflectionCounted' /\ node' # "solve"
    <3>1. CASE Runs!GenerateNode
      BY <1>a, <2>1, <3>1 DEF Runs!GenerateNode, Counted, ReflectionCounted
    <3>2. CASE Runs!ReflectNode
      BY <1>a, <2>1, <3>2 DEF Runs!ReflectNode, Counted, ReflectionCounted
    <3> QED
      BY <1>5, <3>1, <3>2
  <2>3. Runs!TypeOK'
    BY <2>1, <2>2 DEF Runs!TypeOK
  <2>4. Runs!CallsBounded'
    BY <2>1, <2>2, Budgets DEF Runs!CallsBounded
  <2>5. Counted'
    BY <2>1, <2>2 DEF Counted, ReactCounted, PlanExecuteCounted, RewooCounted, PevCounted
  <2>6. BatchesSound'
    BY <2>1, <2>2 DEF BatchesSound, Runs!Closed
  <2> QED
    BY <2>3, <2>4, <2>5, <2>6

(* Plan-execute-verify *)
<1>6. CASE Runs!PlanPev \/ Runs!StepPev \/ Runs!VerifyPev
  <2>1. kind = "pev" /\ kind' = kind /\ UNCHANGED <<history, refs, ran>>
    BY <1>6 DEF Runs!PlanPev, Runs!StepPev, Runs!VerifyPev
  <2>2. trace' \in Nat /\ planned' \in Nat
    BY <1>a, <1>6 DEF Runs!PlanPev, Runs!StepPev, Runs!VerifyPev
  <2>3. /\ Rounded(turns) \in Nat /\ Rounded(turns + 1) = Rounded(turns) + MaxPlan + 1
        /\ Rounded(turns + 2) = Rounded(turns + 1) + MaxPlan + 1 /\ Rounded(turns + 1) \in Nat
        /\ Rounded(0) \in Nat
    BY <1>a, RoundsAdd, turns + 1 \in Nat, (turns + 1) + 1 = turns + 2
  <2>4. /\ Rounded(MaxReplans + 1) \in Nat
        /\ \A n \in Nat : n <= MaxReplans => Rounded(n + 1) <= Rounded(MaxReplans + 1)
    BY RoundsAdd
  <2>5. /\ turns' \in Nat /\ calls' \in Nat /\ calls' <= Rounded(MaxReplans + 1)
        /\ results' \in Seq(BOOLEAN) /\ PevCounted' /\ node' # "solve"
    <3>1. CASE Runs!PlanPev
      <4>1. results' = <<>> /\ results' \in Seq(BOOLEAN) /\ Len(results') = 0
        BY <3>1, EmptySeq DEF Runs!PlanPev
      <4>2. calls' = calls + 1 /\ planned' \in 1..MaxPlan /\ node' = "step"
            /\ turns' = IF node = "replan" THEN turns + 1 ELSE turns
        BY <3>1 DEF Runs!PlanPev
      <4>3. calls' <= Rounded(turns') + 1 /\ turns' <= MaxReplans /\ turns' \in Nat /\ calls' \in Nat
        BY <1>a, <2>1, <2>3, <3>1, <4>2 DEF Runs!PlanPev, Counted, PevCounted
      <4>4. Rounded(turns') \in Nat /\ Rounded(turns') + 1 <= Rounded(turns' + 1)
        BY <4>3, RoundsAdd
      <4>5. calls' <= Rounded(MaxReplans + 1)
        BY <2>4, <4>3, <4>4, RoundsAdd
      <4> QED
        <5>1. 0 < planned' /\ planned' <= MaxPlan /\ calls' <= Rounded(turns') + 1 + 0
          BY <4>2, <4>3, <4>4
        <5>2. PevCounted'
          BY <2>1, <4>1, <4>2, <4>3, <5>1 DEF PevCounted
        <5> QED
          BY <4>1, <4>2, <4>3, <4>5, <5>2
    <3>2. CASE Runs!StepPev
      <4>1. results' \in Seq(BOOLEAN) /\ Len(results') = Len(results) + 1
        BY <1>a, <3>2, AppendProperties DEF Runs!StepPev
      <4>2. /\ calls' \in {calls, calls + 1} /\ planned' = planned /\ turns' = turns
            /\ node' = IF Len(results') = planned THEN "verify" ELSE "step"
        BY <3>2 DEF Runs!StepPev
      <4>3. /\ calls <= Rounded(turns) + 1 + Len(results) /\ Len(results) < planned
            /\ planned <= MaxPlan /\ turns <= MaxReplans
        BY <3>2 DEF Runs!StepPev, Counted, PevCounted
      <4>4. calls' <= Rounded(turns) + 1 + Len(results') /\ Len(results') <= planned
        <5> DEFINE n == Len(results)
                   r == Rounded(turns)
        <5>1. calls \in Nat /\ n \in Nat /\ planned \in Nat /\ r \in Nat
          BY <1>a, <2>3, <4>3
        <5>2. calls <= r + 1 + n /\ n < planned
          BY <4>3
        <5> HIDE DEF n, r
        <5>3. n + 1 <= planned /\ calls + 1 <= r + 1 + (n + 1) /\ calls <= r + 1 + (n + 1)
          BY <5>1, <5>2
        <5>4. calls' <= r + 1 + (n + 1)
          BY <4>2, <5>3
        <5> QED
          BY <4>1, <5>3, <5>4 DEF n, r
      <4>5. calls' <= Rounded(turns + 1)
        <5> DEFINE n == Len(results')
                   r == Rounded(turns)
                   w == Rounded(turns + 1)
        <5>1. calls' \in Nat /\ n \in Nat /\ planned \in Nat /\ r \in Nat /\ w = r + MaxPlan + 1
          BY <1>a, <2>3, <4>1, <4>2
        <5>2. calls' <= r + 1 + n /\ n <= planned /\ planned <= MaxPlan
          BY <4>3, <4>4
        <5>3. MaxPlan \in Nat
          BY LimitsAssumption
        <5> HIDE DEF n, r, w
        <5>4. calls' <= w
          BY <5>1, <5>2, <5>3
        <5> QED
          BY <5>4 DEF w
      <4>6. calls' <= Rounded(MaxReplans + 1)
        <5>1. Rounded(turns + 1) <= Rounded(MaxReplans + 1)
          BY <1>a, <2>4, <4>3
        <5>2. calls' \in Nat
          BY <1>a, <4>2
        <5> QED
          BY <2>3, <2>4, <4>5, <5>1, <5>2
      <4>7. Len(results') # planned => Len(results') < planned
        BY <1>a, <4>1, <4>4
      <4> QED
        BY <1>a, <2>1, <4>1, <4>2, <4>3, <4>4, <4>5, <4>6, <4>7 DEF PevCounted
    <3>3. CASE Runs!VerifyPev
      <4>1. calls <= Rounded(turns + 1) /\ turns <= MaxReplans /\ UNCHANGED <<planned, results, turns, calls>>
        BY <3>3 DEF Runs!VerifyPev, Counted, PevCounted
      <4>2. node' \in {"over", "replan"} /\ (node' = "replan" => turns < MaxReplans)
        BY <3>3 DEF Runs!VerifyPev
      <4>3. calls <= Rounded(MaxReplans + 1)
        <5>1. Rounded(turns + 1) <= Rounded(MaxReplans + 1)
          BY <1>a, <2>4, <4>1
        <5> QED
          BY <1>a, <2>3, <2>4, <4>1, <5>1
      <4> QED
        BY <1>a, <2>1, <4>1, <4>2, <4>3 DEF PevCounted
    <3> QED
      BY <1>6, <3>1, <3>2, <3>3
  <2>6. Runs!TypeOK'
    BY <2>1, <2>2, <2>5 DEF Runs!TypeOK
  <2>7. Runs!CallsBounded'
    BY <2>1, <2>5, Budgets DEF Runs!CallsBounded
  <2>8. Counted'
    BY <2>1, <2>5 DEF Counted, ReactCounted, PlanExecuteCounted, RewooCounted, ReflectionCounted
  <2>9. BatchesSound'
    BY <2>1, <2>5 DEF BatchesSound, Runs!Closed
  <2> QED
    BY <2>6, <2>7, <2>8, <2>9
<1>7. CASE UNCHANGED Runs!vars
  BY <1>7 DEF Runs!vars, Runs!TypeOK, Runs!CallsBounded, Counted, ReactCounted,
     PlanExecuteCounted, RewooCounted, ReflectionCounted, PevCounted, BatchesSound, Runs!Closed
<1> QED
  BY <1>1, <1>2, <1>3, <1>4, <1>5, <1>6, <1>7 DEF Runs!Next

(* A ReWOO plan that is solved ran what can be run, and nothing else.      *)
LEMMA RunsHold == RunsIInv => Runs!RunsInv
<1> SUFFICES ASSUME RunsIInv PROVE Runs!RunnableStepsRan
  BY DEF RunsIInv, Runs!RunsInv
<1> SUFFICES ASSUME node = "solve"
             PROVE  ran = {i \in DOMAIN refs :
                             \A S \in SUBSET (DOMAIN refs) : Runs!Closed(S) => i \in S}
  BY DEF Runs!RunnableStepsRan
<1>1. ran \in SUBSET (DOMAIN refs) /\ Runs!Closed(ran)
  BY DEF RunsIInv, Runs!TypeOK, BatchesSound
<1>2. \A S \in SUBSET (DOMAIN refs) : Runs!Closed(S) => ran \subseteq S
  BY DEF RunsIInv, BatchesSound
<1> QED
  BY <1>1, <1>2

-----------------------------------------------------------------------------
(* The sessions.                                                           *)
Places == {"idle", "connecting", "dialing", "disconnecting", "closing", "pinging", "cleaning"}
Task == [at : Places, server : Servers \cup {Sessions!Idle.server}, reg : 0..MaxRegistrations,
         left : 0..MaxRetries, todo : SUBSET Servers]
Made(s) == 1..Len(session[s])       \* the registrations of a server so far

SessionsTyped ==
  /\ live \in [Servers -> 0..MaxRegistrations]
  /\ session \in [Servers -> Seq(Sessions!SessionInfo)]
  /\ \A s \in Servers : live[s] <= Len(session[s]) /\ Len(session[s]) <= MaxRegistrations
  /\ activeCount \in Nat /\ opened \in Nat
  /\ lock \in Callers \cup {"free"}

(* A call names a server; between its awaits it holds a registration that  *)
(* was made, and dials and closes under the lock.                          *)
CallsTyped ==
  /\ call \in [Callers -> Task]
  /\ \A p \in Callers : ~Sessions!At(p, "idle") /\ ~Sessions!At(p, "cleaning") => call[p].server \in Servers
  /\ \A p \in Callers : call[p].at \in {"connecting", "dialing", "closing", "pinging"}
                          => call[p].reg \in Made(call[p].server)
  /\ \A p \in Callers : call[p].at \in {"dialing", "closing"} => lock = p

(* The client that is being closed is still there.                         *)
ClosingHasClient ==
  \A p \in Callers : Sessions!At(p, "closing")
                       => session[call[p].server][call[p].reg].client # "none"

(* Every session with a client accounts for one that was opened: those     *)
(* that connect() forgets when it dials anew are opened, too.              *)
Clients == {x \in Servers \X (1..MaxRegistrations) :
              x[2] \in Made(x[1]) /\ session[x[1]][x[2]].client # "none"}
Accounted == Cardinality(Clients) <= opened

LEMMA IsClient ==
  ASSUME SessionsTyped, NEW s \in Servers, NEW r \in Made(s), session[s][r].client # "none"
  PROVE  <<s, r>> \in Clients
<1>1. Len(session[s]) \in Nat /\ Len(session[s]) <= MaxRegistrations /\ MaxRegistrations \in Nat
  BY LimitsAssumption DEF SessionsTyped
<1>2. r \in 1..MaxRegistrations
  BY <1>1 DEF Made
<1> QED
  BY <1>2 DEF Clients

SessionsIInv ==
  SessionsTyped /\ CallsTyped /\ ClosingHasClient /\ Accounted
  /\ Sessions!CountNeverOverstates /\ Sessions!ConnectedHasClient

LEMMA ClientsFinite ==
  SessionsTyped => IsFiniteSet(Clients) /\ Cardinality(Clients) \in Nat
<1>1. IsFiniteSet(Servers \X (1..MaxRegistrations))
  <2>1. IsFiniteSet(1..MaxRegistrations)
    BY LimitsAssumption, FS_Interval
  <2> QED
    BY <2>1, LimitsAssumption, FS_Product
<1>2. IsFiniteSet(Clients)
  BY <1>1, FS_Subset DEF Clients
<1> QED
  BY <1>2, FS_CardinalityType

(* What becomes of one session: the others stay as they are, and so do the *)
(* typing, the clients and what is accounted for.                          *)
Replaced(s, r, info) == session' = [session EXCEPT ![s][r] = info]

LEMMA SessionBecomes ==
  ASSUME SessionsTyped, NEW s \in Servers, NEW r \in Made(s), NEW info \in Sessions!SessionInfo,
         Replaced(s, r, info)
  PROVE  /\ session' \in [Servers -> Seq(Sessions!SessionInfo)]
         /\ \A t \in Servers : Len(session'[t]) = Len(session[t])
         /\ session'[s][r] = info
         /\ \A t \in Servers : \A q \in Made(t) : <<t, q>> # <<s, r>> => session'[t][q] = session[t][q]
         /\ info.client # "none" => Clients' = Clients \cup {<<s, r>>}
         /\ info.client = "none" => Clients' = Clients \ {<<s, r>>}
<1>1. session[s] \in Seq(Sessions!SessionInfo)
  BY DEF SessionsTyped
<1>2. [session[s] EXCEPT ![r] = info] \in Seq(Sessions!SessionInfo)
      /\ Len([session[s] EXCEPT ![r] = info]) = Len(session[s])
  BY <1>1, ExceptSeq DEF Made
<1>3. session' = [session EXCEPT ![s] = [session[s] EXCEPT ![r] = info]]
  BY DEF SessionsTyped, Replaced
<1>4. session' \in [Servers -> Seq(Sessions!SessionInfo)]
      /\ \A t \in Servers : Len(session'[t]) = Len(session[t])
  BY <1>2, <1>3 DEF SessionsTyped
<1>5. session'[s][r] = info
  BY <1>1, <1>3 DEF Made, SessionsTyped
<1>6. ASSUME NEW t \in Servers, NEW q \in Made(t), <<t, q>> # <<s, r>>
      PROVE  session'[t][q] = session[t][q]
  BY <1>1, <1>3, <1>6 DEF Made, SessionsTyped
<1>7. \A t : t \in Servers => Made(t)' = Made(t)
  BY <1>4 DEF Made
<1>8. <<s, r>> \in Servers \X (1..MaxRegistrations)
  BY <1>1, LenProperties, LimitsAssumption DEF SessionsTyped, Made
<1>9. ASSUME NEW x \in Servers \X (1..MaxRegistrations), x # <<s, r>>
      PROVE  x \in Clients' <=> x \in Clients
  <2>1. x[1] \in Servers /\ x = <<x[1], x[2]>>
    OBVIOUS
  <2>2. Made(x[1])' = Made(x[1])
    BY <1>7, <2>1
  <2>3. x[2] \in Made(x[1]) => session'[x[1]][x[2]] = session[x[1]][x[2]]
    BY <1>6, <1>9, <2>1
  <2> QED
    BY <2>2, <2>3 DEF Clients
<1>10. <<s, r>> \in Clients' <=> info.client # "none"
  BY <1>5, <1>7, <1>8 DEF Clients
<1>11. Clients \subseteq Servers \X (1..MaxRegistrations)
       /\ Clients' \subseteq Servers \X (1..MaxRegistrations)
  BY DEF Clients
<1>12. info.client # "none" => Clients' = Clients \cup {<<s, r>>}
  BY <1>8, <1>9, <1>10, <1>11
<1>13. info.client = "none" => Clients' = Clients \ {<<s, r>>}
  BY <1>8, <1>9, <1>10, <1>11
<1> QED
  BY <1>4, <1>5, <1>6, <1>12, <1>13

(* What becomes of one call, when the lock is its own or free before and after. *)
TaskHolds(p) ==
  /\ call[p] \in Task
  /\ ~Sessions!At(p, "idle") /\ ~Sessions!At(p, "cleaning") => call[p].server \in Servers
  /\ call[p].at \in {"connecting", "dialing", "closing", "pinging"} => call[p].reg \in Made(call[p].server)
  /\ call[p].at \in {"dialing", "closing"} => lock = p

LEMMA CallBecomes ==
  ASSUME CallsTyped, NEW p \in Callers, NEW task,
         call' = [call EXCEPT ![p] = task],
         lock' = lock \/ {lock, lock'} \subseteq {p, "free"},
         \A s \in Servers : Made(s) \subseteq Made(s)',
         TaskHolds(p)'
  PROVE  CallsTyped'
<1>0. call \in [Callers -> Task] /\ call'[p] = task
  BY DEF CallsTyped
<1>1. call' \in [Callers -> Task]
  BY <1>0 DEF TaskHolds
<1>2. ASSUME NEW q \in Callers PROVE TaskHolds(q)'
  <2>1. CASE q = p
    BY <2>1
  <2>2. CASE q # p
    <3>1. call'[q] = call[q]
      BY <2>2, <1>0
    <3>2. lock = q => lock' = q
      BY <2>2, LimitsAssumption
    <3> QED
      BY <3>1, <3>2, <1>1 DEF CallsTyped, TaskHolds, Sessions!At
  <2> QED
    BY <2>1, <2>2
<1> QED
  BY <1>1, <1>2 DEF CallsTyped, TaskHolds, Sessions!At

(* Returns(p) leaves a call that waits for nothing.                        *)
LEMMA Returned ==
  ASSUME CallsTyped, NEW p \in Callers, Sessions!Returns(p)
  PROVE  /\ TaskHolds(p)'
         /\ call' = [call EXCEPT ![p] = call'[p]]
         /\ call'[p].at \in {"idle", "cleaning"}
<1>1. call[p] \in Task
  BY DEF CallsTyped
<1>2. Sessions!Idle \in Task
  BY LimitsAssumption DEF Sessions!Idle, Task, Places
<1>3. [call[p] EXCEPT !.at = "cleaning"] \in Task
  BY <1>1 DEF Task, Places
<1>4. CASE call[p].todo = {}
  <2>1. call' = [call EXCEPT ![p] = Sessions!Idle] /\ call'[p] = Sessions!Idle
    BY <1>4 DEF Sessions!Returns, CallsTyped
  <2>2. Sessions!Idle.at = "idle"
    BY DEF Sessions!Idle
  <2> QED
    BY <2>1, <2>2, <1>2 DEF TaskHolds, Sessions!At
<1>5. CASE call[p].todo # {}
  <2> DEFINE cleaning == [call[p] EXCEPT !.at = "cleaning"]
  <2>1. call' = [call EXCEPT ![p] = cleaning] /\ call'[p] = cleaning
    BY <1>5 DEF Sessions!Returns, CallsTyped
  <2>2. cleaning.at = "cleaning"
    BY <1>1 DEF Task
  <2> QED
    BY <2>1, <2>2, <1>3 DEF TaskHolds, Sessions!At
<1> QED
  BY <1>4, <1>5

(* The call with some of its parts replaced, as an action writes it.       *)
LEMMA CallsStay ==
  ASSUME CallsTyped, UNCHANGED call,
         lock' = lock, \A s \in Servers : Made(s) \subseteq Made(s)'
  PROVE  CallsTyped'
BY DEF CallsTyped, Sessions!At

LEMMA SessionsStart == Sessions!Init => SessionsIInv
<1> SUFFICES ASSUME Sessions!Init PROVE SessionsIInv
  OBVIOUS
<1>1. Sessions!Idle \in Task /\ Sessions!Idle.at = "idle"
  BY LimitsAssumption DEF Sessions!Idle, Task, Places
<1>2. SessionsTyped
  BY LimitsAssumption, EmptySeq DEF SessionsTyped, Sessions!Init
<1>3. CallsTyped
  BY <1>1 DEF CallsTyped, Sessions!Init, Sessions!At
<1>4. ClosingHasClient
  BY <1>1 DEF ClosingHasClient, Sessions!Init, Sessions!At
<1>5. Accounted
  <2>1. \A s \in Servers : Made(s) = {}
    BY EmptySeq DEF Made, Sessions!Init
  <2>2. Clients = {}
    BY <2>1 DEF Clients
  <2> QED
    BY <2>2, FS_EmptySet DEF Accounted, Sessions!Init
<1>6. Sessions!CountNeverOverstates /\ Sessions!ConnectedHasClient
  BY EmptySeq DEF Sessions!Init, Sessions!CountNeverOverstates, Sessions!ConnectedHasClient
<1> QED
  BY <1>2, <1>3, <1>4, <1>5, <1>6 DEF SessionsIInv

(* A session of its own that is replaced: what every such step keeps.      *)
LEMMA SessionKept ==
  ASSUME SessionsIInv, NEW s \in Servers, NEW r \in Made(s), NEW info \in Sessions!SessionInfo,
         Replaced(s, r, info),
         info.status = "connected" => info.client # "none",
         UNCHANGED live
  PROVE  /\ session' \in [Servers -> Seq(Sessions!SessionInfo)]
         /\ \A t \in Servers : live'[t] <= Len(session'[t]) /\ Len(session'[t]) <= MaxRegistrations
         /\ \A t \in Servers : Made(t)' = Made(t)
         /\ Sessions!ConnectedHasClient'
<1>1. /\ session' \in [Servers -> Seq(Sessions!SessionInfo)]
      /\ \A t \in Servers : Len(session'[t]) = Len(session[t])
      /\ session'[s][r] = info
      /\ \A t \in Servers : \A q \in Made(t) : <<t, q>> # <<s, r>> => session'[t][q] = session[t][q]
      /\ info.client # "none" => Clients' = Clients \cup {<<s, r>>}
      /\ info.client = "none" => Clients' = Clients \ {<<s, r>>}
  <2>1. SessionsTyped
    BY DEF SessionsIInv
  <2> HIDE DEF SessionsTyped
  <2> QED
    BY <2>1, SessionBecomes
<1>2. \A t \in Servers : Made(t)' = Made(t)
  BY <1>1 DEF Made
<1>3. \A t \in Servers : DOMAIN session[t] = Made(t) /\ DOMAIN session'[t] = Made(t)
  BY <1>1, LenProperties DEF Made, SessionsIInv, SessionsTyped
<1>4. Sessions!ConnectedHasClient'
  <2> SUFFICES ASSUME NEW t \in Servers, NEW q \in Made(t), session'[t][q].status = "connected"
               PROVE  session'[t][q].client # "none"
    BY <1>3 DEF Sessions!ConnectedHasClient
  <2>1. CASE t = s /\ q = r
    BY <2>1, <1>1
  <2>2. CASE ~(t = s /\ q = r)
    BY <2>2, <1>1, <1>3 DEF SessionsIInv, Sessions!ConnectedHasClient
  <2> QED
    BY <2>1, <2>2
<1>5. \A t \in Servers : live'[t] <= Len(session'[t]) /\ Len(session'[t]) <= MaxRegistrations
  BY <1>1 DEF SessionsIInv, SessionsTyped
<1> QED
  BY <1>1, <1>2, <1>4, <1>5

(* What the step leaves alone: nothing about the clients is disturbed.     *)
LEMMA ClosingStays ==
  ASSUME SessionsIInv, CallsTyped', 
         \A s \in Servers : \A r \in Made(s) : session'[s][r].client = session[s][r].client,
         \A p \in Callers : Sessions!At(p, "closing")' => Sessions!At(p, "closing") /\ call'[p] = call[p]
  PROVE  ClosingHasClient'
<1> SUFFICES ASSUME NEW p \in Callers, Sessions!At(p, "closing")'
             PROVE  session'[call'[p].server][call'[p].reg].client # "none"
  BY DEF ClosingHasClient
<1>1. Sessions!At(p, "closing") /\ call'[p] = call[p]
  OBVIOUS
<1>2. call[p].server \in Servers /\ call[p].reg \in Made(call[p].server)
  BY <1>1 DEF SessionsIInv, CallsTyped, Sessions!At
<1> QED
  BY <1>1, <1>2 DEF SessionsIInv, ClosingHasClient

LEMMA SessionsSteps == SessionsIInv /\ [Sessions!Next]_(Sessions!vars) => SessionsIInv'
<1> SUFFICES ASSUME SessionsIInv, [Sessions!Next]_(Sessions!vars) PROVE SessionsIInv'
  OBVIOUS
<1> USE DEF SessionsIInv
<1>0. /\ SessionsTyped /\ CallsTyped /\ ClosingHasClient /\ Accounted
      /\ Sessions!CountNeverOverstates /\ Sessions!ConnectedHasClient
      /\ IsFiniteSet(Clients) /\ Cardinality(Clients) \in Nat
      /\ \A s \in Servers : Len(session[s]) \in Nat /\ DOMAIN session[s] = Made(s)
  BY ClientsFinite, LenProperties DEF SessionsTyped, Made
<1>1. ASSUME NEW s \in Servers, Sessions!Register(s) PROVE SessionsIInv'
  <2> DEFINE new == [client |-> "none", status |-> "disconnected"]
  <2>0. new \in Sessions!SessionInfo
    BY DEF Sessions!SessionInfo
  <2>1. session' = [session EXCEPT ![s] = Append(session[s], new)]
        /\ live' = [live EXCEPT ![s] = Len(session[s]) + 1]
        /\ Len(session[s]) < MaxRegistrations
        /\ UNCHANGED <<activeCount, lock, call, opened>>
    BY <1>1, <1>0 DEF Sessions!Register, SessionsTyped
  <2>2. session[s] \in Seq(Sessions!SessionInfo)
    BY <1>0 DEF SessionsTyped
  <2>3. /\ Append(session[s], new) \in Seq(Sessions!SessionInfo)
        /\ Len(Append(session[s], new)) = Len(session[s]) + 1
        /\ \A i \in 1..Len(session[s]) : Append(session[s], new)[i] = session[s][i]
        /\ Append(session[s], new)[Len(session[s]) + 1] = new
    BY <2>0, <2>2, AppendProperties
  <2> HIDE DEF new
  <2>4. /\ session' \in [Servers -> Seq(Sessions!SessionInfo)]
        /\ Len(session'[s]) = Len(session[s]) + 1
        /\ \A t \in Servers : t # s => session'[t] = session[t]
        /\ \A i \in Made(s) : session'[s][i] = session[s][i]
        /\ session'[s][Len(session[s]) + 1] = new
    BY <1>0, <2>1, <2>3 DEF SessionsTyped, Made
  <2>5. SessionsTyped'
    BY <1>0, <2>1, <2>4, LimitsAssumption DEF SessionsTyped
  <2>6. \A t \in Servers : /\ Made(t) \subseteq Made(t)'
                           /\ DOMAIN session'[t] = Made(t)'
                           /\ \A i \in Made(t) : session'[t][i] = session[t][i]
    <3>1. \A t \in Servers : DOMAIN session'[t] = Made(t)' /\ Len(session'[t]) \in Nat
      BY <2>4, LenProperties DEF Made
    <3> QED
      BY <1>0, <2>4, <3>1 DEF Made
  <2>7. CallsTyped'
    BY <1>0, <2>1, <2>6, CallsStay
  <2>8. ClosingHasClient'
    BY <1>0, <2>1, <2>6, <2>7, ClosingStays DEF Sessions!At
  <2>9. new.client = "none" /\ new.status = "disconnected"
    BY DEF new
  <2>10. \A t \in Servers : \A i \in Made(t)' : i \in Made(t) \/ session'[t][i] = new
    BY <1>0, <2>4 DEF Made
  <2>11. Clients' = Clients
    BY <2>6, <2>9, <2>10 DEF Clients
  <2>12. Accounted' /\ Sessions!CountNeverOverstates'
    BY <1>0, <2>1, <2>11 DEF Accounted, Sessions!CountNeverOverstates
  <2>13. Sessions!ConnectedHasClient'
    BY <1>0, <2>6, <2>9, <2>10 DEF Sessions!ConnectedHasClient
  <2> QED
    BY <2>5, <2>7, <2>8, <2>12, <2>13
<1>2. ASSUME NEW s \in Servers, Sessions!Unregister(s) PROVE SessionsIInv'
  <2>1. live' = [live EXCEPT ![s] = 0] /\ UNCHANGED <<session, activeCount, lock, call, opened>>
    BY <1>2 DEF Sessions!Unregister
  <2>2. SessionsTyped'
    BY <1>0, <2>1, LimitsAssumption DEF SessionsTyped
  <2> QED
    BY <1>0, <2>1, <2>2 DEF CallsTyped, ClosingHasClient, Accounted, Clients, Made, Sessions!At,
       Sessions!CountNeverOverstates, Sessions!ConnectedHasClient
<1>3. ASSUME NEW p \in Callers, UNCHANGED <<live, session, activeCount, opened>>,
             lock' = lock \/ {lock, lock'} \subseteq {p, "free"},
             call' = [call EXCEPT ![p] = call'[p]],
             TaskHolds(p)', call'[p].at # "closing"
      PROVE  SessionsIInv'
  <2>1. CallsTyped'
    <3>1. \A s \in Servers : Made(s) \subseteq Made(s)'
      BY <1>3 DEF Made
    <3> QED
      BY <1>0, <1>3, <3>1, CallBecomes
  <2>2. \A q \in Callers : Sessions!At(q, "closing")' => Sessions!At(q, "closing") /\ call'[q] = call[q]
    BY <1>0, <1>3 DEF CallsTyped, Sessions!At
  <2>3. ClosingHasClient'
    BY <1>0, <1>3, <2>1, <2>2, ClosingStays
  <2>4. SessionsTyped'
    BY <1>0, <1>3 DEF SessionsTyped, CallsTyped
  <2> QED
    BY <1>0, <1>3, <2>1, <2>3, <2>4 DEF Accounted, Clients, Made,
       Sessions!CountNeverOverstates, Sessions!ConnectedHasClient
<1>4. ASSUME NEW p \in Callers, NEW s \in Servers, Sessions!Connect(p, s) PROVE SessionsIInv'
  <2> DEFINE task == [call[p] EXCEPT !.at = "connecting", !.server = s, !.reg = live[s]]
  <2>1. call' = [call EXCEPT ![p] = task] /\ live[s] # 0
        /\ UNCHANGED <<live, session, activeCount, lock, opened>>
    BY <1>0, <1>4 DEF Sessions!Connect, CallsTyped
  <2>2. call[p] \in Task /\ live[s] \in 0..MaxRegistrations
    BY <1>0 DEF CallsTyped, SessionsTyped
  <2>3. task \in Task /\ task.at = "connecting" /\ task.server = s /\ task.reg = live[s]
    BY <2>2 DEF Task, Places
  <2>4. live[s] \in Made(s)
    BY <1>0, <2>1, <2>2, LimitsAssumption DEF SessionsTyped, Made
  <2> HIDE DEF task
  <2>5. call'[p] = task
    BY <1>0, <2>1 DEF CallsTyped
  <2>6. TaskHolds(p)'
    BY <2>1, <2>3, <2>4, <2>5 DEF TaskHolds, Made
  <2> QED
    BY <1>3, <2>1, <2>3, <2>5, <2>6
<1>5. ASSUME NEW p \in Callers, NEW s \in Servers, Sessions!Disconnect(p, s) PROVE SessionsIInv'
  <2> DEFINE task == [call[p] EXCEPT !.at = "disconnecting", !.server = s]
  <2>1. call' = [call EXCEPT ![p] = task]
        /\ UNCHANGED <<live, session, activeCount, lock, opened>>
    BY <1>0, <1>5 DEF Sessions!Disconnect, CallsTyped
  <2>2. call[p] \in Task
    BY <1>0 DEF CallsTyped
  <2>3. task \in Task /\ task.at = "disconnecting" /\ task.server = s
    BY <2>2 DEF Task, Places
  <2> HIDE DEF task
  <2>5. call'[p] = task
    BY <1>0, <2>1 DEF CallsTyped
  <2>6. TaskHolds(p)'
    BY <2>1, <2>3, <2>5 DEF TaskHolds
  <2> QED
    BY <1>3, <2>1, <2>3, <2>5, <2>6
<1>6. ASSUME NEW s \in Servers, NEW r \in Made(s), NEW info \in Sessions!SessionInfo,
             Replaced(s, r, info), info.client = session[s][r].client,
             info.status = "connected" => info.client # "none",
             UNCHANGED <<live, opened>>, CallsTyped',
             activeCount' \in Nat, activeCount' <= activeCount,
             lock' \in Callers \cup {"free"},
             \A p \in Callers : Sessions!At(p, "closing")' => Sessions!At(p, "closing") /\ call'[p] = call[p]
      PROVE  SessionsIInv'
  <2>1. /\ session' \in [Servers -> Seq(Sessions!SessionInfo)]
        /\ \A t \in Servers : live'[t] <= Len(session'[t]) /\ Len(session'[t]) <= MaxRegistrations
        /\ \A t \in Servers : Made(t)' = Made(t)
        /\ Sessions!ConnectedHasClient'
    BY <1>6, SessionKept
  <2>2. SessionsTyped'
    BY <1>0, <1>6, <2>1 DEF SessionsTyped
  <2>3. \A t \in Servers : \A q \in Made(t) : <<t, q>> # <<s, r>> => session'[t][q] = session[t][q]
    BY <1>0, <1>6, SessionBecomes
  <2>4. session'[s][r] = info
    BY <1>0, <1>6, SessionBecomes
  <2>5. \A t \in Servers : \A q \in Made(t) : session'[t][q].client = session[t][q].client
    <3> SUFFICES ASSUME NEW t \in Servers, NEW q \in Made(t)
                 PROVE  session'[t][q].client = session[t][q].client
      OBVIOUS
    <3>1. CASE <<t, q>> = <<s, r>>
      BY <1>6, <2>4, <3>1
    <3>2. CASE <<t, q>> # <<s, r>>
      BY <2>3, <3>2
    <3> QED
      BY <3>1, <3>2
  <2>6. ClosingHasClient'
    BY <1>6, <2>5, ClosingStays
  <2>7. Clients' = Clients
    BY <2>1, <2>5 DEF Clients
  <2>8. Accounted' /\ Sessions!CountNeverOverstates'
    BY <1>0, <1>6, <2>7 DEF Accounted, SessionsTyped, Sessions!CountNeverOverstates
  <2> QED
    BY <1>6, <2>1, <2>2, <2>6, <2>8
<1>7. ASSUME NEW p \in Callers, NEW s \in Servers, Sessions!HealthCheck(p, s) PROVE SessionsIInv'
  <2> DEFINE info == session[s][live[s]]
  <2>1. live[s] \in Made(s) /\ UNCHANGED <<live, activeCount, lock, opened>>
    BY <1>0, <1>7, LimitsAssumption DEF Sessions!HealthCheck, SessionsTyped, Made
  <2>2. info \in Sessions!SessionInfo
    BY <1>0, <2>1 DEF SessionsTyped, Made
  <2>3. CASE /\ info.client = "shut" /\ UNCHANGED call
             /\ Replaced(s, live[s], [info EXCEPT !.status = "disconnected"])
    <3>1. [info EXCEPT !.status = "disconnected"] \in Sessions!SessionInfo
          /\ [info EXCEPT !.status = "disconnected"].client = info.client
          /\ [info EXCEPT !.status = "disconnected"].status = "disconnected"
      BY <2>2 DEF Sessions!SessionInfo
    <3>2. \A t \in Servers : Made(t)' = Made(t)
      <4>1. \A t \in Servers : Len(session'[t]) = Len(session[t])
        BY <1>0, <2>1, <2>3, <3>1, SessionBecomes
      <4> QED
        BY <4>1 DEF Made
    <3>3. CallsTyped'
      BY <1>0, <2>1, <2>3, <3>2, CallsStay
    <3>4. \A q \in Callers : Sessions!At(q, "closing")' => Sessions!At(q, "closing") /\ call'[q] = call[q]
      BY <2>3 DEF Sessions!At
    <3>5. activeCount' \in Nat /\ activeCount' <= activeCount /\ lock' \in Callers \cup {"free"}
      BY <1>0, <2>1 DEF SessionsTyped
    <3> QED
      BY <1>6, <2>1, <2>3, <3>1, <3>3, <3>4, <3>5
  <2>4. CASE /\ call' = [call EXCEPT ![p].at = "pinging", ![p].server = s, ![p].reg = live[s]]
             /\ UNCHANGED session
    <3> DEFINE task == [call[p] EXCEPT !.at = "pinging", !.server = s, !.reg = live[s]]
    <3>1. call' = [call EXCEPT ![p] = task]
      BY <1>0, <2>4 DEF CallsTyped
    <3>2. call[p] \in Task /\ live[s] \in 0..MaxRegistrations
      BY <1>0 DEF CallsTyped, SessionsTyped
    <3>3. task \in Task /\ task.at = "pinging" /\ task.server = s /\ task.reg = live[s]
      BY <3>2 DEF Task, Places
    <3> HIDE DEF task
    <3>4. call'[p] = task
      BY <1>0, <3>1 DEF CallsTyped
    <3>5. TaskHolds(p)'
      BY <2>1, <2>4, <3>3, <3>4 DEF TaskHolds, Made
    <3> QED
      BY <1>3, <2>1, <2>4, <3>1, <3>3, <3>4, <3>5
  <2>5. session[s][live[s]] = info
    OBVIOUS
  <2>6. session' = [session EXCEPT ![s][live[s]].status = "disconnected"]
          => Replaced(s, live[s], [info EXCEPT !.status = "disconnected"])
    BY <1>0, <2>1 DEF Replaced, SessionsTyped, Made
  <2> QED
    BY <1>7, <2>3, <2>4, <2>6 DEF Sessions!HealthCheck
<1>8. ASSUME NEW p \in Callers, Sessions!TakeConnect(p) PROVE SessionsIInv'
  <2>1. lock = "free" /\ UNCHANGED <<live, session, activeCount, opened>> /\ Sessions!At(p, "connecting")
    BY <1>8 DEF Sessions!TakeConnect
  <2>2. call[p] \in Task /\ call[p].server \in Servers /\ call[p].reg \in Made(call[p].server)
    BY <1>0, <2>1 DEF CallsTyped, Sessions!At
  <2>3. CASE Sessions!Returns(p) /\ UNCHANGED lock
    BY <1>0, <1>3, <2>1, <2>3, Returned
  <2>4. ASSUME NEW victim \in Sessions!ConnectedServers, lock' = p,
               call' = [call EXCEPT ![p].at = "disconnecting", ![p].server = victim]
        PROVE  SessionsIInv'
    <3> DEFINE task == [call[p] EXCEPT !.at = "disconnecting", !.server = victim]
    <3>1. call' = [call EXCEPT ![p] = task]
      BY <1>0, <2>4 DEF CallsTyped
    <3>2. victim \in Servers
      BY DEF Sessions!ConnectedServers
    <3>3. task \in Task /\ task.at = "disconnecting" /\ task.server = victim
      BY <2>2, <3>2 DEF Task, Places
    <3> HIDE DEF task
    <3>4. call'[p] = task
      BY <1>0, <3>1 DEF CallsTyped
    <3>5. TaskHolds(p)'
      BY <3>2, <3>3, <3>4 DEF TaskHolds
    <3> QED
      BY <1>3, <2>1, <2>4, <3>1, <3>3, <3>4, <3>5
  <2>5. CASE lock' = p /\ call' = [call EXCEPT ![p].at = "dialing", ![p].left = MaxRetries]
    <3> DEFINE task == [call[p] EXCEPT !.at = "dialing", !.left = MaxRetries]
    <3>1. call' = [call EXCEPT ![p] = task]
      BY <1>0, <2>5 DEF CallsTyped
    <3>2. MaxRetries \in 0..MaxRetries
      BY LimitsAssumption
    <3>3. task \in Task /\ task.at = "dialing" /\ task.server = call[p].server /\ task.reg = call[p].reg
      BY <2>2, <3>2 DEF Task, Places
    <3> HIDE DEF task
    <3>4. call'[p] = task
      BY <1>0, <3>1 DEF CallsTyped
    <3>5. TaskHolds(p)'
      BY <2>1, <2>2, <2>5, <3>3, <3>4 DEF TaskHolds, Made
    <3> QED
      BY <1>3, <2>1, <2>5, <3>1, <3>3, <3>4, <3>5
  <2> QED
    BY <1>8, <2>3, <2>4, <2>5 DEF Sessions!TakeConnect
<1>9. ASSUME NEW p \in Callers, Sessions!TakeDisconnect(p) PROVE SessionsIInv'
  <2> DEFINE s == call[p].server
             r == live[s]
             settled == [client |-> "none", status |-> "disconnected"]
             shut == [session[s][r] EXCEPT !.client = "shut"]
  <2>1. lock = "free" /\ UNCHANGED <<live, opened>> /\ Sessions!At(p, "disconnecting")
    BY <1>9 DEF Sessions!TakeDisconnect
  <2>2. call[p] \in Task /\ s \in Servers /\ r \in 0..MaxRegistrations
    BY <1>0, <2>1 DEF CallsTyped, SessionsTyped, Sessions!At
  <2>3. CASE Sessions!Returns(p) /\ UNCHANGED <<session, activeCount, lock>>
    BY <1>0, <1>3, <2>1, <2>3, Returned
  <2>4. r # 0 => r \in Made(s) /\ session[s][r] \in Sessions!SessionInfo
    BY <1>0, <2>2, LimitsAssumption DEF SessionsTyped, Made
  <2>5. settled \in Sessions!SessionInfo /\ settled.client = "none" /\ settled.status = "disconnected"
    BY DEF Sessions!SessionInfo
  <2>6. CASE /\ r # 0 /\ session[s][r].client = "none"
             /\ Sessions!Settled(p, r) /\ Sessions!Returns(p) /\ UNCHANGED lock
    <3>1. Replaced(s, r, settled)
      BY <2>6 DEF Sessions!Settled, Replaced
    <3>2. activeCount' \in Nat /\ activeCount' <= activeCount /\ lock' \in Callers \cup {"free"}
      BY <1>0, <2>6 DEF Sessions!Settled, SessionsTyped
    <3>3. r \in Made(s) /\ session[s][r].client = settled.client
      BY <2>4, <2>5, <2>6
    <3> HIDE DEF settled, r
    <3>4. \A t \in Servers : Made(t)' = Made(t)
      <4>1. \A t \in Servers : Len(session'[t]) = Len(session[t])
        BY <1>0, <2>2, <2>5, <3>1, <3>3, SessionBecomes
      <4> QED
        BY <4>1 DEF Made
    <3>5. TaskHolds(p)' /\ call' = [call EXCEPT ![p] = call'[p]] /\ call'[p].at \in {"idle", "cleaning"}
      BY <1>0, <2>6, Returned
    <3>6. CallsTyped'
      BY <1>0, <2>6, <3>4, <3>5, CallBecomes
    <3>7. \A q \in Callers : Sessions!At(q, "closing")' => Sessions!At(q, "closing") /\ call'[q] = call[q]
      BY <1>0, <3>5 DEF CallsTyped, Sessions!At
    <3> QED
      BY <1>6, <2>1, <2>2, <2>5, <3>1, <3>2, <3>3, <3>6, <3>7
  <2>7. CASE /\ r # 0 /\ session[s][r].client # "none"
             /\ session' = [session EXCEPT ![s][r].client = "shut"]
             /\ lock' = p
             /\ call' = [call EXCEPT ![p].at = "closing", ![p].reg = r]
             /\ UNCHANGED activeCount
    <3> DEFINE task == [call[p] EXCEPT !.at = "closing", !.reg = r]
    <3>1. call' = [call EXCEPT ![p] = task]
      BY <1>0, <2>7 DEF CallsTyped
    <3>2. task \in Task /\ task.at = "closing" /\ task.server = s /\ task.reg = r
      BY <2>2 DEF Task, Places
    <3>3. r \in Made(s) /\ session[s][r] \in Sessions!SessionInfo
      BY <2>4, <2>7
    <3>4. shut \in Sessions!SessionInfo /\ shut.client = "shut" /\ shut.client # "none"
      BY <3>3 DEF Sessions!SessionInfo
    <3>5. Replaced(s, r, shut)
      BY <1>0, <2>2, <2>7, <3>3 DEF Replaced, SessionsTyped, Made
    <3> HIDE DEF task, shut, s, r
    <3>6. call'[p] = task
      BY <1>0, <3>1 DEF CallsTyped
    <3>7. /\ session' \in [Servers -> Seq(Sessions!SessionInfo)]
          /\ \A t \in Servers : live'[t] <= Len(session'[t]) /\ Len(session'[t]) <= MaxRegistrations
          /\ \A t \in Servers : Made(t)' = Made(t)
          /\ Sessions!ConnectedHasClient'
      BY <2>1, <2>2, <3>3, <3>4, <3>5, SessionKept
    <3>8. TaskHolds(p)'
      BY <2>2, <2>7, <3>2, <3>3, <3>6, <3>7 DEF TaskHolds
    <3>9. CallsTyped'
      BY <1>0, <2>1, <2>7, <3>1, <3>6, <3>7, <3>8, CallBecomes
    <3>10. SessionsTyped'
      BY <1>0, <2>1, <2>7, <3>7 DEF SessionsTyped
    <3>11. session'[s][r] = shut
      BY <1>0, <2>2, <3>3, <3>4, <3>5, SessionBecomes
    <3>12. ClosingHasClient'
      <4> SUFFICES ASSUME NEW q \in Callers, Sessions!At(q, "closing")'
                   PROVE  session'[call'[q].server][call'[q].reg].client # "none"
        BY DEF ClosingHasClient
      <4>1. q = p
        BY <2>7, <3>9 DEF CallsTyped, Sessions!At
      <4> QED
        BY <3>2, <3>4, <3>6, <3>11, <4>1
    <3>13. Clients' = Clients \cup {<<s, r>>}
      BY <1>0, <2>2, <3>3, <3>4, <3>5, SessionBecomes
    <3>14. <<s, r>> \in Clients
      BY <1>0, <2>2, <2>7, <3>3, IsClient
    <3>15. Clients' = Clients
      BY <3>13, <3>14
    <3>16. Accounted' /\ Sessions!CountNeverOverstates'
      BY <1>0, <2>1, <2>7, <3>15 DEF Accounted, Sessions!CountNeverOverstates
    <3> QED
      BY <3>7, <3>9, <3>10, <3>12, <3>16
  <2> QED
    BY <1>9, <2>3, <2>6, <2>7 DEF Sessions!TakeDisconnect
<1>10. ASSUME NEW p \in Callers, Sessions!DialFails(p) PROVE SessionsIInv'
  <2> DEFINE s == call[p].server
             r == call[p].reg
             failed == [session[s][r] EXCEPT !.status = "error"]
  <2>1. UNCHANGED <<live, activeCount, opened>> /\ Sessions!At(p, "dialing")
    BY <1>10 DEF Sessions!DialFails
  <2>2. call[p] \in Task /\ s \in Servers /\ r \in Made(s) /\ lock = p
    BY <1>0, <2>1 DEF CallsTyped, Sessions!At
  <2>3. session[s][r] \in Sessions!SessionInfo
    BY <1>0, <2>2 DEF SessionsTyped, Made
  <2>4. CASE call[p].left > 0 /\ call' = [call EXCEPT ![p].left = @ - 1] /\ UNCHANGED <<session, lock>>
    <3> DEFINE task == [call[p] EXCEPT !.left = call[p].left - 1]
    <3>1. call' = [call EXCEPT ![p] = task]
      BY <1>0, <2>4 DEF CallsTyped
    <3>2. call[p].left - 1 \in 0..MaxRetries
      BY <2>2, <2>4, LimitsAssumption DEF Task
    <3>3. task \in Task /\ task.at = "dialing" /\ task.server = s /\ task.reg = r
      BY <2>1, <2>2, <3>2 DEF Task, Places, Sessions!At
    <3> HIDE DEF task
    <3>4. call'[p] = task
      BY <1>0, <3>1 DEF CallsTyped
    <3>5. TaskHolds(p)'
      BY <2>2, <2>4, <3>3, <3>4 DEF TaskHolds, Made
    <3> QED
      BY <1>3, <2>1, <2>4, <3>1, <3>3, <3>4, <3>5
  <2>5. CASE session' = [session EXCEPT ![s][r] = failed] /\ lock' = "free" /\ Sessions!Returns(p)
    <3>1. Replaced(s, r, failed)
      BY <2>5 DEF Replaced
    <3>2. failed \in Sessions!SessionInfo /\ failed.client = session[s][r].client
          /\ failed.status = "error"
      BY <2>3 DEF Sessions!SessionInfo
    <3> HIDE DEF failed, s, r
    <3>3. \A t \in Servers : Made(t)' = Made(t)
      <4>1. \A t \in Servers : Len(session'[t]) = Len(session[t])
        BY <1>0, <2>2, <3>1, <3>2, SessionBecomes
      <4> QED
        BY <4>1 DEF Made
    <3>4. TaskHolds(p)' /\ call' = [call EXCEPT ![p] = call'[p]] /\ call'[p].at \in {"idle", "cleaning"}
      BY <1>0, <2>5, Returned
    <3>5. CallsTyped'
      BY <1>0, <2>2, <2>5, <3>3, <3>4, CallBecomes
    <3>6. \A q \in Callers : Sessions!At(q, "closing")' => Sessions!At(q, "closing") /\ call'[q] = call[q]
      BY <1>0, <3>4 DEF CallsTyped, Sessions!At
    <3>7. activeCount' \in Nat /\ activeCount' <= activeCount /\ lock' \in Callers \cup {"free"}
      BY <1>0, <2>1, <2>5 DEF SessionsTyped
    <3> QED
      BY <1>6, <2>1, <2>2, <3>1, <3>2, <3>5, <3>6, <3>7
  <2> QED
    BY <1>10, <2>4, <2>5 DEF Sessions!DialFails, Sessions!Becomes, Sessions!Captured, Sessions!Release
<1>11. ASSUME NEW p \in Callers, Sessions!Pinged(p) PROVE SessionsIInv'
  <2> DEFINE s == call[p].server
             r == call[p].reg
             failed == [session[s][r] EXCEPT !.status = "unhealthy"]
  <2>1. UNCHANGED <<live, activeCount, lock, opened>> /\ Sessions!At(p, "pinging") /\ Sessions!Returns(p)
    BY <1>11 DEF Sessions!Pinged
  <2>2. s \in Servers /\ r \in Made(s)
    BY <1>0, <2>1 DEF CallsTyped, Sessions!At
  <2>3. session[s][r] \in Sessions!SessionInfo
    BY <1>0, <2>2 DEF SessionsTyped, Made
  <2>4. CASE UNCHANGED session
    BY <1>0, <1>3, <2>1, <2>4, Returned
  <2>5. CASE session' = [session EXCEPT ![s][r] = failed]
    <3>1. Replaced(s, r, failed)
      BY <2>5 DEF Replaced
    <3>2. failed \in Sessions!SessionInfo /\ failed.client = session[s][r].client
          /\ failed.status = "unhealthy"
      BY <2>3 DEF Sessions!SessionInfo
    <3> HIDE DEF failed, s, r
    <3>3. \A t \in Servers : Made(t)' = Made(t)
      <4>1. \A t \in Servers : Len(session'[t]) = Len(session[t])
        BY <1>0, <2>2, <3>1, <3>2, SessionBecomes
      <4> QED
        BY <4>1 DEF Made
    <3>4. TaskHolds(p)' /\ call' = [call EXCEPT ![p] = call'[p]] /\ call'[p].at \in {"idle", "cleaning"}
      BY <1>0, <2>1, Returned
    <3>5. CallsTyped'
      BY <1>0, <2>1, <3>3, <3>4, CallBecomes
    <3>6. \A q \in Callers : Sessions!At(q, "closing")' => Sessions!At(q, "closing") /\ call'[q] = call[q]
      BY <1>0, <3>4 DEF CallsTyped, Sessions!At
    <3>7. activeCount' \in Nat /\ activeCount' <= activeCount /\ lock' \in Callers \cup {"free"}
      BY <1>0, <2>1 DEF SessionsTyped
    <3> QED
      BY <1>6, <2>1, <2>2, <3>1, <3>2, <3>5, <3>6, <3>7
  <2> QED
    BY <1>11, <2>4, <2>5 DEF Sessions!Pinged, Sessions!Becomes, Sessions!Captured
<1>12. ASSUME NEW p \in Callers, Sessions!DialSucceeds(p) PROVE SessionsIInv'
  <2> DEFINE s == call[p].server
             r == call[p].reg
             info == [client |-> "open", status |-> "connected"]
  <2>1. /\ UNCHANGED live /\ Sessions!At(p, "dialing") /\ Sessions!Returns(p)
        /\ activeCount' = activeCount + 1 /\ opened' = opened + 1 /\ lock' = "free"
    BY <1>12 DEF Sessions!DialSucceeds, Sessions!Release
  <2>2. s \in Servers /\ r \in Made(s) /\ lock = p
    BY <1>0, <2>1 DEF CallsTyped, Sessions!At
  <2>3. Replaced(s, r, info)
    BY <1>12 DEF Sessions!DialSucceeds, Sessions!Becomes, Replaced
  <2>4. info \in Sessions!SessionInfo /\ info.client = "open" /\ info.client # "none"
    BY DEF Sessions!SessionInfo
  <2> HIDE DEF info, s, r
  <2>5. /\ session' \in [Servers -> Seq(Sessions!SessionInfo)]
        /\ \A t \in Servers : live'[t] <= Len(session'[t]) /\ Len(session'[t]) <= MaxRegistrations
        /\ \A t \in Servers : Made(t)' = Made(t)
        /\ Sessions!ConnectedHasClient'
    BY <2>1, <2>2, <2>3, <2>4, SessionKept
  <2>6. TaskHolds(p)' /\ call' = [call EXCEPT ![p] = call'[p]] /\ call'[p].at \in {"idle", "cleaning"}
    BY <1>0, <2>1, Returned
  <2>7. CallsTyped'
    BY <1>0, <2>1, <2>2, <2>5, <2>6, CallBecomes
  <2>8. SessionsTyped'
    BY <1>0, <2>1, <2>5 DEF SessionsTyped
  <2>9. \A q \in Callers : ~Sessions!At(q, "closing")'
    BY <2>1, <2>7, LimitsAssumption DEF CallsTyped, Sessions!At
  <2>10. ClosingHasClient'
    BY <2>9 DEF ClosingHasClient
  <2>11. Clients' = Clients \cup {<<s, r>>}
    BY <1>0, <2>2, <2>3, <2>4, SessionBecomes
  <2>12. Cardinality(Clients') <= Cardinality(Clients) + 1
    <3>1. Cardinality(Clients \cup {<<s, r>>})
            = IF <<s, r>> \in Clients THEN Cardinality(Clients) ELSE Cardinality(Clients) + 1
      BY <1>0, FS_AddElement
    <3> QED
      BY <1>0, <2>11, <3>1
  <2>13. Cardinality(Clients') \in Nat
    <3>1. IsFiniteSet(Clients \cup {<<s, r>>})
      BY <1>0, FS_AddElement
    <3> QED
      BY <2>11, <3>1, FS_CardinalityType
  <2>14. Accounted' /\ Sessions!CountNeverOverstates'
    BY <1>0, <2>1, <2>12, <2>13 DEF Accounted, SessionsTyped, Sessions!CountNeverOverstates
  <2> QED
    BY <2>5, <2>7, <2>8, <2>10, <2>14
<1>13. ASSUME NEW p \in Callers, Sessions!Closed(p) PROVE SessionsIInv'
  <2> DEFINE s == call[p].server
             r == call[p].reg
             info == [client |-> "none", status |-> "disconnected"]
  <2>1. /\ UNCHANGED live /\ Sessions!At(p, "closing") /\ Sessions!Returns(p)
        /\ activeCount' = (IF activeCount > 0 THEN activeCount - 1 ELSE 0)
        /\ opened' = opened - 1 /\ lock' = "free"
    BY <1>13 DEF Sessions!Closed, Sessions!Release, Sessions!Settled
  <2>2. s \in Servers /\ r \in Made(s) /\ lock = p /\ session[s][r].client # "none"
    BY <1>0, <2>1 DEF CallsTyped, Sessions!At, ClosingHasClient
  <2>3. Replaced(s, r, info)
    BY <1>13 DEF Sessions!Closed, Sessions!Settled, Replaced
  <2>4. info \in Sessions!SessionInfo /\ info.client = "none" /\ info.status = "disconnected"
    BY DEF Sessions!SessionInfo
  <2> HIDE DEF info, s, r
  <2>5. /\ session' \in [Servers -> Seq(Sessions!SessionInfo)]
        /\ \A t \in Servers : live'[t] <= Len(session'[t]) /\ Len(session'[t]) <= MaxRegistrations
        /\ \A t \in Servers : Made(t)' = Made(t)
        /\ Sessions!ConnectedHasClient'
    BY <2>1, <2>2, <2>3, <2>4, SessionKept
  <2>6. TaskHolds(p)' /\ call' = [call EXCEPT ![p] = call'[p]] /\ call'[p].at \in {"idle", "cleaning"}
    BY <1>0, <2>1, Returned
  <2>7. CallsTyped'
    BY <1>0, <2>1, <2>2, <2>5, <2>6, CallBecomes
  <2>8. \A q \in Callers : ~Sessions!At(q, "closing")'
    BY <2>1, <2>7, LimitsAssumption DEF CallsTyped, Sessions!At
  <2>9. ClosingHasClient'
    BY <2>8 DEF ClosingHasClient
  <2>10. Clients' = Clients \ {<<s, r>>}
    BY <1>0, <2>2, <2>3, <2>4, SessionBecomes
  <2>11. <<s, r>> \in Clients
    BY <1>0, <2>2, IsClient
  <2>12. Cardinality(Clients') = Cardinality(Clients) - 1 /\ Cardinality(Clients') \in Nat
    <3>1. Cardinality(Clients \ {<<s, r>>}) = Cardinality(Clients) - 1
      BY <1>0, <2>11, FS_RemoveElement
    <3>2. IsFiniteSet(Clients \ {<<s, r>>})
      BY <1>0, <2>11, FS_RemoveElement
    <3>3. Cardinality(Clients \ {<<s, r>>}) \in Nat
      BY <3>2, FS_CardinalityType
    <3> QED
      BY <2>10, <3>1, <3>3
  <2>13. opened > 0 /\ opened' \in Nat
    BY <1>0, <2>1, <2>12 DEF Accounted, SessionsTyped
  <2>14. Accounted' /\ Sessions!CountNeverOverstates'
    BY <1>0, <2>1, <2>12, <2>13 DEF Accounted, SessionsTyped, Sessions!CountNeverOverstates
  <2>15. SessionsTyped'
    BY <1>0, <2>1, <2>5, <2>13 DEF SessionsTyped
  <2> QED
    BY <2>5, <2>7, <2>9, <2>14, <2>15
<1>14. ASSUME NEW p \in Callers, Sessions!CleanupIdle(p) PROVE SessionsIInv'
  <2>1. PICK idle \in SUBSET Sessions!ConnectedServers :
          call' = [call EXCEPT ![p].at = "cleaning", ![p].todo = idle]
    BY <1>14 DEF Sessions!CleanupIdle
  <2>2. UNCHANGED <<live, session, activeCount, lock, opened>>
    BY <1>14 DEF Sessions!CleanupIdle
  <2> DEFINE task == [call[p] EXCEPT !.at = "cleaning", !.todo = idle]
  <2>3. call' = [call EXCEPT ![p] = task] /\ call[p] \in Task
    BY <1>0, <2>1 DEF CallsTyped
  <2>4. idle \subseteq Servers
    BY DEF Sessions!ConnectedServers
  <2>5. task \in Task /\ task.at = "cleaning"
    BY <2>3, <2>4 DEF Task, Places
  <2> HIDE DEF task
  <2>6. call'[p] = task
    BY <1>0, <2>3 DEF CallsTyped
  <2>7. TaskHolds(p)'
    BY <2>5, <2>6 DEF TaskHolds, Sessions!At
  <2> QED
    BY <1>3, <2>2, <2>3, <2>5, <2>6, <2>7
<1>15. ASSUME NEW p \in Callers, Sessions!CleanNext(p) PROVE SessionsIInv'
  <2> DEFINE Onward(s) == IF live[s] = 0 THEN Sessions!Idle
                          ELSE [call[p] EXCEPT !.at = "disconnecting", !.server = s,
                                               !.todo = call[p].todo \ {s}]
  <2>0. PICK s \in call[p].todo : call' = [call EXCEPT ![p] =
               IF live[s] = 0 THEN Sessions!Idle
               ELSE [call[p] EXCEPT !.at = "disconnecting", !.server = s, !.todo = @ \ {s}]]
    BY <1>15 DEF Sessions!CleanNext
  <2>1. call' = [call EXCEPT ![p] = Onward(s)]
    <3>1. CASE live[s] = 0
      <4>1. call' = [call EXCEPT ![p] = Sessions!Idle]
        BY <2>0, <3>1
      <4>2. Onward(s) = Sessions!Idle
        BY <3>1
      <4> QED
        BY <4>1, <4>2
    <3>2. CASE live[s] # 0
      <4>1. Onward(s) = [call[p] EXCEPT !.at = "disconnecting", !.server = s,
                                       !.todo = call[p].todo \ {s}]
        BY <3>2
      <4>2. call' = [call EXCEPT ![p] = [call[p] EXCEPT !.at = "disconnecting", !.server = s,
                                                      !.todo = call[p].todo \ {s}]]
        BY <1>0, <2>0, <3>2 DEF CallsTyped
      <4> QED
        BY <4>1, <4>2
    <3> QED
      BY <3>1, <3>2
  <2>2. UNCHANGED <<live, session, activeCount, lock, opened>>
    BY <1>15 DEF Sessions!CleanNext
  <2>3. call[p] \in Task
    BY <1>0 DEF CallsTyped
  <2>4. s \in Servers /\ call[p].todo \ {s} \in SUBSET Servers
    BY <2>3 DEF Task
  <2>5. Sessions!Idle \in Task /\ Sessions!Idle.at = "idle"
    BY LimitsAssumption DEF Sessions!Idle, Task, Places
  <2>6. [call[p] EXCEPT !.at = "disconnecting", !.server = s, !.todo = call[p].todo \ {s}] \in Task
    BY <2>3, <2>4 DEF Task, Places
  <2>7. /\ Onward(s) \in Task
        /\ Onward(s).at = "idle" \/ (Onward(s).at = "disconnecting" /\ Onward(s).server = s)
    BY <2>3, <2>5, <2>6 DEF Task
  <2> HIDE DEF Onward
  <2>8. call'[p] = Onward(s)
    BY <1>0, <2>1 DEF CallsTyped
  <2>9. TaskHolds(p)'
    BY <2>4, <2>7, <2>8 DEF TaskHolds, Sessions!At
  <2> QED
    BY <1>3, <2>1, <2>2, <2>7, <2>8, <2>9
<1>16. ASSUME NEW p \in Callers, Sessions!Cancel(p) PROVE SessionsIInv'
  <2>1. call' = [call EXCEPT ![p] = Sessions!Idle] /\ UNCHANGED <<live, session, activeCount, opened>>
    BY <1>16 DEF Sessions!Cancel
  <2>2. lock' = (IF lock = p THEN "free" ELSE lock)
    BY <1>16 DEF Sessions!Cancel, Sessions!Holds
  <2>3. Sessions!Idle \in Task /\ Sessions!Idle.at = "idle"
    BY LimitsAssumption DEF Sessions!Idle, Task, Places
  <2>4. call'[p] = Sessions!Idle
    BY <1>0, <2>1 DEF CallsTyped
  <2>5. TaskHolds(p)'
    BY <2>3, <2>4 DEF TaskHolds, Sessions!At
  <2> QED
    BY <1>3, <2>1, <2>2, <2>3, <2>4, <2>5
<1>17. CASE UNCHANGED Sessions!vars
  BY <1>0, <1>17 DEF Sessions!vars, SessionsTyped, CallsTyped, ClosingHasClient, Accounted, Clients, Made,
     Sessions!At, Sessions!CountNeverOverstates, Sessions!ConnectedHasClient
<1> QED
  BY <1>1, <1>2, <1>4, <1>5, <1>7, <1>8, <1>9, <1>10, <1>11, <1>12, <1>13, <1>14, <1>15, <1>16, <1>17,
     LimitsAssumption DEF Sessions!Next, Sessions!Acquire, Sessions!Proceed

LEMMA SessionsHold == SessionsIInv => Sessions!SessionsInv
BY DEF SessionsIInv, SessionsTyped, Sessions!SessionsInv, Sessions!TypeOK

-----------------------------------------------------------------------------
(* Access.  The policies are always sorted by their priorities, since a new *)
(* one is put where the sort puts it and what is removed leaves no mark.    *)
PoliciesSorted ==
  /\ policies \in Seq(Policies)
  /\ \A i, j \in DOMAIN policies : i < j => policies[i].priority >= policies[j].priority

(* A copy in Redis and the time since a caller held what it read make no    *)
(* more than the life of a copy; a copy without a limit still has the       *)
(* caller that will limit it, unless that one was cut off.                  *)
CopiesEnd ==
  /\ keyCopy \in 0..Ttl + 1 /\ keyUnheld \in Nat
  /\ keyCallers \in [Callers -> {"idle", "missed", "found", "stored"}]
  /\ \A c \in Callers : Access!Holding(c) => keyUnheld = 0
  /\ keyCopy \in 1..Ttl => keyCopy + keyUnheld <= Ttl
  /\ keyCopy = Access!Unlimited => keyLost \/ \E c \in Callers : keyCallers[c] = "stored"

(* Requests for an approval are of Approvals, and each waits or is decided. *)
OutcomesKept ==
  /\ decisions \in Seq([request : Approvals, outcome : {"approved", "rejected", "pending", "timeout"}])
  /\ DOMAIN waiting \subseteq Approvals
  /\ Access!DecidedOnce

AccessIInv == PoliciesSorted /\ CopiesEnd /\ OutcomesKept

(* The least of some naturals. *)
LEMMA LeastOf ==
  ASSUME NEW S \in SUBSET Nat, S # {}
  PROVE  \E x \in S : \A y \in S : x <= y
<1>1. PICK x \in S : \A y \in S : ~(<<y, x>> \in OpToRel(<, Nat))
  BY NatLessThanWellFounded, WFMin
<1>2. \A y \in S : ~(y < x)
  BY <1>1, Zenon DEF OpToRel
<1> QED
  BY <1>2

(* What an insertion leaves where. *)
LEMMA Inserted ==
  ASSUME NEW S, NEW s \in Seq(S), NEW e \in S, NEW k \in 1..Len(s) + 1
  PROVE  /\ Access!InsertAt(s, k, e) \in Seq(S)
         /\ Len(Access!InsertAt(s, k, e)) = Len(s) + 1
         /\ \A n \in 1..Len(s) + 1 : Access!InsertAt(s, k, e)[n] =
               IF n < k THEN s[n] ELSE IF n = k THEN e ELSE s[n - 1]
<1> DEFINE a == SubSeq(s, 1, k - 1)
           b == SubSeq(s, k, Len(s))
           c == a \o <<e>>
           t == Access!InsertAt(s, k, e)
<1>0. Len(s) \in Nat /\ k \in Nat /\ k >= 1
  BY LenProperties
<1>1. a \in Seq(S) /\ Len(a) = k - 1 /\ \A n \in 1..k - 1 : a[n] = s[n]
  BY <1>0, SubSeqProperties
<1>2. b \in Seq(S) /\ Len(b) = Len(s) - k + 1 /\ \A n \in 1..Len(s) - k + 1 : b[n] = s[k + n - 1]
  BY <1>0, SubSeqProperties
<1>3. t = c \o b
  BY DEF Access!InsertAt
<1> HIDE DEF a, b, t
<1>4. c \in Seq(S) /\ Len(c) = k /\ \A n \in 1..k : c[n] = IF n < k THEN s[n] ELSE e
  BY <1>0, <1>1
<1> HIDE DEF c
<1>5. /\ t \in Seq(S) /\ Len(t) = Len(c) + Len(b)
      /\ \A n \in 1..Len(c) + Len(b) : t[n] = IF n <= Len(c) THEN c[n] ELSE b[n - Len(c)]
  BY <1>2, <1>3, <1>4, ConcatProperties
<1>6. /\ Len(t) = k + (Len(s) - k + 1)
      /\ \A n \in 1..k + (Len(s) - k + 1) : t[n] = IF n <= k THEN c[n] ELSE b[n - k]
  BY <1>2, <1>4, <1>5
<1>7. k + (Len(s) - k + 1) = Len(s) + 1
  BY <1>0
<1>8. ASSUME NEW n \in 1..Len(s) + 1
      PROVE  t[n] = IF n < k THEN s[n] ELSE IF n = k THEN e ELSE s[n - 1]
  <2>1. CASE n <= k
    BY <1>0, <1>4, <1>6, <1>7, <2>1
  <2>2. CASE ~(n <= k)
    <3>1. t[n] = b[n - k]
      BY <1>6, <1>7, <2>2
    <3>2. n - k \in 1..Len(s) - k + 1 /\ k + (n - k) - 1 = n - 1
      BY <1>0, <2>2
    <3>3. b[n - k] = s[n - 1]
      BY <1>2, <3>2
    <3> QED
      BY <1>0, <2>2, <3>1, <3>3
  <2> QED
    BY <2>1, <2>2
<1> QED
  BY <1>5, <1>6, <1>7, <1>8 DEF t

(* The instance counts as FiniteSets does, and an order of a finite set is  *)
(* a sequence of its elements without repetition.                           *)
LEMMA AccessOrders ==
  ASSUME NEW S, IsFiniteSet(S), NEW order \in Access!SetToSeqs(S)
  PROVE  /\ order \in Seq(S)
         /\ \A i, j \in DOMAIN order : i # j => order[i] # order[j]
<1>1. Cardinality(S) \in Nat
  BY FS_CardinalityType
<1>2. Access!Cardinality(S) = Cardinality(S)
  BY DEF Cardinality, Access!Cardinality
<1>3. /\ order \in [1..Cardinality(S) -> S]
      /\ \A i, j \in 1..Cardinality(S) : i # j => order[i] # order[j]
  BY <1>2 DEF Access!SetToSeqs
<1> QED
  BY <1>1, <1>3

LEMMA AccessStarts == Access!Init => AccessIInv
<1> SUFFICES ASSUME Access!Init PROVE AccessIInv
  OBVIOUS
<1>1. PoliciesSorted
  BY EmptySeq DEF Access!Init, PoliciesSorted
<1>2. CopiesEnd
  BY LimitsAssumption DEF Access!Init, CopiesEnd, Access!keyVars, Access!Holding, Access!Unlimited
<1>3. OutcomesKept
  BY EmptySeq DEF Access!Init, OutcomesKept, Access!DecidedOnce
<1> QED
  BY <1>1, <1>2, <1>3 DEF AccessIInv

(* A policy is added where the sort by falling priority puts it. *)
LEMMA AddingKeepsSorted ==
  ASSUME PoliciesSorted, NEW p \in Policies, Access!AddPolicy(p)
  PROVE  PoliciesSorted'
<1>1. policies \in Seq(Policies) /\ Len(policies) \in Nat
  BY LenProperties DEF PoliciesSorted
<1>2. PICK k \in 1..Len(policies) + 1 :
         /\ \A n \in 1..k - 1 : policies[n].priority >= p.priority
         /\ \A n \in k..Len(policies) : policies[n].priority < p.priority
         /\ policies' = Access!InsertAt(policies, k, p)
  BY DEF Access!AddPolicy
<1> DEFINE t == Access!InsertAt(policies, k, p)
<1>3. /\ t \in Seq(Policies) /\ Len(t) = Len(policies) + 1
      /\ \A n \in 1..Len(policies) + 1 :
            t[n] = IF n < k THEN policies[n] ELSE IF n = k THEN p ELSE policies[n - 1]
  <2>1. t \in Seq(Policies)
    BY <1>1, Inserted
  <2>2. Len(t) = Len(policies) + 1
    BY <1>1, Inserted
  <2>3. \A n \in 1..Len(policies) + 1 :
            t[n] = IF n < k THEN policies[n] ELSE IF n = k THEN p ELSE policies[n - 1]
    BY <1>1, Inserted
  <2> QED
    BY <2>1, <2>2, <2>3
<1> HIDE DEF t
<1>4. k \in Nat /\ p.priority \in Int /\ \A n \in 1..Len(policies) : policies[n].priority \in Int
  BY <1>1, LimitsAssumption
<1>5. \A i, j \in 1..Len(policies) : i < j => policies[i].priority >= policies[j].priority
  BY <1>1 DEF PoliciesSorted
<1>6. /\ \A n \in 1..k - 1 : policies[n].priority >= p.priority
      /\ \A n \in k..Len(policies) : p.priority >= policies[n].priority
  BY <1>1, <1>2, <1>4
<1>7. ASSUME NEW i \in 1..Len(policies) + 1, NEW j \in 1..Len(policies) + 1, i < j
      PROVE  t[i].priority >= t[j].priority
  <2>1. CASE j < k
    <3>1. t[i] = policies[i] /\ t[j] = policies[j] /\ i \in 1..Len(policies) /\ j \in 1..Len(policies)
      BY <1>1, <1>3, <1>4, <1>7, <2>1
    <3> QED
      BY <1>5, <1>7, <3>1
  <2>2. CASE j = k
    <3>1. t[j] = p /\ t[i] = policies[i] /\ i \in 1..k - 1
      BY <1>1, <1>3, <1>4, <1>7, <2>2
    <3> QED
      BY <1>6, <3>1
  <2>3. CASE j > k /\ i < k
    <3>1. t[i] = policies[i] /\ t[j] = policies[j - 1] /\ i \in 1..Len(policies) /\ j - 1 \in 1..Len(policies)
      BY <1>1, <1>3, <1>4, <1>7, <2>3
    <3>2. i < j - 1
      BY <1>4, <2>3
    <3> QED
      BY <1>5, <3>1, <3>2
  <2>4. CASE j > k /\ i = k
    <3>1. t[i] = p /\ t[j] = policies[j - 1] /\ j - 1 \in k..Len(policies)
      BY <1>1, <1>3, <1>4, <2>4
    <3> QED
      BY <1>6, <3>1
  <2>5. CASE j > k /\ i > k
    <3>1. /\ t[i] = policies[i - 1] /\ t[j] = policies[j - 1]
          /\ i - 1 \in 1..Len(policies) /\ j - 1 \in 1..Len(policies) /\ i - 1 < j - 1
      BY <1>1, <1>3, <1>4, <1>7, <2>5
    <3> QED
      BY <1>5, <3>1
  <2> QED
    BY <1>1, <1>4, <2>1, <2>2, <2>3, <2>4, <2>5
<1> QED
  BY <1>1, <1>2, <1>3, <1>7 DEF PoliciesSorted, t

(* What is left when policies are removed is in the order it was. *)
LEMMA RemovingKeepsSorted ==
  ASSUME PoliciesSorted, NEW name, Access!RemovePolicy(name)
  PROVE  PoliciesSorted'
<1> DEFINE rest == {n \in DOMAIN policies : policies[n].name # name}
<1>1. PICK order \in Access!SetToSeqs(rest) :
         /\ \A i, j \in DOMAIN order : i < j => order[i] < order[j]
         /\ policies' = [i \in DOMAIN order |-> policies[order[i]]]
  BY DEF Access!RemovePolicy
<1>2. policies \in Seq(Policies) /\ Len(policies) \in Nat /\ DOMAIN policies = 1..Len(policies)
  BY LenProperties DEF PoliciesSorted
<1>3. IsFiniteSet(1..Len(policies))
  BY <1>2, FS_Interval
<1>4. rest \subseteq 1..Len(policies)
  BY <1>2
<1>5. IsFiniteSet(rest)
  BY <1>3, <1>4, FS_Subset
<1>6. order \in Seq(rest)
  BY <1>1, <1>5, AccessOrders
<1>7. order \in Seq(1..Len(policies))
  BY <1>4, <1>6
<1>8. policies' \in Seq(Policies) /\ DOMAIN policies' = DOMAIN order
  BY <1>1, <1>2, <1>7
<1>9. \A i \in DOMAIN order : order[i] \in DOMAIN policies /\ policies'[i] = policies[order[i]]
  BY <1>1, <1>2, <1>7
<1>10. ASSUME NEW i \in DOMAIN order, NEW j \in DOMAIN order, i < j
       PROVE  policies'[i].priority >= policies'[j].priority
  <2>1. order[i] < order[j]
    BY <1>1, <1>10
  <2> QED
    BY <1>9, <2>1 DEF PoliciesSorted
<1> QED
  BY <1>8, <1>10 DEF PoliciesSorted

LEMMA KeySteps == CopiesEnd /\ Access!KeyNext => CopiesEnd'
<1> SUFFICES ASSUME CopiesEnd, Access!KeyNext PROVE CopiesEnd'
  OBVIOUS
<1> USE DEF CopiesEnd, Access!Holding, Access!Unlimited
<1>0. Ttl \in Nat
  BY LimitsAssumption
<1>1. ASSUME NEW c \in Callers, Access!Look(c) PROVE CopiesEnd'
  BY <1>0, <1>1 DEF Access!Look, Access!At
<1>2. ASSUME NEW c \in Callers, Access!Select(c) PROVE CopiesEnd'
  <2>1. keyCallers' \in [Callers -> {"idle", "missed", "found", "stored"}]
    BY <1>2 DEF Access!Select, Access!At
  <2>2. CASE keyActive
    BY <1>0, <1>2, <2>1, <2>2 DEF Access!Select, Access!At
  <2>3. CASE ~keyActive
    BY <1>0, <1>2, <2>1, <2>3 DEF Access!Select, Access!At
  <2> QED
    BY <2>2, <2>3
<1>3. ASSUME NEW c \in Callers, Access!Store(c) PROVE CopiesEnd'
  BY <1>0, <1>3 DEF Access!Store, Access!At
<1>4. ASSUME NEW c \in Callers, Access!Expire(c) PROVE CopiesEnd'
  <2>1. keyUnheld = 0 /\ keyUnheld' = 0
    BY <1>4 DEF Access!Expire, Access!At
  <2> QED
    BY <1>0, <1>4, <2>1 DEF Access!Expire, Access!At
<1>5. ASSUME NEW c \in Callers, Access!Broken(c) PROVE CopiesEnd'
  BY <1>0, <1>5 DEF Access!Broken
<1>6. CASE Access!Deactivate
  BY <1>6 DEF Access!Deactivate
<1>7. CASE Access!TickKey
  BY <1>0, <1>7 DEF Access!TickKey
<1> QED
  BY <1>1, <1>2, <1>3, <1>4, <1>5, <1>6, <1>7 DEF Access!KeyNext

LEMMA ApprovalSteps == OutcomesKept /\ Access!ApprovalNext => OutcomesKept'
<1> SUFFICES ASSUME OutcomesKept, Access!ApprovalNext PROVE OutcomesKept'
  OBVIOUS
<1> DEFINE Kind == [request : Approvals, outcome : {"approved", "rejected", "pending", "timeout"}]
<1>0. decisions \in Seq(Kind) /\ DOMAIN waiting \subseteq Approvals /\ Access!DecidedOnce
  BY DEF OutcomesKept
<1>1. ASSUME NEW a \in Approvals, NEW i \in BOOLEAN,
             NEW o \in {"approved", "rejected", "pending", "waits"}, Access!Ask(a, i, o)
      PROVE  OutcomesKept'
  <2>1. a \notin DOMAIN waiting /\ \A n \in DOMAIN decisions : decisions[n].request # a
    BY <1>1 DEF Access!Ask, Access!Fresh
  <2>2. CASE o = "waits"
    <3>1. /\ waiting' = [b \in DOMAIN waiting \cup {a} |-> IF b = a THEN time ELSE waiting[b]]
          /\ decisions' = decisions
      BY <1>1, <2>2 DEF Access!Ask
    <3>2. DOMAIN waiting' = DOMAIN waiting \cup {a}
      BY <3>1
    <3> QED
      BY <1>0, <2>1, <3>1, <3>2 DEF OutcomesKept, Access!DecidedOnce
  <2>3. CASE o # "waits"
    <3>1. /\ waiting' = waiting
          /\ decisions' = Append(decisions, [request |-> a, outcome |-> o])
      BY <1>1, <2>3 DEF Access!Ask, Access!Decision
    <3>2. [request |-> a, outcome |-> o] \in Kind
      BY <2>3
    <3> QED
      BY <1>0, <2>1, <3>1, <3>2 DEF OutcomesKept, Access!DecidedOnce
  <2> QED
    BY <2>2, <2>3
<1>2. ASSUME NEW a \in Approvals, NEW o \in {"approved", "rejected"}, NEW r \in BOOLEAN,
             Access!Resolve(a, o, r)
      PROVE  OutcomesKept'
  <2>1. /\ a \in DOMAIN waiting
        /\ waiting' = [b \in DOMAIN waiting \ {a} |-> waiting[b]]
        /\ decisions' = Append(decisions, [request |-> a, outcome |-> o])
    BY <1>2 DEF Access!Resolve, Access!Without, Access!Decision
  <2>2. DOMAIN waiting' = DOMAIN waiting \ {a}
    BY <2>1
  <2>3. [request |-> a, outcome |-> o] \in Kind
    OBVIOUS
  <2> QED
    BY <1>0, <2>1, <2>2, <2>3 DEF OutcomesKept, Access!DecidedOnce
<1>3. CASE Access!GetPendingApprovals
  <2> DEFINE S == Access!Expired
  <2>1. PICK order \in Access!SetToSeqs(S) :
           decisions' = decisions \o [n \in DOMAIN order |-> Access!Decision(order[n], "timeout")]
    BY <1>3 DEF Access!GetPendingApprovals
  <2>2. S \subseteq DOMAIN waiting
    BY DEF Access!Expired
  <2>3. IsFiniteSet(S)
    BY <1>0, <2>2, FS_Subset, LimitsAssumption
  <2>4. order \in Seq(S) /\ \A i, j \in DOMAIN order : i # j => order[i] # order[j]
    BY <2>1, <2>3, AccessOrders
  <2>5. waiting' = [b \in DOMAIN waiting \ S |-> waiting[b]]
    BY <1>3 DEF Access!GetPendingApprovals, Access!Without
  <2>6. DOMAIN waiting' = DOMAIN waiting \ S
    BY <2>5
  <2> HIDE DEF S
  <2> DEFINE late == [n \in DOMAIN order |-> [request |-> order[n], outcome |-> "timeout"]]
  <2>7. late \in Seq(Kind) /\ Len(late) = Len(order) /\ \A n \in DOMAIN late : late[n].request = order[n]
    <3>1. DOMAIN order = 1..Len(order) /\ Len(order) \in Nat /\ \A n \in 1..Len(order) : order[n] \in Approvals
      BY <1>0, <2>2, <2>4, LenProperties
    <3>2. \A n \in 1..Len(order) : [request |-> order[n], outcome |-> "timeout"] \in Kind
      BY <3>1
    <3> HIDE DEF Kind
    <3>3. late = [n \in 1..Len(order) |-> [request |-> order[n], outcome |-> "timeout"]]
      BY <3>1 DEF late
    <3>4. late \in [1..Len(order) -> Kind]
      BY <3>2, <3>3
    <3>5. late \in Seq(Kind) /\ Len(late) = Len(order)
      BY <3>1, <3>4
    <3> QED
      BY <3>1, <3>3, <3>5
  <2>8. decisions' = decisions \o late
    BY <2>1 DEF Access!Decision
  <2> HIDE DEF late
  <2>9. /\ decisions' \in Seq(Kind) /\ Len(decisions') = Len(decisions) + Len(late)
        /\ \A n \in 1..Len(decisions) : decisions'[n] = decisions[n]
        /\ \A n \in 1..Len(late) : decisions'[Len(decisions) + n] = late[n]
    BY <1>0, <2>7, <2>8
  <2>10. ASSUME NEW n \in DOMAIN decisions'
         PROVE  /\ decisions'[n].request \notin DOMAIN waiting'
                /\ \A k \in 1..n - 1 : decisions'[k].request # decisions'[n].request
    <3>0. Len(decisions) \in Nat /\ Len(late) \in Nat /\ n \in 1..Len(decisions) + Len(late)
      BY <1>0, <2>7, <2>9, LenProperties
    <3>1. CASE n <= Len(decisions)
      <4>1. n \in DOMAIN decisions /\ \A k \in 1..n : decisions'[k] = decisions[k]
        BY <1>0, <2>9, <3>0, <3>1
      <4> QED
        BY <1>0, <2>6, <3>0, <4>1 DEF Access!DecidedOnce
    <3>2. CASE n > Len(decisions)
      <4>0. \A a, b \in Nat : \A x \in 1..a + b : x > a => \E m \in 1..b : x = a + m
        <5> SUFFICES ASSUME NEW a \in Nat, NEW b \in Nat, NEW x \in 1..a + b, x > a
                     PROVE  \E m \in 1..b : x = a + m
          OBVIOUS
        <5>1. x - a \in 1..b /\ x = a + (x - a)
          OBVIOUS
        <5> QED
          BY <5>1
      <4>1. PICK m \in 1..Len(late) : n = Len(decisions) + m
        BY <3>0, <3>2, <4>0
      <4>2. decisions'[n].request = order[m] /\ m \in DOMAIN order /\ order[m] \in S
        BY <2>4, <2>7, <2>9, <4>1
      <4>3. ASSUME NEW k \in 1..n - 1 PROVE decisions'[k].request # decisions'[n].request
        <5>1. CASE k <= Len(decisions)
          <6>1. k \in DOMAIN decisions /\ decisions'[k] = decisions[k]
            BY <1>0, <2>9, <3>0, <5>1
          <6>2. decisions[k].request \notin DOMAIN waiting
            BY <1>0, <6>1 DEF Access!DecidedOnce
          <6> QED
            BY <2>2, <4>2, <6>1, <6>2 DEF S
        <5>2. CASE k > Len(decisions)
          <6> DEFINE l == k - Len(decisions)
          <6>1. l \in 1..Len(late) /\ k = Len(decisions) + l /\ l # m
            BY <3>0, <4>1, <5>2
          <6> HIDE DEF l
          <6>2. l \in DOMAIN late /\ l \in DOMAIN order
            BY <2>4, <2>7, <6>1
          <6>3. decisions'[k].request = order[l]
            BY <2>7, <2>9, <6>1, <6>2
          <6> QED
            BY <2>4, <4>2, <6>1, <6>2, <6>3
        <5> QED
          BY <3>0, <5>1, <5>2
      <4> QED
        BY <2>6, <4>2, <4>3
    <3> QED
      BY <3>0, <3>1, <3>2
  <2> QED
    BY <1>0, <2>6, <2>9, <2>10 DEF OutcomesKept, Access!DecidedOnce
<1>4. CASE UNCHANGED <<waiting, decisions>>
  BY <1>4 DEF OutcomesKept, Access!DecidedOnce
<1> QED
  BY <1>1, <1>2, <1>3, <1>4, Zenon DEF Access!ApprovalNext

LEMMA AccessSteps == AccessIInv /\ [Access!Next]_(Access!vars) => AccessIInv'
<1> SUFFICES ASSUME AccessIInv, [Access!Next]_(Access!vars) PROVE AccessIInv'
  OBVIOUS
<1>1. PoliciesSorted /\ CopiesEnd /\ OutcomesKept
  BY DEF AccessIInv
<1>2. UNCHANGED policies => PoliciesSorted'
  BY <1>1 DEF PoliciesSorted
<1>3. UNCHANGED <<keyActive, keyCopy, keyCallers, keyLost, keyUnheld>> => CopiesEnd'
  BY <1>1 DEF CopiesEnd, Access!Holding, Access!Unlimited
<1>4. UNCHANGED <<waiting, decisions>> => OutcomesKept'
  BY <1>1 DEF OutcomesKept, Access!DecidedOnce
<1>5. CASE Access!RoleNext /\ UNCHANGED <<decides, policies, Access!keyVars, Access!approvalVars, time>>
  BY <1>2, <1>3, <1>4, <1>5 DEF AccessIInv, Access!keyVars, Access!approvalVars
<1>6. CASE Access!PolicyNext /\ UNCHANGED <<decides, roles, Access!keyVars, Access!approvalVars, time>>
  <2>1. PoliciesSorted'
    BY <1>1, <1>6, AddingKeepsSorted, RemovingKeepsSorted DEF Access!PolicyNext
  <2> QED
    BY <1>3, <1>4, <1>6, <2>1 DEF AccessIInv, Access!keyVars, Access!approvalVars
<1>7. CASE Access!KeyNext /\ UNCHANGED <<decides, roles, policies, Access!approvalVars, time>>
  BY <1>1, <1>2, <1>4, <1>7, KeySteps DEF AccessIInv, Access!approvalVars
<1>8. CASE Access!ApprovalNext /\ UNCHANGED <<decides, roles, policies, Access!keyVars>>
  BY <1>1, <1>2, <1>3, <1>8, ApprovalSteps DEF AccessIInv, Access!keyVars
<1>9. CASE UNCHANGED Access!vars
  BY <1>2, <1>3, <1>4, <1>9 DEF AccessIInv, Access!vars, Access!keyVars, Access!approvalVars
<1> QED
  BY <1>5, <1>6, <1>7, <1>8, <1>9 DEF Access!Next

(* Of the policies that deny, the first is looked at. *)
LEMMA FirstDenies ==
  ASSUME PoliciesSorted, NEW request, NEW n \in DOMAIN policies, Access!Denies(policies[n], request)
  PROVE  \E m \in Access!Matching(request) : Access!Denies(policies[m], request) /\ m <= n
<1> DEFINE all == {m \in DOMAIN policies : Access!Denies(policies[m], request)}
<1>1. all \in SUBSET Nat /\ n \in all /\ DOMAIN policies = 1..Len(policies)
  BY LenProperties DEF PoliciesSorted
<1>2. PICK m \in all : \A k \in all : m <= k
  BY <1>1, LeastOf
<1>3. m \in DOMAIN policies /\ Access!Denies(policies[m], request) /\ m <= n
  BY <1>1, <1>2
<1>4. \A k \in 1..m - 1 : ~Access!Denies(policies[k], request)
  BY <1>1, <1>2
<1> QED
  BY <1>3, <1>4 DEF Access!Matching, Access!Denies

LEMMA AccessHold == AccessIInv => AccessInv
<1> SUFFICES ASSUME AccessIInv PROVE AccessInv
  OBVIOUS
<1>1. PoliciesSorted /\ CopiesEnd /\ OutcomesKept
  BY DEF AccessIInv
<1>2. Access!RolesAreMonotone
  <2> SUFFICES ASSUME NEW r \in DOMAIN roles, NEW s \in DOMAIN roles, roles[r] \subseteq roles[s],
                      NEW p \in Permissions, Access!CheckPermission(r, p)
               PROVE  Access!CheckPermission(s, p)
    BY DEF Access!RolesAreMonotone
  <2> DEFINE R == roles[r]
             S == roles[s]
  <2>1. Access!Grants(R, p) /\ R \subseteq S
    BY DEF Access!CheckPermission
  <2> HIDE DEF R, S
  <2>2. Access!Grants(S, p)
    BY <2>1, Zenon DEF Access!Grants
  <2> QED
    BY <2>2 DEF Access!CheckPermission, S
<1>3. Access!DenyPrevails
  <2> SUFFICES ASSUME NEW request \in Access!Requests
               PROVE  Access!AccessDecision(request) <=>
                        /\ \E n \in DOMAIN policies : /\ Access!Holds(policies[n], request)
                                                     /\ policies[n].effect = "allow"
                        /\ \A n \in DOMAIN policies : ~Access!Denies(policies[n], request)
    BY DEF Access!DenyPrevails
  <2>1. CASE \E n \in DOMAIN policies : Access!Denies(policies[n], request)
    <3>1. \E m \in Access!Matching(request) : policies[m].effect = "deny"
      BY <1>1, <2>1, FirstDenies DEF Access!Denies
    <3> QED
      BY <2>1, <3>1 DEF Access!AccessDecision
  <2>2. CASE \A n \in DOMAIN policies : ~Access!Denies(policies[n], request)
    <3>1. DOMAIN policies = 1..Len(policies) /\ Len(policies) \in Nat
      BY <1>1, LenProperties DEF PoliciesSorted
    <3>2. \A n \in DOMAIN policies : \A m \in 1..n - 1 : m \in DOMAIN policies
      BY <3>1
    <3>3. Access!Matching(request) = {n \in DOMAIN policies : Access!Holds(policies[n], request)}
      BY <2>2, <3>2, Zenon DEF Access!Matching
    <3> QED
      BY <2>2, <3>3 DEF Access!AccessDecision, Access!Denies
  <2> QED
    BY <2>1, <2>2
<1>4. Access!ReasonIsTheFirst
  <2> SUFFICES ASSUME NEW request \in Access!Requests, NEW n \in Access!Matching(request),
                      Access!Denies(policies[n], request)
               PROVE  /\ \A m \in Access!Matching(request) : m <= n
                      /\ \A m \in DOMAIN policies : Access!Denies(policies[m], request) =>
                            policies[n].priority >= policies[m].priority
    BY DEF Access!ReasonIsTheFirst
  <2>1. /\ DOMAIN policies = 1..Len(policies) /\ Len(policies) \in Nat
        /\ \A m \in DOMAIN policies : policies[m].priority \in Int
    BY <1>1, LimitsAssumption, LenProperties DEF PoliciesSorted
  <2>2. n \in DOMAIN policies /\ \A k \in 1..n - 1 : ~Access!Denies(policies[k], request)
    BY DEF Access!Matching
  <2>3. ASSUME NEW m \in Access!Matching(request) PROVE m <= n
    <3>1. m \in DOMAIN policies /\ \A k \in 1..m - 1 : ~Access!Denies(policies[k], request)
      BY DEF Access!Matching
    <3> QED
      BY <2>1, <2>2, <3>1
  <2>4. ASSUME NEW m \in DOMAIN policies, Access!Denies(policies[m], request)
        PROVE  policies[n].priority >= policies[m].priority
    <3>1. m >= n
      BY <2>1, <2>2, <2>4
    <3>2. CASE m = n
      BY <2>1, <3>2
    <3>3. CASE m > n
      BY <1>1, <2>1, <2>2, <3>3 DEF PoliciesSorted
    <3> QED
      BY <2>1, <2>2, <3>1, <3>2, <3>3
  <2> QED
    BY <2>3, <2>4
<1>5. Access!KeysRunOut
  BY <1>1, LimitsAssumption DEF CopiesEnd, Access!KeysRunOut, Access!Holding, Access!Unlimited
<1>6. Access!DecidedOnce
  BY <1>1 DEF OutcomesKept
<1> QED
  BY <1>2, <1>3, <1>4, <1>5, <1>6 DEF AccessInv, Access!AccessInv

-----------------------------------------------------------------------------
(* The records.  An entry of the log, a file whose chain holds, and one    *)
(* whose hashes grow up to the number of the latest entry.                 *)
Entry == [hash : Nat \ {0}, previous : Nat, altered : BOOLEAN]
Follows(file) ==
  \A i \in DOMAIN file :
     /\ ~file[i].altered
     /\ file[i].previous = IF i = 1 THEN 0 ELSE file[i - 1].hash
Grows(file, last) ==
  /\ \A i \in DOMAIN file : file[i].hash <= last
  /\ \A i, j \in DOMAIN file : i < j => file[i].hash < file[j].hash

(* What an entry of a file is.                                             *)
LEMMA EntriesOfFile ==
  ASSUME NEW file \in Seq(Entry)
  PROVE  /\ Len(file) \in Nat /\ DOMAIN file = 1..Len(file)
         /\ \A i \in DOMAIN file : file[i] \in Entry
         /\ \A i \in DOMAIN file : file[i].hash \in Nat /\ file[i].hash > 0
<1>1. /\ Len(file) \in Nat /\ DOMAIN file = 1..Len(file)
      /\ \A i \in DOMAIN file : file[i] \in Entry
  BY LenProperties
<1> QED
  BY <1>1 DEF Entry

(* A new entry leaves a broken chain broken, and goes on with one that     *)
(* holds if it names the hash of the entry before it.                      *)
LEMMA AppendedFile ==
  ASSUME NEW file \in Seq(Entry), NEW last \in Nat, Grows(file, last),
         NEW e \in Entry, e.hash = last + 1
  PROVE  /\ Append(file, e) \in Seq(Entry)
         /\ Grows(Append(file, e), last + 1)
         /\ ~Follows(file) => ~Follows(Append(file, e))
         /\ /\ Follows(file) /\ ~e.altered
            /\ e.previous = IF file = <<>> THEN 0 ELSE file[Len(file)].hash
            => Follows(Append(file, e))
<1> DEFINE longer == Append(file, e)
<1>1. /\ Len(file) \in Nat /\ DOMAIN file = 1..Len(file)
      /\ \A i \in DOMAIN file : file[i].hash \in Nat
  BY EntriesOfFile
<1>2. /\ longer \in Seq(Entry) /\ Len(longer) = Len(file) + 1
      /\ \A i \in 1..Len(file) : longer[i] = file[i]
      /\ longer[Len(file) + 1] = e
  BY AppendProperties
<1>3. DOMAIN longer = 1..(Len(file) + 1)
  BY <1>2, LenProperties
<1>4. file = <<>> <=> Len(file) = 0
  BY EmptySeq
<1> HIDE DEF longer
<1>5. Grows(longer, last + 1)
  BY <1>1, <1>2, <1>3 DEF Grows
<1>6. ~Follows(file) => ~Follows(longer)
  <2> SUFFICES ASSUME Follows(longer), NEW i \in DOMAIN file
               PROVE  /\ ~file[i].altered
                      /\ file[i].previous = IF i = 1 THEN 0 ELSE file[i - 1].hash
    BY DEF Follows
  <2>1. i \in DOMAIN longer /\ longer[i] = file[i] /\ (i # 1 => longer[i - 1] = file[i - 1])
    BY <1>1, <1>2, <1>3
  <2> QED
    BY <2>1 DEF Follows
<1>7. ASSUME Follows(file), ~e.altered,
             e.previous = IF file = <<>> THEN 0 ELSE file[Len(file)].hash
      PROVE  Follows(longer)
  <2> SUFFICES ASSUME NEW i \in DOMAIN longer
               PROVE  /\ ~longer[i].altered
                      /\ longer[i].previous = IF i = 1 THEN 0 ELSE longer[i - 1].hash
    BY DEF Follows
  <2>1. CASE i = Len(file) + 1
    <3>1. longer[i] = e /\ (i = 1 <=> file = <<>>)
      BY <1>1, <1>2, <1>4, <2>1
    <3>2. i # 1 => longer[i - 1] = file[Len(file)]
      BY <1>1, <1>2, <2>1
    <3> QED
      BY <1>7, <3>1, <3>2
  <2>2. CASE i \in 1..Len(file)
    <3>1. longer[i] = file[i] /\ (i # 1 => longer[i - 1] = file[i - 1])
      BY <1>1, <1>2, <2>2
    <3> QED
      BY <1>1, <1>7, <2>2, <3>1 DEF Follows
  <2> QED
    BY <1>1, <1>3, <2>1, <2>2
<1> QED
  BY <1>2, <1>5, <1>6, <1>7 DEF longer

(* An entry that is changed shows. *)
LEMMA AlteredFile ==
  ASSUME NEW file \in Seq(Entry), NEW last \in Nat, Grows(file, last), NEW n \in DOMAIN file
  PROVE  /\ [file EXCEPT ![n].altered = TRUE] \in Seq(Entry)
         /\ Grows([file EXCEPT ![n].altered = TRUE], last)
         /\ ~Follows([file EXCEPT ![n].altered = TRUE])
<1> DEFINE e == [file[n] EXCEPT !.altered = TRUE]
           changed == [file EXCEPT ![n] = e]
<1>1. /\ Len(file) \in Nat /\ DOMAIN file = 1..Len(file)
      /\ \A i \in DOMAIN file : file[i] \in Entry
      /\ \A i \in DOMAIN file : file[i].hash \in Nat
  BY EntriesOfFile
<1>2. e \in Entry /\ e.altered /\ e.hash = file[n].hash
  BY <1>1 DEF Entry
<1>3. changed \in Seq(Entry) /\ DOMAIN changed = DOMAIN file /\ changed[n] = e
  BY <1>1, <1>2, ExceptSeq
<1>4. \A i \in DOMAIN file : changed[i].hash = file[i].hash
  BY <1>2
<1> HIDE DEF e, changed
<1>5. Grows(changed, last)
  BY <1>3, <1>4 DEF Grows
<1>6. ~Follows(changed)
  BY <1>2, <1>3 DEF Follows
<1> QED
  BY <1>3, <1>5, <1>6 DEF e, changed

(* An entry that is taken out shows in the one after it, which names a     *)
(* hash that is above those before.                                        *)
LEMMA ShortenedFile ==
  ASSUME NEW file \in Seq(Entry), NEW last \in Nat, Grows(file, last),
         NEW n \in DOMAIN file, n < Len(file), Follows(file)
  PROVE  /\ Records!RemoveAt(file, n) \in Seq(Entry)
         /\ Grows(Records!RemoveAt(file, n), last)
         /\ ~Follows(Records!RemoveAt(file, n))
<1> DEFINE before == SubSeq(file, 1, n - 1)
           after == SubSeq(file, n + 1, Len(file))
           rest == before \o after
<1>1. /\ Len(file) \in Nat /\ DOMAIN file = 1..Len(file)
      /\ \A i \in DOMAIN file : file[i] \in Entry
      /\ \A i \in DOMAIN file : file[i].hash \in Nat /\ file[i].hash > 0
  BY EntriesOfFile
<1>2. n \in Nat /\ n >= 1 /\ n < Len(file)
  BY <1>1
<1>3. /\ before \in Seq(Entry) /\ Len(before) = n - 1
      /\ \A i \in 1..(n - 1) : before[i] = file[i]
  <2>1. \A i \in 1..(n - 1) : file[i] \in Entry
    BY <1>1, <1>2
  <2>2. /\ before \in Seq(Entry)
        /\ Len(before) = IF 1 <= n - 1 THEN n - 1 - 1 + 1 ELSE 0
        /\ \A i \in 1..(n - 1 - 1 + 1) : before[i] = file[1 + i - 1]
    BY <1>2, <2>1, SubSeqProperties
  <2> QED
    BY <1>2, <2>2
<1>4. /\ after \in Seq(Entry) /\ Len(after) = Len(file) - n
      /\ \A i \in 1..(Len(file) - n) : after[i] = file[n + i]
  <2>1. \A i \in (n + 1)..Len(file) : file[i] \in Entry
    BY <1>1, <1>2
  <2>2. /\ after \in Seq(Entry)
        /\ Len(after) = IF n + 1 <= Len(file) THEN Len(file) - (n + 1) + 1 ELSE 0
        /\ \A i \in 1..(Len(file) - (n + 1) + 1) : after[i] = file[n + 1 + i - 1]
    BY <1>1, <1>2, <2>1, SubSeqProperties
  <2> QED
    BY <1>1, <1>2, <2>2
<1> HIDE DEF before, after
<1>5. /\ rest \in Seq(Entry) /\ Len(rest) = Len(file) - 1
      /\ \A i \in 1..(Len(file) - 1) :
            rest[i] = IF i <= n - 1 THEN before[i] ELSE after[i - (n - 1)]
  <2>1. /\ rest \in Seq(Entry) /\ Len(rest) = Len(before) + Len(after)
        /\ \A i \in 1..(Len(before) + Len(after)) :
              rest[i] = IF i <= Len(before) THEN before[i] ELSE after[i - Len(before)]
    BY <1>3, <1>4, ConcatProperties
  <2>2. Len(before) + Len(after) = Len(file) - 1
    BY <1>1, <1>2, <1>3, <1>4
  <2> HIDE DEF rest
  <2> QED
    BY <1>3, <2>1, <2>2
<1>6. \A i \in 1..(Len(file) - 1) : rest[i] = IF i < n THEN file[i] ELSE file[i + 1]
  <2> SUFFICES ASSUME NEW i \in 1..(Len(file) - 1)
               PROVE  rest[i] = IF i < n THEN file[i] ELSE file[i + 1]
    OBVIOUS
  <2>1. CASE i < n
    BY <1>1, <1>2, <1>3, <1>5, <2>1
  <2>2. CASE ~(i < n)
    <3>1. i - (n - 1) \in 1..(Len(file) - n) /\ n + (i - (n - 1)) = i + 1
      BY <1>1, <1>2, <2>2
    <3>2. after[i - (n - 1)] = file[i + 1]
      BY <1>4, <3>1
    <3> QED
      BY <1>1, <1>2, <1>5, <2>2, <3>2
  <2> QED
    BY <2>1, <2>2
<1>7. DOMAIN rest = 1..(Len(file) - 1)
  BY <1>5, LenProperties
<1> HIDE DEF rest
<1>8. Grows(rest, last)
  <2>1. \A i \in DOMAIN file : file[i].hash <= last
    BY DEF Grows
  <2>2. \A i, j \in DOMAIN file : i < j => file[i].hash < file[j].hash
    BY DEF Grows
  <2>3. ASSUME NEW i \in DOMAIN rest PROVE rest[i].hash <= last
    <3> DEFINE at == IF i < n THEN i ELSE i + 1
    <3>1. at \in DOMAIN file
      BY <1>1, <1>2, <1>7
    <3>2. rest[i] = file[at]
      BY <1>6, <1>7
    <3> QED
      BY <2>1, <3>1, <3>2
  <2>4. ASSUME NEW i \in DOMAIN rest, NEW j \in DOMAIN rest, i < j
        PROVE  rest[i].hash < rest[j].hash
    <3> DEFINE at == IF i < n THEN i ELSE i + 1
               bt == IF j < n THEN j ELSE j + 1
    <3>1. at \in DOMAIN file /\ bt \in DOMAIN file /\ at < bt
      BY <1>1, <1>2, <1>7, <2>4
    <3>2. rest[i] = file[at] /\ rest[j] = file[bt]
      BY <1>6, <1>7
    <3> QED
      BY <2>2, <3>1, <3>2
  <2> QED
    BY <2>3, <2>4 DEF Grows
<1>9. ~Follows(rest)
  <2>1. n \in DOMAIN rest /\ rest[n] = file[n + 1] /\ n + 1 \in DOMAIN file
    BY <1>1, <1>2, <1>6, <1>7
  <2>2. file[n + 1].previous = file[n].hash
    BY <1>2, <2>1 DEF Follows
  <2>3. CASE n = 1
    BY <1>1, <2>1, <2>2, <2>3 DEF Follows
  <2>4. CASE n # 1
    <3>1. rest[n - 1] = file[n - 1] /\ n - 1 \in DOMAIN file /\ n - 1 < n
      BY <1>1, <1>2, <1>6, <2>4
    <3>2. file[n - 1].hash < file[n].hash
      BY <3>1 DEF Grows
    <3>3. file[n].hash \in Nat /\ file[n - 1].hash \in Nat
      BY <1>1, <3>1
    <3>4. rest[n].previous # rest[n - 1].hash
      BY <2>1, <2>2, <3>1, <3>2, <3>3
    <3> QED
      BY <2>1, <2>4, <3>4 DEF Follows
  <2> QED
    BY <2>3, <2>4
<1>10. Records!RemoveAt(file, n) = rest
  BY DEF Records!RemoveAt, rest, before, after
<1> QED
  BY <1>5, <1>8, <1>9, <1>10

(* The log: the hashes of a file grow, what was changed shows, and on the  *)
(* first day a single logger goes on with the hash of its latest entry.    *)
LogTyped ==
  /\ today \in Records!Days
  /\ files \in [Records!Days -> Seq(Entry)]
  /\ hashFiles \in [Records!Days -> Nat]
  /\ lastHash \in [Loggers -> Nat]
  /\ logged \in Nat
  /\ restarts \in Nat
  /\ tampered \in Seq(Records!Days)
HashesGrow == \A d \in Records!Days : Grows(files[d], logged)
ChangesShow == \A k \in DOMAIN tampered : ~Follows(files[tampered[k]])
LatestHash(file) == IF file = <<>> THEN 0 ELSE file[Len(file)].hash
ChainGoesOn ==
  Records!Cardinality(Loggers) = 1 /\ restarts = 0 /\ tampered = <<>> =>
     /\ Follows(files[1])
     /\ today = 1 => /\ hashFiles[1] = LatestHash(files[1])
                     /\ \A l \in Loggers : lastHash[l] = hashFiles[1]
AuditIInv == LogTyped /\ HashesGrow /\ ChangesShow /\ ChainGoesOn

LEMMA SingleLogger ==
  ASSUME Records!Cardinality(Loggers) = 1
  PROVE  \A l, m \in Loggers : l = m
<1>1. Cardinality(Loggers) = 1
  BY DEF Records!Cardinality, Cardinality
<1>2. IsFiniteSet(Loggers)
  BY RecordsBounds DEF Records!RecordsAssumption, Records!IsFiniteSet, IsFiniteSet
<1> QED
  BY <1>1, <1>2, FS_Singleton

LEMMA FirstDay == 1 \in Records!Days
BY RecordsBounds DEF Records!RecordsAssumption, Records!Days

LEMMA AuditStarts == Records!Init => AuditIInv
<1> SUFFICES ASSUME Records!Init PROVE AuditIInv
  OBVIOUS
<1>1. \A d \in Records!Days : files[d] = <<>>
  BY DEF Records!Init
<1>2. <<>> \in Seq(Entry) /\ <<>> \in Seq(Records!Days) /\ DOMAIN <<>> = {}
  BY EmptySeq
<1>3. LogTyped
  BY <1>2, FirstDay DEF Records!Init, LogTyped
<1>4. Follows(<<>>) /\ Grows(<<>>, 0)
  BY <1>2 DEF Follows, Grows
<1>5. HashesGrow /\ ChangesShow
  BY <1>1, <1>2, <1>4 DEF Records!Init, HashesGrow, ChangesShow
<1>6. ChainGoesOn
  BY <1>1, <1>4, FirstDay DEF Records!Init, ChainGoesOn, LatestHash
<1> QED
  BY <1>3, <1>5, <1>6 DEF AuditIInv

(* An entry is written after the others of the day.                        *)
LEMMA WrittenFile ==
  ASSUME LogTyped, HashesGrow, ChangesShow, NEW l \in Loggers, Records!Written(l)
  PROVE  /\ logged' \in Nat /\ logged' = logged + 1
         /\ files' \in [Records!Days -> Seq(Entry)]
         /\ HashesGrow'
         /\ \A k \in DOMAIN tampered : ~Follows(files'[tampered[k]])
         /\ \A d \in Records!Days : d # today => files'[d] = files[d]
         /\ files'[today] # <<>>
         /\ files'[today][Len(files'[today])].hash = logged + 1
         /\ /\ Follows(files[today])
            /\ Records!PreviousHash(l) = LatestHash(files[today])
            => Follows(files'[today])
<1> DEFINE e == [hash |-> logged + 1, previous |-> Records!PreviousHash(l), altered |-> FALSE]
           file == files[today]
<1>1. /\ logged' = logged + 1
      /\ files' = [files EXCEPT ![today] = Append(file, e)]
  BY DEF Records!Written
<1>2. /\ logged \in Nat /\ today \in Records!Days
      /\ files \in [Records!Days -> Seq(Entry)] /\ file \in Seq(Entry)
      /\ tampered \in Seq(Records!Days)
  BY DEF LogTyped
<1>3. Records!PreviousHash(l) \in Nat
  BY DEF LogTyped, Records!PreviousHash
<1>4. e \in Entry /\ e.hash = logged + 1 /\ ~e.altered /\ e.previous = Records!PreviousHash(l)
  BY <1>2, <1>3 DEF Entry
<1>5. Grows(file, logged)
  BY <1>2 DEF HashesGrow
<1> HIDE DEF e, file
<1>6. /\ Append(file, e) \in Seq(Entry)
      /\ Grows(Append(file, e), logged + 1)
      /\ ~Follows(file) => ~Follows(Append(file, e))
      /\ Follows(file) /\ e.previous = LatestHash(file) => Follows(Append(file, e))
  BY <1>2, <1>4, <1>5, AppendedFile DEF LatestHash
<1>7. /\ Append(file, e) # <<>> /\ Len(Append(file, e)) = Len(file) + 1
      /\ Append(file, e)[Len(file) + 1] = e
  BY <1>2, <1>4, AppendProperties
<1>8. /\ files' \in [Records!Days -> Seq(Entry)]
      /\ files'[today] = Append(file, e)
      /\ \A d \in Records!Days : d # today => files'[d] = files[d]
  BY <1>1, <1>2, <1>6
<1>9. HashesGrow'
  <2> SUFFICES ASSUME NEW d \in Records!Days PROVE Grows(files'[d], logged')
    BY DEF HashesGrow
  <2>1. CASE d = today
    BY <1>1, <1>6, <1>8, <2>1
  <2>2. CASE d # today
    <3>1. Grows(files[d], logged) /\ files[d] \in Seq(Entry)
      BY <1>2 DEF HashesGrow
    <3>2. \A i \in DOMAIN files[d] : files[d][i].hash \in Nat
      BY <3>1, EntriesOfFile
    <3> QED
      BY <1>1, <1>2, <1>8, <2>2, <3>1, <3>2 DEF Grows
  <2> QED
    BY <2>1, <2>2
<1>10. ASSUME NEW k \in DOMAIN tampered PROVE ~Follows(files'[tampered[k]])
  <2>1. tampered[k] \in Records!Days /\ ~Follows(files[tampered[k]])
    BY <1>2, LenProperties DEF ChangesShow
  <2> QED
    BY <1>6, <1>8, <2>1 DEF file
<1>11. files'[today][Len(files'[today])].hash = logged + 1
  BY <1>4, <1>7, <1>8
<1>12. /\ Follows(files[today])
       /\ Records!PreviousHash(l) = LatestHash(files[today])
       => Follows(files'[today])
  BY <1>4, <1>6, <1>8 DEF file
<1> QED
  BY <1>1, <1>2, <1>7, <1>8, <1>9, <1>10, <1>11, <1>12

LEMMA LogKeeps ==
  ASSUME AuditIInv, NEW l \in Loggers, Records!Log(l)
  PROVE  AuditIInv'
<1>1. LogTyped /\ HashesGrow /\ ChangesShow /\ Records!Written(l)
  BY DEF AuditIInv, Records!Log
<1>2. LogTyped'
  BY <1>1, WrittenFile DEF LogTyped, Records!Log
<1>3. HashesGrow'
  BY <1>1, WrittenFile
<1>4. ChangesShow'
  BY <1>1, WrittenFile DEF ChangesShow, Records!Log
<1>5. ChainGoesOn'
  <2> SUFFICES ASSUME Records!Cardinality(Loggers) = 1, restarts' = 0, tampered' = <<>>
               PROVE  /\ Follows(files'[1])
                      /\ today' = 1 => /\ hashFiles'[1] = LatestHash(files'[1])
                                       /\ \A m \in Loggers : lastHash'[m] = hashFiles'[1]
    BY DEF ChainGoesOn, LatestHash
  <2>1. restarts = 0 /\ tampered = <<>> /\ today' = today
    BY DEF Records!Log
  <2>2. /\ Follows(files[1])
        /\ today = 1 => /\ hashFiles[1] = LatestHash(files[1])
                        /\ \A m \in Loggers : lastHash[m] = hashFiles[1]
    BY <2>1 DEF AuditIInv, ChainGoesOn
  <2>3. CASE today = 1
    <3>1. Records!PreviousHash(l) = LatestHash(files[1])
      BY <2>2, <2>3 DEF Records!PreviousHash
    <3>2. Follows(files'[1])
      BY <1>1, <2>2, <2>3, <3>1, WrittenFile
    <3>3. LatestHash(files'[1]) = logged + 1
      BY <1>1, <2>3, WrittenFile DEF LatestHash
    <3>4. hashFiles'[1] = logged + 1 /\ lastHash'[l] = logged + 1
      BY <1>1, <2>3 DEF Records!Log, LogTyped
    <3>5. \A m \in Loggers : m = l
      BY SingleLogger
    <3> QED
      BY <3>2, <3>3, <3>4, <3>5
  <2>4. CASE today # 1
    <3>1. files'[1] = files[1]
      BY <1>1, <2>4, WrittenFile, FirstDay
    <3> QED
      BY <2>1, <2>2, <2>4, <3>1
  <2> QED
    BY <2>3, <2>4
<1> QED
  BY <1>2, <1>3, <1>4, <1>5 DEF AuditIInv

LEMMA RestartKeeps ==
  ASSUME AuditIInv, NEW l \in Loggers, Records!Restart(l)
  PROVE  AuditIInv'
<1> USE DEF Records!Restart
<1>1. LogTyped /\ HashesGrow /\ ChangesShow
  BY DEF AuditIInv
<1>2. /\ logged' \in Nat /\ files' \in [Records!Days -> Seq(Entry)]
      /\ HashesGrow'
      /\ \A k \in DOMAIN tampered : ~Follows(files'[tampered[k]])
  <2>1. CASE Records!Written(l)
    BY <1>1, <2>1, WrittenFile
  <2>2. CASE UNCHANGED <<files, logged>>
    BY <1>1, <2>2 DEF LogTyped, HashesGrow, ChangesShow
  <2> QED
    BY <2>1, <2>2
<1>3. restarts' \in Nat /\ restarts' # 0
  BY <1>1 DEF LogTyped
<1>4. LogTyped'
  BY <1>1, <1>2, <1>3 DEF LogTyped
<1>5. ChangesShow'
  BY <1>2 DEF ChangesShow
<1> QED
  BY <1>2, <1>3, <1>4, <1>5 DEF AuditIInv, ChainGoesOn

LEMMA NextDayKeeps == ASSUME AuditIInv, Records!NextDay PROVE AuditIInv'
<1> USE DEF Records!NextDay, AuditIInv
<1>1. today' \in Records!Days /\ today' # 1
  BY RecordsBounds DEF LogTyped, Records!Days, Records!RecordsAssumption
<1>2. LogTyped'
  BY <1>1 DEF LogTyped
<1>3. HashesGrow' /\ ChangesShow'
  BY DEF HashesGrow, ChangesShow
<1>4. ChainGoesOn'
  BY <1>1 DEF ChainGoesOn
<1> QED
  BY <1>2, <1>3, <1>4

LEMMA TamperKeeps ==
  ASSUME AuditIInv, NEW d \in Records!Days, NEW n \in DOMAIN files[d], Records!Tamper(d, n)
  PROVE  AuditIInv'
<1>1. LogTyped /\ HashesGrow /\ ChangesShow
  BY DEF AuditIInv
<1>2. /\ files \in [Records!Days -> Seq(Entry)] /\ files[d] \in Seq(Entry)
      /\ logged \in Nat /\ tampered \in Seq(Records!Days)
      /\ Grows(files[d], logged)
  BY <1>1 DEF LogTyped, HashesGrow
<1>3. Follows(files[d]) /\ n \in DOMAIN files[d]
  BY DEF Records!Tamper, Records!Intact, Follows
<1>4. PICK file \in Seq(Entry) : /\ files' = [files EXCEPT ![d] = file]
                                 /\ Grows(file, logged)
                                 /\ ~Follows(file)
  <2>1. CASE files' = [files EXCEPT ![d][n].altered = TRUE]
    <3>1. files' = [files EXCEPT ![d] = [files[d] EXCEPT ![n].altered = TRUE]]
      BY <2>1
    <3> QED
      BY <1>2, <1>3, <3>1, AlteredFile
  <2>2. CASE n < Len(files[d]) /\ files' = [files EXCEPT ![d] = Records!RemoveAt(files[d], n)]
    BY <1>2, <1>3, <2>2, ShortenedFile
  <2> QED
    BY <2>1, <2>2 DEF Records!Tamper
<1>5. /\ tampered' = Append(tampered, d)
      /\ UNCHANGED <<today, hashFiles, lastHash, logged, restarts>>
  BY DEF Records!Tamper
<1>6. /\ tampered' \in Seq(Records!Days) /\ tampered' # <<>>
      /\ Len(tampered) \in Nat
      /\ DOMAIN tampered' = 1..(Len(tampered) + 1) /\ DOMAIN tampered = 1..Len(tampered)
      /\ \A k \in 1..Len(tampered) : tampered'[k] = tampered[k]
      /\ tampered'[Len(tampered) + 1] = d
  BY <1>2, <1>5, AppendProperties, LenProperties
<1>7. LogTyped'
  BY <1>1, <1>4, <1>5, <1>6 DEF LogTyped
<1>8. HashesGrow'
  BY <1>1, <1>2, <1>4, <1>5 DEF HashesGrow
<1>9. ChangesShow'
  <2> SUFFICES ASSUME NEW k \in DOMAIN tampered' PROVE ~Follows(files'[tampered'[k]])
    BY DEF ChangesShow
  <2>1. CASE tampered'[k] = d
    BY <1>2, <1>4, <2>1
  <2>2. CASE tampered'[k] # d
    <3>1. k \in DOMAIN tampered /\ tampered'[k] = tampered[k]
      BY <1>6, <2>2
    <3>2. tampered[k] \in Records!Days
      BY <1>2, <1>6, <3>1, LenProperties
    <3>3. files'[tampered'[k]] = files[tampered[k]]
      BY <1>2, <1>4, <2>2, <3>1, <3>2
    <3> QED
      BY <1>1, <3>1, <3>3 DEF ChangesShow
  <2> QED
    BY <2>1, <2>2
<1> QED
  BY <1>6, <1>7, <1>8, <1>9 DEF AuditIInv, ChainGoesOn

LEMMA AuditSteps == AuditIInv /\ [Records!AuditNext]_(Records!auditVars) => AuditIInv'
<1> SUFFICES ASSUME AuditIInv, [Records!AuditNext]_(Records!auditVars) PROVE AuditIInv'
  OBVIOUS
<1>1. CASE UNCHANGED Records!auditVars
  BY <1>1 DEF Records!auditVars, AuditIInv, LogTyped, HashesGrow, ChangesShow, ChainGoesOn
<1> QED
  BY <1>1, LogKeeps, RestartKeeps, NextDayKeeps, TamperKeeps DEF Records!AuditNext

(* A transaction: an abort has undone, the latest first, what can be       *)
(* undone above the next one.                                              *)
Undoing == [at : {"idle", "undoing", "done"}, of : Nat, next : Nat, back : Seq(Nat)]
Falls(back) == \A i, j \in DOMAIN back : i < j => back[i] > back[j]
UndoneSoFar(abort) ==
  /\ abort.of <= Len(operations)
  /\ abort.next <= abort.of
  /\ abort.at = "done" => abort.next = 0
  /\ abort.at # "idle" =>
        /\ Records!ToSet(abort.back) = {n \in 1..abort.of : n > abort.next /\ operations[n] = "works"}
        /\ Falls(abort.back)
TransactionIInv ==
  /\ operations \in Seq({"none", "works", "fails"})
  /\ aborts \in [Aborts -> Undoing]
  /\ \A a \in Aborts : UndoneSoFar(aborts[a])

LEMMA TransactionStarts == Records!Init => TransactionIInv
<1> SUFFICES ASSUME Records!Init PROVE TransactionIInv
  OBVIOUS
<1>1. <<>> \in Seq({"none", "works", "fails"}) /\ <<>> \in Seq(Nat) /\ Len(<<>>) = 0
  BY EmptySeq
<1>2. operations = <<>> /\ aborts = [a \in Aborts |-> Records!IdleAbort]
  BY DEF Records!Init
<1>3. Records!IdleAbort \in Undoing /\ UndoneSoFar(Records!IdleAbort)
  BY <1>1, <1>2 DEF Records!IdleAbort, Undoing, UndoneSoFar
<1> QED
  BY <1>1, <1>2, <1>3 DEF TransactionIInv

(* What is undone next is less than all before. *)
LEMMA LongerBack ==
  ASSUME NEW back \in Seq(Nat), NEW n \in Nat, Falls(back),
         \A k \in Records!ToSet(back) : k > n
  PROVE  /\ Append(back, n) \in Seq(Nat)
         /\ Records!ToSet(Append(back, n)) = Records!ToSet(back) \cup {n}
         /\ Falls(Append(back, n))
<1> DEFINE longer == Append(back, n)
<1>1. /\ Len(back) \in Nat /\ DOMAIN back = 1..Len(back)
      /\ \A i \in DOMAIN back : back[i] \in Nat
  BY LenProperties
<1>2. /\ longer \in Seq(Nat) /\ Len(longer) = Len(back) + 1
      /\ \A i \in 1..Len(back) : longer[i] = back[i]
      /\ longer[Len(back) + 1] = n
  BY AppendProperties
<1>3. DOMAIN longer = 1..(Len(back) + 1)
  BY <1>2, LenProperties
<1> HIDE DEF longer
<1>4. Records!ToSet(longer) = Records!ToSet(back) \cup {n}
  <2>1. ASSUME NEW k \in DOMAIN longer
        PROVE  longer[k] \in Records!ToSet(back) \cup {n}
    BY <1>1, <1>2, <1>3 DEF Records!ToSet
  <2>2. ASSUME NEW k \in DOMAIN back
        PROVE  back[k] \in Records!ToSet(longer)
    BY <1>1, <1>2, <1>3 DEF Records!ToSet
  <2>3. n \in Records!ToSet(longer)
    BY <1>1, <1>2, <1>3 DEF Records!ToSet
  <2> QED
    BY <2>1, <2>2, <2>3 DEF Records!ToSet
<1>5. Falls(longer)
  <2> SUFFICES ASSUME NEW i \in DOMAIN longer, NEW j \in DOMAIN longer, i < j
               PROVE  longer[i] > longer[j]
    BY DEF Falls
  <2>1. i \in DOMAIN back /\ longer[i] = back[i]
    BY <1>1, <1>2, <1>3
  <2>2. CASE j \in DOMAIN back
    BY <1>1, <1>2, <2>1, <2>2 DEF Falls
  <2>3. CASE j = Len(back) + 1
    BY <1>1, <1>2, <2>1, <2>3 DEF Records!ToSet
  <2> QED
    BY <1>1, <1>3, <2>2, <2>3
<1> QED
  BY <1>2, <1>4, <1>5 DEF longer

(* An abort that ends its step is all that changes. *)
LEMMA AbortBecomes ==
  ASSUME TransactionIInv, NEW a \in Aborts, NEW abort \in Undoing,
         aborts' = [aborts EXCEPT ![a] = abort], operations' = operations,
         UndoneSoFar(abort)
  PROVE  TransactionIInv'
<1>1. aborts' \in [Aborts -> Undoing]
  BY DEF TransactionIInv
<1>2. ASSUME NEW b \in Aborts PROVE UndoneSoFar(aborts[b])'
  <2>1. CASE b = a
    <3>1. aborts'[b] = abort
      BY <2>1 DEF TransactionIInv
    <3> QED
      BY <3>1 DEF UndoneSoFar
  <2>2. CASE b # a
    <3>1. aborts'[b] = aborts[b] /\ UndoneSoFar(aborts[b])
      BY <2>2 DEF TransactionIInv
    <3> QED
      BY <3>1 DEF UndoneSoFar
  <2> QED
    BY <2>1, <2>2
<1> QED
  BY <1>1, <1>2 DEF TransactionIInv

LEMMA TransactionSteps ==
  TransactionIInv /\ [Records!TransactionNext]_(Records!transactionVars) => TransactionIInv'
<1> SUFFICES ASSUME TransactionIInv, [Records!TransactionNext]_(Records!transactionVars)
             PROVE  TransactionIInv'
  OBVIOUS
<1>0. /\ operations \in Seq({"none", "works", "fails"})
      /\ Len(operations) \in Nat /\ DOMAIN operations = 1..Len(operations)
      /\ aborts \in [Aborts -> Undoing]
      /\ \A a \in Aborts : aborts[a] \in Undoing /\ UndoneSoFar(aborts[a])
  BY LenProperties DEF TransactionIInv
<1>1. ASSUME NEW undo \in {"none", "works", "fails"}, Records!Prepare(undo)
      PROVE  TransactionIInv'
  <2>1. /\ operations' \in Seq({"none", "works", "fails"})
        /\ Len(operations') = Len(operations) + 1
        /\ \A n \in 1..Len(operations) : operations'[n] = operations[n]
        /\ aborts' = aborts
    BY <1>0, <1>1, AppendProperties DEF Records!Prepare
  <2>2. ASSUME NEW a \in Aborts PROVE UndoneSoFar(aborts[a])'
    <3> DEFINE abort == aborts[a]
    <3>1. abort \in Undoing /\ UndoneSoFar(abort)
      BY <1>0
    <3>2. \A n \in 1..abort.of : operations'[n] = operations[n]
      <4>1. abort.of \in Nat /\ abort.of <= Len(operations)
        BY <3>1 DEF UndoneSoFar, Undoing
      <4> HIDE DEF abort
      <4> QED
        BY <1>0, <2>1, <4>1
    <3>3. {n \in 1..abort.of : n > abort.next /\ operations'[n] = "works"}
             = {n \in 1..abort.of : n > abort.next /\ operations[n] = "works"}
      BY <3>2
    <3>4. abort.of <= Len(operations')
      BY <1>0, <2>1, <3>1 DEF UndoneSoFar, Undoing
    <3> HIDE DEF abort
    <3>5. aborts'[a] = abort
      BY <2>1 DEF abort
    <3> QED
      BY <3>1, <3>3, <3>4, <3>5 DEF UndoneSoFar
  <2> QED
    BY <1>0, <2>1, <2>2 DEF TransactionIInv
<1>2. ASSUME Records!Commit PROVE TransactionIInv'
  BY <1>2 DEF Records!Commit, TransactionIInv, UndoneSoFar
<1>3. ASSUME NEW a \in Aborts, Records!Abort(a) PROVE TransactionIInv'
  <2> DEFINE abort == [at |-> "undoing", of |-> Len(operations), next |-> Len(operations),
                       back |-> <<>>]
  <2>1. <<>> \in Seq(Nat) /\ DOMAIN <<>> = {}
    BY EmptySeq
  <2>2. abort \in Undoing
    BY <1>0, <2>1 DEF Undoing
  <2>3. Records!ToSet(<<>>) = {} /\ Falls(<<>>)
    BY <2>1 DEF Records!ToSet, Falls
  <2>4. {n \in 1..Len(operations) : n > Len(operations) /\ operations[n] = "works"} = {}
    BY <1>0
  <2>5. UndoneSoFar(abort)
    BY <1>0, <2>3, <2>4 DEF UndoneSoFar
  <2>6. aborts' = [aborts EXCEPT ![a] = abort] /\ operations' = operations
    BY <1>3 DEF Records!Abort
  <2> HIDE DEF abort
  <2> QED
    BY <2>2, <2>5, <2>6, AbortBecomes
<1>4. ASSUME NEW a \in Aborts, Records!Undo(a) PROVE TransactionIInv'
  <2> DEFINE n == aborts[a].next
             back == IF operations[n] = "works" THEN Append(aborts[a].back, n)
                     ELSE aborts[a].back
             abort == [aborts[a] EXCEPT !.next = n - 1, !.back = back]
  <2>1. /\ aborts[a].at = "undoing" /\ n > 0
        /\ aborts' = [aborts EXCEPT ![a].next = n - 1, ![a].back = back]
        /\ operations' = operations
    BY <1>4 DEF Records!Undo
  <2>2. aborts' = [aborts EXCEPT ![a] = abort]
    BY <1>0, <2>1
  <2>3. /\ aborts[a] \in Undoing /\ UndoneSoFar(aborts[a])
        /\ n \in Nat /\ n > 0 /\ n <= aborts[a].of /\ aborts[a].of \in Nat
        /\ aborts[a].back \in Seq(Nat) /\ Falls(aborts[a].back)
        /\ Records!ToSet(aborts[a].back)
             = {k \in 1..aborts[a].of : k > n /\ operations[k] = "works"}
    BY <1>0, <2>1 DEF Undoing, UndoneSoFar
  <2>4. /\ back \in Seq(Nat) /\ Falls(back)
        /\ Records!ToSet(back) = {k \in 1..aborts[a].of : k > n - 1 /\ operations[k] = "works"}
    <3>1. CASE operations[n] = "works"
      <4>1. /\ Append(aborts[a].back, n) \in Seq(Nat)
            /\ Records!ToSet(Append(aborts[a].back, n)) = Records!ToSet(aborts[a].back) \cup {n}
            /\ Falls(Append(aborts[a].back, n))
        <5>1. \A k \in Records!ToSet(aborts[a].back) : k > n
          BY <2>3
        <5> QED
          BY <2>3, <5>1, LongerBack
      <4>2. {k \in 1..aborts[a].of : k > n - 1 /\ operations[k] = "works"}
              = {k \in 1..aborts[a].of : k > n /\ operations[k] = "works"} \cup {n}
        BY <2>3, <3>1
      <4> QED
        BY <2>3, <3>1, <4>1, <4>2
    <3>2. CASE operations[n] # "works"
      <4>1. {k \in 1..aborts[a].of : k > n - 1 /\ operations[k] = "works"}
              = {k \in 1..aborts[a].of : k > n /\ operations[k] = "works"}
        BY <2>3, <3>2
      <4> QED
        BY <2>3, <3>2, <4>1
    <3> QED
      BY <3>1, <3>2
  <2> HIDE DEF back, n
  <2>5. /\ abort \in Undoing /\ abort.at = "undoing" /\ abort.of = aborts[a].of
        /\ abort.next = n - 1 /\ abort.back = back
    <3>1. n - 1 \in Nat /\ back \in Seq(Nat) /\ aborts[a] \in Undoing
      BY <2>3, <2>4
    <3>2. abort = [aborts[a] EXCEPT !.next = n - 1, !.back = back]
      OBVIOUS
    <3> HIDE DEF abort
    <3>3. /\ abort \in Undoing /\ abort.at = aborts[a].at /\ abort.of = aborts[a].of
          /\ abort.next = n - 1 /\ abort.back = back
      BY ONLY <3>1, <3>2 DEF Undoing
    <3> QED
      BY ONLY <2>1, <3>3
  <2> HIDE DEF abort
  <2>6. aborts[a].of <= Len(operations)
    BY <2>3 DEF UndoneSoFar
  <2>7. UndoneSoFar(abort)
    BY <2>3, <2>4, <2>5, <2>6 DEF UndoneSoFar
  <2> QED
    BY <2>1, <2>2, <2>5, <2>7, AbortBecomes
<1>5. ASSUME NEW a \in Aborts, Records!Aborted(a) PROVE TransactionIInv'
  <2> DEFINE abort == [aborts[a] EXCEPT !.at = "done"]
  <2>1. /\ aborts[a].at = "undoing" /\ aborts[a].next = 0
        /\ aborts' = [aborts EXCEPT ![a] = abort] /\ operations' = operations
    BY <1>5 DEF Records!Aborted
  <2>2. aborts[a] \in Undoing /\ UndoneSoFar(aborts[a])
    BY <1>0
  <2>3. /\ abort \in Undoing /\ abort.at = "done" /\ abort.of = aborts[a].of
        /\ abort.next = aborts[a].next /\ abort.back = aborts[a].back
    BY <2>2 DEF Undoing
  <2> HIDE DEF abort
  <2>4. UndoneSoFar(abort)
    BY <2>1, <2>2, <2>3 DEF UndoneSoFar
  <2> QED
    BY <2>1, <2>3, <2>4, AbortBecomes
<1>6. CASE UNCHANGED Records!transactionVars
  BY <1>6 DEF Records!transactionVars, TransactionIInv, UndoneSoFar
<1> QED
  BY <1>1, <1>2, <1>3, <1>4, <1>5, <1>6 DEF Records!TransactionNext

(* The snapshots: they are numbered without a gap up to the latest.        *)
Snapshot == [number : Nat, sound : BOOLEAN]
SnapshotIInv == snapshots \in Seq(Snapshot) /\ saves \in Nat /\ Records!HistoryIsRecent

LEMMA SnapshotStarts == Records!Init => SnapshotIInv
<1> SUFFICES ASSUME Records!Init PROVE SnapshotIInv
  OBVIOUS
<1>1. <<>> \in Seq(Snapshot) /\ Len(<<>>) = 0 /\ DOMAIN <<>> = {}
  BY EmptySeq
<1> QED
  BY <1>1, RecordsBounds DEF Records!Init, SnapshotIInv, Records!HistoryIsRecent,
     Records!RecordsAssumption

LEMMA SaveKeeps ==
  ASSUME SnapshotIInv, NEW sound \in BOOLEAN, Records!Save(sound)
  PROVE  SnapshotIInv'
<1> DEFINE new == [number |-> saves + 1, sound |-> sound]
           all == Append(snapshots, new)
           from == Len(all) - MaxSnapshots + 1
<1>1. /\ snapshots \in Seq(Snapshot) /\ saves \in Nat /\ MaxSnapshots \in Nat
      /\ Len(snapshots) \in Nat /\ DOMAIN snapshots = 1..Len(snapshots)
      /\ Len(snapshots) <= MaxSnapshots
      /\ \A i \in 1..Len(snapshots) : snapshots[i].number = saves - Len(snapshots) + i
  BY RecordsBounds, LenProperties DEF SnapshotIInv, Records!HistoryIsRecent,
     Records!RecordsAssumption
<1>2. /\ saves' = saves + 1
      /\ snapshots' = IF Len(all) > MaxSnapshots THEN SubSeq(all, from, Len(all)) ELSE all
  BY DEF Records!Save
<1>3. new \in Snapshot /\ new.number = saves + 1
  BY <1>1 DEF Snapshot
<1> HIDE DEF new
<1>4. /\ all \in Seq(Snapshot) /\ Len(all) = Len(snapshots) + 1
      /\ \A i \in 1..Len(snapshots) : all[i] = snapshots[i]
      /\ all[Len(snapshots) + 1] = new
  BY <1>1, <1>3, AppendProperties
<1>5. DOMAIN all = 1..Len(all) /\ \A i \in 1..Len(all) : all[i] \in Snapshot
  BY <1>4, LenProperties
<1>6. \A i \in 1..Len(all) : all[i].number = saves' - Len(all) + i
  BY <1>1, <1>2, <1>3, <1>4
<1> HIDE DEF all
<1>7. CASE Len(all) > MaxSnapshots
  <2>1. from \in 2..(Len(all) + 1) /\ Len(all) - from + 1 = MaxSnapshots
    BY <1>1, <1>4, <1>7
  <2>2. /\ snapshots' \in Seq(Snapshot)
        /\ Len(snapshots') = MaxSnapshots
        /\ \A i \in 1..MaxSnapshots : snapshots'[i] = all[from + i - 1]
    <3>1. \A i \in from..Len(all) : all[i] \in Snapshot
      BY <1>1, <1>4, <1>5, <2>1
    <3>2. /\ SubSeq(all, from, Len(all)) \in Seq(Snapshot)
          /\ Len(SubSeq(all, from, Len(all))) = IF from <= Len(all) THEN Len(all) - from + 1 ELSE 0
          /\ \A i \in 1..(Len(all) - from + 1) : SubSeq(all, from, Len(all))[i] = all[from + i - 1]
      BY <1>1, <1>4, <2>1, <3>1, SubSeqProperties
    <3> QED
      BY <1>1, <1>2, <1>4, <1>7, <2>1, <3>2
  <2>3. ASSUME NEW i \in 1..MaxSnapshots
        PROVE  snapshots'[i].number = saves' - MaxSnapshots + i
    <3>1. from + i - 1 \in 1..Len(all) /\ from + i - 1 = Len(all) - MaxSnapshots + i
      BY <1>1, <1>4, <1>7
    <3>2. all[from + i - 1].number = saves' - Len(all) + (Len(all) - MaxSnapshots + i)
      BY <1>6, <3>1
    <3> QED
      BY <1>1, <1>2, <1>4, <2>2, <3>2
  <2>4. DOMAIN snapshots' = 1..MaxSnapshots
    BY <2>2, LenProperties
  <2>5. Records!HistoryIsRecent'
    BY <1>1, <2>2, <2>3, <2>4 DEF Records!HistoryIsRecent
  <2> QED
    BY <1>1, <1>2, <2>2, <2>5 DEF SnapshotIInv
<1>8. CASE ~(Len(all) > MaxSnapshots)
  BY <1>1, <1>2, <1>4, <1>5, <1>6, <1>8 DEF SnapshotIInv, Records!HistoryIsRecent
<1> QED
  BY <1>7, <1>8

LEMMA SnapshotSteps ==
  SnapshotIInv /\ [Records!SnapshotNext]_(Records!snapshotVars) => SnapshotIInv'
<1> SUFFICES ASSUME SnapshotIInv, [Records!SnapshotNext]_(Records!snapshotVars)
             PROVE  SnapshotIInv'
  OBVIOUS
<1>1. ASSUME Records!Clear PROVE SnapshotIInv'
  <2>1. <<>> \in Seq(Snapshot) /\ Len(<<>>) = 0 /\ DOMAIN <<>> = {}
    BY EmptySeq
  <2> QED
    BY <1>1, <2>1, RecordsBounds DEF Records!Clear, SnapshotIInv, Records!HistoryIsRecent,
       Records!RecordsAssumption
<1>2. ASSUME Records!Recover \/ UNCHANGED Records!snapshotVars PROVE SnapshotIInv'
  BY <1>2 DEF Records!Recover, Records!snapshotVars, SnapshotIInv, Records!HistoryIsRecent
<1> QED
  BY <1>1, <1>2, SaveKeeps DEF Records!SnapshotNext

(* The pages of the log.                                                   *)

RecordsIInv == AuditIInv /\ TransactionIInv /\ SnapshotIInv

LEMMA RecordsStart == Records!Init => RecordsIInv
BY AuditStarts, TransactionStarts, SnapshotStarts DEF RecordsIInv

LEMMA RecordsSteps == RecordsIInv /\ [Records!Next]_(Records!vars) => RecordsIInv'
<1> SUFFICES ASSUME RecordsIInv, [Records!Next]_(Records!vars) PROVE RecordsIInv'
  OBVIOUS
<1>1. /\ [Records!AuditNext]_(Records!auditVars)
      /\ [Records!TransactionNext]_(Records!transactionVars)
      /\ [Records!SnapshotNext]_(Records!snapshotVars)
  BY DEF Records!Next, Records!vars
<1>2. AuditIInv' /\ TransactionIInv' /\ SnapshotIInv'
  BY <1>1, AuditSteps, TransactionSteps, SnapshotSteps DEF RecordsIInv
<1> QED
  BY <1>2 DEF RecordsIInv

LEMMA RecordsHold == RecordsIInv => RecordsInv
<1> SUFFICES ASSUME RecordsIInv PROVE RecordsInv
  OBVIOUS
<1>1. Records!TamperingShows
  BY DEF RecordsIInv, AuditIInv, ChangesShow, Follows, Records!TamperingShows, Records!Intact
<1>2. Records!FirstDayIntact
  BY DEF RecordsIInv, AuditIInv, ChainGoesOn, Follows, Records!FirstDayIntact, Records!Intact
<1>3. Records!UndoneInReverse
  <2> SUFFICES ASSUME NEW a \in Aborts, aborts[a].at = "done"
               PROVE  /\ Records!ToSet(aborts[a].back)
                           = {n \in 1..aborts[a].of : operations[n] = "works"}
                      /\ \A i, j \in DOMAIN aborts[a].back :
                            i < j => aborts[a].back[i] > aborts[a].back[j]
    BY DEF Records!UndoneInReverse
  <2>1. /\ UndoneSoFar(aborts[a]) /\ aborts[a].next = 0 /\ aborts[a] \in Undoing
        /\ aborts[a].at # "idle"
    BY DEF RecordsIInv, TransactionIInv, UndoneSoFar
  <2>2. {n \in 1..aborts[a].of : n > aborts[a].next /\ operations[n] = "works"}
          = {n \in 1..aborts[a].of : operations[n] = "works"}
    BY <2>1 DEF Undoing
  <2> QED
    BY <2>1, <2>2 DEF UndoneSoFar, Falls
<1>4. Records!HistoryIsRecent
  BY DEF RecordsIInv, SnapshotIInv
<1> QED
  BY <1>1, <1>2, <1>3, <1>4 DEF RecordsInv, Records!RecordsInv

-----------------------------------------------------------------------------
(* Orchestrations.                                                         *)

Output == [by : 0..AgentCount, answer : Orchestrations!Answers, round : Nat]
Bid == [by : 1..AgentCount, confidence : 0..2]
Verdict == [status : {"running", "success", "failure"}, answer : Nat]

OrchestrationTyped ==
  /\ pattern \in Orchestrations!Kinds
  /\ subtasks \in Nat /\ stage \in Nat \ {0} /\ agentsRun \in Nat /\ speaker \in 1..AgentCount
  /\ bids \in [1..subtasks -> Seq(Bid)]
  /\ outputs \in Seq(Output)
  /\ verdict \in Verdict /\ verdict.answer <= Len(outputs)

(* So many rounds of so many runs.                                         *)
Times(n, m) == n * m

(* What a run that goes on has asked so far, at every stage.               *)
PacedAs ==
  /\ pattern \in {"sequential", "escalation"} =>
       stage <= AgentCount /\ agentsRun + 1 = stage /\ Len(outputs) + 1 = stage
  /\ pattern = "escalation" =>
       \A i \in DOMAIN outputs : outputs[i].by = i /\ outputs[i].answer \notin {"ok", "notice"}
  /\ pattern = "hierarchical" => agentsRun + 1 = stage /\ stage <= MaxDelegations
  /\ pattern = "auction" /\ stage <= MaxBidRounds + 1 =>
       agentsRun = Times(stage - 1, AgentCount * subtasks) /\ outputs = <<>>
  /\ pattern = "debate" =>
       /\ stage <= MaxRounds + 1 /\ agentsRun = Times(stage - 1, AgentCount)
       /\ Len(outputs) = Times(stage - 1, AgentCount)
  /\ pattern = "swarm" => agentsRun + 1 = stage /\ stage <= MaxHandoffs
  /\ pattern = "blackboard" =>
       stage <= MaxCycles /\ agentsRun + 1 = Times(stage - 1, AgentCount) + speaker
  /\ pattern = "supervisor" => agentsRun + 1 = stage /\ stage <= 2 * MaxWorkerCalls
  /\ pattern = "router" => agentsRun = 0
Paced == verdict = Orchestrations!Running => PacedAs

OrchestrationIInv ==
  /\ OrchestrationTyped /\ Paced
  /\ Orchestrations!RunsBounded /\ Orchestrations!WinnersSpread /\ Orchestrations!EscalatesInTurn

LEMMA TimesGrow ==
  ASSUME NEW n \in Nat, NEW b \in Nat
  PROVE  /\ Times(n, b) \in Nat /\ Times(0, b) = 0
         /\ Times(n + 1, b) = Times(n, b) + b
         /\ Times(n, b) = b * n
         /\ \A m \in Nat : n <= m => Times(n, b) <= Times(m, b)
BY DEF Times

LEMMA CountsAreNat ==
  /\ AgentCount \in Nat \ {0} /\ MaxDelegations \in Nat \ {0} /\ MaxBidRounds \in Nat \ {0}
  /\ MaxRounds \in Nat \ {0} /\ MaxHandoffs \in Nat \ {0} /\ MaxCycles \in Nat \ {0}
  /\ MaxWorkerCalls \in Nat \ {0}
BY OrchestrationBounds DEF Orchestrations!OrchestrationAssumption

LEMMA AllowedRuns ==
  ASSUME subtasks \in Nat
  PROVE  /\ Orchestrations!Allowed["sequential"] = AgentCount
         /\ Orchestrations!Allowed["escalation"] = AgentCount
         /\ Orchestrations!Allowed["router"] = 1
         /\ Orchestrations!Allowed["hierarchical"] = MaxDelegations
         /\ Orchestrations!Allowed["swarm"] = MaxHandoffs
         /\ Orchestrations!Allowed["supervisor"] = 2 * MaxWorkerCalls
         /\ Orchestrations!Allowed["auction"] = Times(MaxBidRounds, AgentCount * subtasks) + subtasks
         /\ Orchestrations!Allowed["debate"] = Times(MaxRounds, AgentCount) + AgentCount
         /\ Orchestrations!Allowed["blackboard"] = Times(MaxCycles, AgentCount)
<1>1. AgentCount * subtasks \in Nat
  BY CountsAreNat
<1>2. /\ Times(MaxBidRounds, AgentCount * subtasks) = AgentCount * subtasks * MaxBidRounds
      /\ Times(MaxRounds, AgentCount) = AgentCount * MaxRounds
      /\ Times(MaxCycles, AgentCount) = AgentCount * MaxCycles
  BY <1>1, TimesGrow, CountsAreNat
<1> QED
  BY <1>2 DEF Orchestrations!Allowed

LEMMA OrchestrationsStart == Orchestrations!Init => OrchestrationIInv
<1> SUFFICES ASSUME Orchestrations!Init PROVE OrchestrationIInv
  OBVIOUS
<1>1. /\ pattern \in Orchestrations!Kinds /\ stage = 1 /\ outputs = <<>> /\ agentsRun = 0
      /\ verdict = Orchestrations!Running
      /\ bids = [s \in 1..subtasks |-> <<>>]
  BY DEF Orchestrations!Init
<1>2. subtasks \in Nat
  BY CountsAreNat DEF Orchestrations!Init
<1>3. speaker \in 1..AgentCount /\ (pattern # "swarm" => speaker = 1)
  BY CountsAreNat DEF Orchestrations!Init, Orchestrations!AgentOrder
<1>4. OrchestrationTyped
  <2>1. <<>> \in Seq(Bid) /\ <<>> \in Seq(Output) /\ Len(outputs) = 0
    BY <1>1
  <2> QED
    BY <1>1, <1>2, <1>3, <2>1 DEF OrchestrationTyped, Verdict, Orchestrations!Running
<1>5. Times(0, AgentCount) = 0 /\ Times(0, AgentCount * subtasks) = 0
  <2>1. AgentCount * subtasks \in Nat
    BY <1>2, CountsAreNat
  <2> QED
    BY <2>1, TimesGrow, CountsAreNat
<1>6. Paced
  <2>1. stage - 1 = 0 /\ Len(outputs) = 0
    BY <1>1
  <2> QED
    BY <1>1, <1>3, <1>5, <2>1, CountsAreNat DEF Paced, PacedAs
<1>7. Orchestrations!RunsBounded
  <2>1. AgentCount * subtasks \in Nat
    BY <1>2, CountsAreNat
  <2>2. Times(MaxBidRounds, AgentCount * subtasks) \in Nat /\ Times(MaxRounds, AgentCount) \in Nat /\ Times(MaxCycles, AgentCount) \in Nat
    BY <2>1, TimesGrow, CountsAreNat
  <2>3. \A k \in Orchestrations!Kinds : 0 <= Orchestrations!Allowed[k]
    <3> SUFFICES ASSUME NEW k \in Orchestrations!Kinds PROVE 0 <= Orchestrations!Allowed[k]
      OBVIOUS
    <3>1. CASE k \in {"sequential", "escalation", "router", "hierarchical", "swarm", "supervisor"}
      BY <1>2, <3>1, AllowedRuns, CountsAreNat
    <3>2. CASE k \in {"auction", "debate", "blackboard"}
      BY <1>2, <2>2, <3>2, AllowedRuns, CountsAreNat
    <3> QED
      BY <3>1, <3>2 DEF Orchestrations!Kinds
  <2> QED
    BY <1>1, <2>3 DEF Orchestrations!RunsBounded
<1>8. Orchestrations!WinnersSpread /\ Orchestrations!EscalatesInTurn
  BY <1>1 DEF Orchestrations!WinnersSpread, Orchestrations!EscalatesInTurn
<1> QED
  BY <1>4, <1>6, <1>7, <1>8 DEF OrchestrationIInv

(* One more output.                                                        *)
LEMMA Emitted ==
  ASSUME NEW s \in Seq(Output), NEW o \in Output
  PROVE  /\ Append(s, o) \in Seq(Output) /\ Len(Append(s, o)) = Len(s) + 1 /\ Len(s) \in Nat
         /\ Append(s, o)[Len(s) + 1] = o
         /\ \A i \in 1..Len(s) : Append(s, o)[i] = s[i]
BY AppendProperties

(* How a run ends.                                                         *)
Over(n) == [status : {"success", "failure"}, answer : {n}]

LEMMA Ended ==
  ASSUME NEW n \in Nat, NEW v \in Over(n)
  PROVE  v \in Verdict /\ v.answer = n /\ v # Orchestrations!Running
BY DEF Over, Verdict, Orchestrations!Running

(* What is left to show of a step of a run.                                *)
LEMMA OrchestrationBecomes ==
  ASSUME OrchestrationIInv, UNCHANGED <<pattern, subtasks>>,
         stage' \in Nat \ {0}, agentsRun' \in Nat, agentsRun' <= Orchestrations!Allowed[pattern],
         speaker' \in 1..AgentCount, bids' \in [1..subtasks -> Seq(Bid)],
         outputs' \in Seq(Output), verdict' \in Verdict, verdict'.answer <= Len(outputs'),
         verdict' = Orchestrations!Running => PacedAs',
         pattern = "auction" => Orchestrations!WinnersSpread',
         pattern = "escalation" => Orchestrations!EscalatesInTurn'
  PROVE  OrchestrationIInv'
<1>1. OrchestrationTyped'
  BY DEF OrchestrationIInv, OrchestrationTyped
<1>2. Paced'
  BY DEF Paced, Orchestrations!Running
<1>3. Orchestrations!RunsBounded'
  BY DEF Orchestrations!RunsBounded, Orchestrations!Allowed
<1> QED
  BY <1>1, <1>2, <1>3 DEF OrchestrationIInv, Orchestrations!WinnersSpread, Orchestrations!EscalatesInTurn

(* A step that asks one agent and gives one output or none.                *)
LEMMA OneAsked ==
  ASSUME OrchestrationIInv, verdict = Orchestrations!Running
  PROVE  /\ OrchestrationTyped /\ PacedAs
         /\ pattern \in Orchestrations!Kinds /\ subtasks \in Nat /\ stage \in Nat \ {0}
         /\ agentsRun \in Nat /\ speaker \in 1..AgentCount
         /\ bids \in [1..subtasks -> Seq(Bid)]
         /\ outputs \in Seq(Output) /\ Len(outputs) \in Nat
         /\ verdict \in Verdict /\ verdict.answer <= Len(outputs) /\ verdict.answer = 0
BY DEF OrchestrationIInv, OrchestrationTyped, Paced, Orchestrations!Running

LEMMA SequentialStep == OrchestrationIInv /\ Orchestrations!Sequential => OrchestrationIInv'
<1> SUFFICES ASSUME OrchestrationIInv, Orchestrations!Sequential PROVE OrchestrationIInv'
  OBVIOUS
<1>1. /\ pattern = "sequential" /\ UNCHANGED <<pattern, subtasks, speaker, bids>>
      /\ agentsRun' = agentsRun + 1 /\ verdict = Orchestrations!Running
  BY DEF Orchestrations!Sequential, Orchestrations!Does
<1>2. stage <= AgentCount /\ agentsRun + 1 = stage /\ Len(outputs) + 1 = stage
  BY <1>1, OneAsked DEF PacedAs
<1>3. /\ outputs' \in Seq(Output)
      /\ \/ /\ Len(outputs') = Len(outputs) + 1 /\ stage < AgentCount
            /\ stage' = stage + 1 /\ UNCHANGED verdict
         \/ /\ stage' = stage
            /\ \E n \in 0..Len(outputs') : verdict' \in Over(n)
  <2>1. CASE /\ Orchestrations!Emit(stage, "ok")
             /\ IF stage < AgentCount THEN Orchestrations!GoesOn ELSE Orchestrations!Stops(TRUE, stage)
    BY <1>1, <1>2, <2>1, OneAsked, Emitted, CountsAreNat DEF Output, Orchestrations!Answers, Orchestrations!GoesOn, Orchestrations!Stops, Orchestrations!Emit, Orchestrations!Ends, Over
  <2>2. CASE Orchestrations!Emit(stage, "failed") /\ Orchestrations!Stops(TRUE, stage)
    BY <1>1, <1>2, <2>2, OneAsked, Emitted, CountsAreNat DEF Output, Orchestrations!Answers, Orchestrations!Stops, Orchestrations!Emit, Orchestrations!Ends, Over
  <2>3. CASE Orchestrations!Emit(stage, "error") /\ Orchestrations!Stops(FALSE, 0)
    BY <1>1, <1>2, <2>3, OneAsked, Emitted, CountsAreNat DEF Output, Orchestrations!Answers, Orchestrations!Stops, Orchestrations!Emit, Orchestrations!Ends, Over
  <2>4. CASE UNCHANGED outputs /\ Orchestrations!Stops(FALSE, 0)
    BY <1>1, <2>4, OneAsked DEF Orchestrations!Stops, Orchestrations!Emit, Orchestrations!Ends, Over
  <2> QED
    BY <2>1, <2>2, <2>3, <2>4 DEF Orchestrations!Sequential
<1>4. /\ verdict' \in Verdict /\ verdict'.answer <= Len(outputs')
      /\ verdict' = Orchestrations!Running => stage' <= AgentCount /\ stage' = stage + 1 /\ Len(outputs') = Len(outputs) + 1
  BY <1>1, <1>2, <1>3, OneAsked, Ended, CountsAreNat
<1>5. verdict' = Orchestrations!Running => PacedAs'
  BY <1>1, <1>2, <1>4, OneAsked DEF PacedAs
<1>6. stage' \in Nat \ {0} /\ agentsRun' \in Nat /\ agentsRun' <= Orchestrations!Allowed[pattern]
  BY <1>1, <1>2, <1>3, OneAsked, AllowedRuns, CountsAreNat
<1> QED
  BY <1>1, <1>3, <1>4, <1>5, <1>6, OneAsked, OrchestrationBecomes

LEMMA HierarchicalStep == OrchestrationIInv /\ Orchestrations!Hierarchical => OrchestrationIInv'
<1> SUFFICES ASSUME OrchestrationIInv, Orchestrations!Hierarchical PROVE OrchestrationIInv'
  OBVIOUS
<1>1. /\ pattern = "hierarchical" /\ UNCHANGED <<pattern, subtasks, speaker, bids>>
      /\ verdict = Orchestrations!Running
  BY DEF Orchestrations!Hierarchical, Orchestrations!Does
<1>2. agentsRun + 1 = stage /\ stage <= MaxDelegations
  BY <1>1, OneAsked DEF PacedAs
<1>3. /\ outputs' \in Seq(Output) /\ Len(outputs') = Len(outputs) + 1
      /\ agentsRun' \in {agentsRun, agentsRun + 1}
      /\ \/ agentsRun' = agentsRun + 1 /\ stage < MaxDelegations /\ stage' = stage + 1 /\ UNCHANGED verdict
         \/ /\ stage' = stage
            /\ \E n \in {0, 1} : verdict' \in Over(n)
  <2>1. CASE subtasks = 0
    <3>1. Orchestrations!Emit(0, "ok") /\ Orchestrations!Stops(TRUE, 1) /\ UNCHANGED agentsRun
      BY <2>1 DEF Orchestrations!Hierarchical
    <3>2. outputs' \in Seq(Output) /\ Len(outputs') = Len(outputs) + 1
      BY <1>1, <3>1, OneAsked, Emitted, CountsAreNat DEF Output, Orchestrations!Answers, Orchestrations!Emit
    <3> QED
      BY <3>1, <3>2 DEF Orchestrations!Stops, Orchestrations!Ends, Over
  <2>2. CASE subtasks # 0
    <3>1. PICK worker \in 1..AgentCount, answer \in {"ok", "failed", "error"} : Orchestrations!Emit(worker, answer)
      BY <2>2 DEF Orchestrations!Hierarchical, Orchestrations!AgentOrder
    <3>2. outputs' \in Seq(Output) /\ Len(outputs') = Len(outputs) + 1
      BY <1>1, <3>1, OneAsked, Emitted, CountsAreNat DEF Output, Orchestrations!Answers, Orchestrations!Emit
    <3>3. /\ agentsRun' = agentsRun + 1
          /\ IF stage < subtasks /\ stage < MaxDelegations THEN Orchestrations!GoesOn ELSE Orchestrations!Stops(Orchestrations!AllOk, 0)
      BY <2>2 DEF Orchestrations!Hierarchical
    <3>4. CASE stage < subtasks /\ stage < MaxDelegations
      BY <3>2, <3>3, <3>4 DEF Orchestrations!GoesOn
    <3>5. CASE ~(stage < subtasks /\ stage < MaxDelegations)
      <4>1. stage' = stage /\ verdict' = [status |-> IF Orchestrations!AllOk THEN "success" ELSE "failure", answer |-> 0]
        BY <3>3, <3>5 DEF Orchestrations!Stops, Orchestrations!Ends, Orchestrations!AllOk
      <4>2. verdict' = [status |-> "success", answer |-> 0] \/ verdict' = [status |-> "failure", answer |-> 0]
        BY <4>1
      <4> QED
        BY <3>2, <3>3, <4>1, <4>2 DEF Over
    <3> QED
      BY <3>4, <3>5
  <2> QED
    BY <2>1, <2>2
<1>4. /\ verdict' \in Verdict /\ verdict'.answer <= Len(outputs')
      /\ verdict' = Orchestrations!Running => stage' <= MaxDelegations /\ stage' = stage + 1 /\ agentsRun' = agentsRun + 1
  BY <1>1, <1>2, <1>3, OneAsked, Ended, CountsAreNat
<1>5. verdict' = Orchestrations!Running => PacedAs'
  BY <1>1, <1>2, <1>4, OneAsked DEF PacedAs
<1>6. stage' \in Nat \ {0} /\ agentsRun' \in Nat /\ agentsRun' <= Orchestrations!Allowed[pattern]
  BY <1>1, <1>2, <1>3, OneAsked, AllowedRuns, CountsAreNat
<1> QED
  BY <1>1, <1>3, <1>4, <1>5, <1>6, OneAsked, OrchestrationBecomes

LEMMA SwarmStep == OrchestrationIInv /\ Orchestrations!Swarm => OrchestrationIInv'
<1> SUFFICES ASSUME OrchestrationIInv, Orchestrations!Swarm PROVE OrchestrationIInv'
  OBVIOUS
<1>1. /\ pattern = "swarm" /\ UNCHANGED <<pattern, subtasks, bids>> /\ agentsRun' = agentsRun + 1
      /\ verdict = Orchestrations!Running
  BY DEF Orchestrations!Swarm, Orchestrations!Does
<1>2. agentsRun + 1 = stage /\ stage <= MaxHandoffs
  BY <1>1, OneAsked DEF PacedAs
<1>3. /\ outputs' \in Seq(Output) /\ speaker' \in 1..AgentCount
      /\ \/ stage < MaxHandoffs /\ stage' = stage + 1 /\ UNCHANGED verdict
         \/ /\ stage' \in {stage, stage + 1}
            /\ \E n \in 0..Len(outputs') : verdict' \in Over(n)
  <2>1. ASSUME NEW r \in {"ok", "error"}, Orchestrations!Emit(speaker, r), Orchestrations!Stops(TRUE, Len(outputs) + 1),
               UNCHANGED speaker
        PROVE  <1>3
    BY <1>1, <2>1, OneAsked, Emitted, CountsAreNat DEF Output, Orchestrations!Answers, Orchestrations!Stops, Orchestrations!Emit, Orchestrations!Ends, Over
  <2>2. CASE outputs = <<>> /\ Orchestrations!Stops(FALSE, 0) /\ UNCHANGED <<speaker, outputs>>
    BY <1>1, <2>2, OneAsked DEF Orchestrations!Stops, Orchestrations!Emit, Orchestrations!Ends, Over
  <2>3. ASSUME NEW target \in 1..AgentCount, Orchestrations!Emit(speaker, "passed"), speaker' = target, stage' = stage + 1,
               IF stage < MaxHandoffs THEN UNCHANGED verdict ELSE Orchestrations!Ends(FALSE, Len(outputs) + 1)
        PROVE  <1>3
    <3>1. outputs' \in Seq(Output) /\ Len(outputs') = Len(outputs) + 1
      BY <1>1, <2>3, OneAsked, Emitted, CountsAreNat DEF Output, Orchestrations!Answers, Orchestrations!Emit
    <3> QED
      BY <1>1, <1>2, <2>3, <3>1, OneAsked DEF Orchestrations!Ends, Over
  <2> QED
    BY <2>1, <2>2, <2>3 DEF Orchestrations!Swarm, Orchestrations!AgentOrder
<1>4. /\ verdict' \in Verdict /\ verdict'.answer <= Len(outputs')
      /\ verdict' = Orchestrations!Running => stage' <= MaxHandoffs /\ stage' = stage + 1
  BY <1>1, <1>2, <1>3, OneAsked, Ended, CountsAreNat
<1>5. verdict' = Orchestrations!Running => PacedAs'
  BY <1>1, <1>2, <1>4, OneAsked DEF PacedAs
<1>6. stage' \in Nat \ {0} /\ agentsRun' \in Nat /\ agentsRun' <= Orchestrations!Allowed[pattern]
  <2>1. subtasks \in Nat /\ stage \in Nat \ {0} /\ agentsRun \in Nat
    BY <1>1, OneAsked
  <2>2. Orchestrations!Allowed["swarm"] = MaxHandoffs
    BY <2>1, AllowedRuns
  <2>3. stage' \in {stage, stage + 1}
    BY <1>3
  <2> QED
    BY <1>1, <1>2, <2>1, <2>2, <2>3
<1> QED
  BY <1>1, <1>3, <1>4, <1>5, <1>6, OneAsked, OrchestrationBecomes

LEMMA SupervisorStep == OrchestrationIInv /\ Orchestrations!Supervisor => OrchestrationIInv'
<1> SUFFICES ASSUME OrchestrationIInv, Orchestrations!Supervisor PROVE OrchestrationIInv'
  OBVIOUS
<1>1. /\ pattern = "supervisor" /\ UNCHANGED <<pattern, subtasks, speaker, bids>>
      /\ verdict = Orchestrations!Running
  BY DEF Orchestrations!Supervisor, Orchestrations!Does
<1>2. agentsRun + 1 = stage /\ stage <= 2 * MaxWorkerCalls
  BY <1>1, OneAsked DEF PacedAs
<1>3. /\ outputs' \in Seq(Output) /\ agentsRun' \in {agentsRun, agentsRun + 1}
      /\ \/ agentsRun' = agentsRun + 1 /\ stage < 2 * MaxWorkerCalls /\ stage' = stage + 1 /\ UNCHANGED verdict
         \/ stage' = stage /\ verdict' \in Over(0)
      /\ Len(outputs') \in Nat
  <2>1. CASE UNCHANGED <<outputs, agentsRun>> /\ Orchestrations!Stops(TRUE, 0)
    BY <1>1, <2>1, OneAsked DEF Orchestrations!Stops, Orchestrations!Emit, Orchestrations!Ends, Over
  <2>2. ASSUME NEW worker \in 1..AgentCount, Orchestrations!Emit(worker, "ok"), agentsRun' = agentsRun + 1,
               IF stage < 2 * MaxWorkerCalls THEN Orchestrations!GoesOn ELSE Orchestrations!Stops(TRUE, 0)
        PROVE  <1>3
    BY <1>1, <2>2, OneAsked, Emitted, CountsAreNat DEF Output, Orchestrations!Answers, Orchestrations!Stops, Orchestrations!GoesOn, Orchestrations!Emit, Orchestrations!Ends, Over
  <2> QED
    BY <2>1, <2>2 DEF Orchestrations!Supervisor, Orchestrations!AgentOrder
<1>4. /\ verdict' \in Verdict /\ verdict'.answer <= Len(outputs')
      /\ verdict' = Orchestrations!Running => stage' <= 2 * MaxWorkerCalls /\ stage' = stage + 1 /\ agentsRun' = agentsRun + 1
  BY <1>1, <1>2, <1>3, OneAsked, Ended, CountsAreNat
<1>5. verdict' = Orchestrations!Running => PacedAs'
  BY <1>1, <1>2, <1>4, OneAsked DEF PacedAs
<1>6. stage' \in Nat \ {0} /\ agentsRun' \in Nat /\ agentsRun' <= Orchestrations!Allowed[pattern]
  BY <1>1, <1>2, <1>3, OneAsked, AllowedRuns, CountsAreNat
<1> QED
  BY <1>1, <1>3, <1>4, <1>5, <1>6, OneAsked, OrchestrationBecomes

LEMMA RouterStep == OrchestrationIInv /\ Orchestrations!Router => OrchestrationIInv'
<1> SUFFICES ASSUME OrchestrationIInv, Orchestrations!Router PROVE OrchestrationIInv'
  OBVIOUS
<1>1. /\ pattern = "router" /\ UNCHANGED <<pattern, subtasks, speaker, bids>>
      /\ verdict = Orchestrations!Running
  BY DEF Orchestrations!Router, Orchestrations!Does
<1>2. agentsRun = 0
  BY <1>1, OneAsked DEF PacedAs
<1>3. /\ outputs' \in Seq(Output) /\ agentsRun' \in {0, 1} /\ stage' = stage
      /\ \E n \in 0..Len(outputs') : verdict' \in Over(n)
  <2>1. ASSUME NEW a \in 1..AgentCount, Orchestrations!Emit(a, "ok"), agentsRun' = agentsRun + 1,
               Orchestrations!Stops(TRUE, 1)
        PROVE  <1>3
    BY <1>1, <1>2, <2>1, OneAsked, Emitted, CountsAreNat DEF Output, Orchestrations!Answers, Orchestrations!Stops, Orchestrations!Emit, Orchestrations!Ends, Over
  <2>2. CASE UNCHANGED outputs /\ agentsRun' \in {agentsRun, agentsRun + 1} /\ Orchestrations!Stops(FALSE, 0)
    BY <1>1, <1>2, <2>2, OneAsked DEF Orchestrations!Stops, Orchestrations!Emit, Orchestrations!Ends, Over
  <2> QED
    BY <2>1, <2>2 DEF Orchestrations!Router, Orchestrations!AgentOrder
<1>4. verdict' \in Verdict /\ verdict'.answer <= Len(outputs') /\ verdict' # Orchestrations!Running
  BY <1>1, <1>3, OneAsked, Ended
<1>5. stage' \in Nat \ {0} /\ agentsRun' \in Nat /\ agentsRun' <= Orchestrations!Allowed[pattern]
  BY <1>1, <1>2, <1>3, OneAsked, AllowedRuns
<1> QED
  BY <1>1, <1>3, <1>4, <1>5, OneAsked, OrchestrationBecomes
(* So many members of a set, in their order.                               *)
LEMMA OrchestrationCounts == \A S : Orchestrations!Cardinality(S) = Cardinality(S)
BY DEF Orchestrations!Cardinality, Cardinality

LEMMA CountWithin ==
  ASSUME NEW n \in Nat, NEW S \in SUBSET (1..n)
  PROVE  IsFiniteSet(S) /\ Cardinality(S) \in 0..n
<1>1. IsFiniteSet(1..n) /\ Cardinality(1..n) = n
  BY FS_Interval
<1> DEFINE I == 1..n
<1>2. IsFiniteSet(I) /\ Cardinality(I) = n /\ S \in SUBSET I
  BY <1>1
<1> HIDE DEF I
<1>3. IsFiniteSet(S) /\ Cardinality(S) <= Cardinality(I)
  BY <1>2, FS_Subset
<1>4. Cardinality(S) \in Nat
  BY <1>3, FS_CardinalityType
<1> QED
  BY <1>2, <1>3, <1>4

LEMMA InOrderSound ==
  ASSUME NEW n \in Nat, NEW set \in SUBSET (1..n), NEW todo \in [1..Cardinality(set) -> set],
         \A i, j \in 1..Cardinality(set) : i < j => todo[i] < todo[j]
  PROVE  /\ todo \in Seq(set) /\ Len(todo) \in 0..n /\ DOMAIN todo = 1..Len(todo)
         /\ \A i, j \in 1..Len(todo) : i < j => todo[i] < todo[j]
         /\ \A x \in set : \E i \in 1..Len(todo) : todo[i] = x
<1>1. IsFiniteSet(set) /\ Cardinality(set) \in 0..n
  BY CountWithin
<1>2. todo \in [1..Cardinality(set) -> set] /\ \A i, j \in 1..Cardinality(set) : i < j => todo[i] < todo[j]
  OBVIOUS
<1>3. todo \in Seq(set) /\ Len(todo) = Cardinality(set) /\ DOMAIN todo = 1..Cardinality(set)
  BY <1>1, <1>2
<1>4. \A i, j \in 1..Cardinality(set) : todo[i] = todo[j] => i = j
  <2> SUFFICES ASSUME NEW i \in 1..Cardinality(set), NEW j \in 1..Cardinality(set), todo[i] = todo[j] PROVE i = j
    OBVIOUS
  <2>1. todo[i] \in Nat /\ i \in Nat /\ j \in Nat
    <3>1. todo[i] \in set
      BY <1>2
    <3>2. set \subseteq 1..n /\ Cardinality(set) \in Nat
      BY <1>1
    <3>3. i \in Nat /\ j \in Nat
      BY <3>2
    <3>4. todo[i] \in 1..n
      BY <3>1, <3>2, Zenon
    <3> QED
      BY <3>3, <3>4
  <2>2. (i < j => todo[i] < todo[j]) /\ (j < i => todo[j] < todo[i])
    BY <1>2
  <2> QED
    BY <2>1, <2>2
<1>5. todo \in Injection(1..Cardinality(set), set)
  BY <1>2, <1>4 DEF Injection, IsInjective
<1>6. Cardinality(1..Cardinality(set)) = Cardinality(set)
  BY <1>1, FS_Interval
<1>7. todo \in Surjection(1..Cardinality(set), set)
  BY <1>1, <1>5, <1>6, FS_Injection
<1> QED
  BY <1>1, <1>2, <1>3, <1>7 DEF Surjection

LEMMA CollectBidsStep == OrchestrationIInv /\ Orchestrations!CollectBids => OrchestrationIInv'
<1> SUFFICES ASSUME OrchestrationIInv, Orchestrations!CollectBids PROVE OrchestrationIInv'
  OBVIOUS
<1> DEFINE each == AgentCount * subtasks
<1>1. /\ pattern = "auction" /\ UNCHANGED <<pattern, subtasks, speaker, outputs, verdict>>
      /\ stage <= MaxBidRounds /\ stage' = stage + 1 /\ agentsRun' = agentsRun + each
      /\ verdict = Orchestrations!Running
  BY DEF Orchestrations!CollectBids, Orchestrations!Does, Orchestrations!GoesOn
<1>2. /\ each \in Nat /\ agentsRun = Times(stage - 1, each) /\ outputs = <<>>
      /\ Times(stage, each) = agentsRun' /\ Times(stage, each) <= Times(MaxBidRounds, each)
      /\ Times(MaxBidRounds, each) \in Nat /\ agentsRun' \in Nat
  <2>1. stage \in Nat \ {0} /\ stage - 1 \in Nat /\ (stage - 1) + 1 = stage /\ MaxBidRounds \in Nat
    BY <1>1, OneAsked, CountsAreNat
  <2>2. stage <= MaxBidRounds + 1
    BY <1>1, <2>1
  <2>3. each \in Nat /\ agentsRun = Times(stage - 1, each) /\ outputs = <<>>
    BY <1>1, <2>2, OneAsked, CountsAreNat DEF PacedAs
  <2> HIDE DEF each
  <2>4. Times((stage - 1) + 1, each) = Times(stage - 1, each) + each /\ Times(stage - 1, each) \in Nat
    BY <2>1, <2>3, TimesGrow
  <2>5. Times(stage, each) <= Times(MaxBidRounds, each) /\ Times(MaxBidRounds, each) \in Nat
    BY <1>1, <2>1, <2>3, TimesGrow
  <2>6. agentsRun' = agentsRun + each
    BY <1>1
  <2> QED
    BY <2>1, <2>3, <2>4, <2>5, <2>6
<1>3. bids' \in [1..subtasks -> Seq(Bid)]
  <2>1. PICK confidence \in [1..AgentCount -> [1..subtasks -> 0..2]] :
           bids' = [s \in 1..subtasks |->
               bids[s] \o [a \in 1..AgentCount |-> [by |-> a, confidence |-> confidence[a][s]]]]
    BY DEF Orchestrations!CollectBids, Orchestrations!AgentOrder
  <2>2. ASSUME NEW s \in 1..subtasks
        PROVE  bids[s] \o [a \in 1..AgentCount |-> [by |-> a, confidence |-> confidence[a][s]]] \in Seq(Bid)
    <3> DEFINE bid(a) == [by |-> a, confidence |-> confidence[a][s]]
    <3>1. \A a \in 1..AgentCount : bid(a) \in Bid
      BY DEF Bid
    <3>2. [a \in 1..AgentCount |-> bid(a)] \in Seq(Bid)
      <4> HIDE DEF bid
      <4> QED
        BY <3>1, CountsAreNat, IsASeq
    <3>3. bids[s] \in Seq(Bid)
      BY <1>1, OneAsked
    <3> QED
      BY <3>2, <3>3, ConcatProperties
  <2> QED
    BY <2>1, <2>2
<1>4. Orchestrations!WinnersSpread'
  BY <1>1, <1>2 DEF Orchestrations!WinnersSpread
<1>5. PacedAs'
  <2>1. stage' - 1 = stage
    BY <1>1, OneAsked
  <2> HIDE DEF each
  <2>2. pattern' = "auction" /\ agentsRun' = Times(stage' - 1, each) /\ outputs' = <<>>
    BY <1>1, <1>2, <2>1
  <2> QED
    BY <1>1, <2>2 DEF PacedAs, each
<1>6. stage' \in Nat \ {0} /\ agentsRun' <= Orchestrations!Allowed[pattern]
  <2>1. Orchestrations!Allowed[pattern] = Times(MaxBidRounds, each) + subtasks
    BY <1>1, AllowedRuns, OneAsked
  <2> HIDE DEF each
  <2> QED
    BY <1>1, <1>2, <2>1, OneAsked
<1> QED
  BY <1>1, <1>2, <1>3, <1>4, <1>5, <1>6, OneAsked, OrchestrationBecomes
(* Who wins a subtask was free, or was the only bidder, or everyone who    *)
(* bade for it has one already.                                            *)
LEMMA WinsFairly ==
  ASSUME NEW s, NEW i, NEW assigned, Orchestrations!Wins(s, i, assigned)
  PROVE  /\ i \in Orchestrations!BidsFor(s)
         /\ \/ bids[s][i].by \notin assigned
            \/ \A j, k \in Orchestrations!BidsFor(s) : j = k
            \/ \A j \in Orchestrations!BidsFor(s) : bids[s][j].by \in assigned
BY DEF Orchestrations!Wins, Orchestrations!BestOf

LEMMA AuctionStep == OrchestrationIInv /\ Orchestrations!Auction => OrchestrationIInv'
<1> SUFFICES ASSUME OrchestrationIInv, Orchestrations!Auction PROVE OrchestrationIInv'
  OBVIOUS
<1> DEFINE each == AgentCount * subtasks
<1>1. /\ pattern = "auction" /\ UNCHANGED <<pattern, subtasks, speaker, bids, verdict>>
      /\ stage = MaxBidRounds + 1 /\ stage' = stage + 1
      /\ verdict = Orchestrations!Running
  BY DEF Orchestrations!Auction, Orchestrations!Does, Orchestrations!GoesOn
<1>2. PICK winner \in Orchestrations!Winners :
        \E todo \in Orchestrations!InOrder({s \in 1..subtasks : winner[s] # 0}) :
           /\ \E answers \in [DOMAIN todo -> {"ok", "failed", "error"}] :
                  outputs' = [i \in DOMAIN todo |->
                      [by |-> winner[todo[i]], answer |-> answers[i], round |-> todo[i]]]
           /\ agentsRun' = agentsRun + Len(todo)
  BY DEF Orchestrations!Auction
<1>21. PICK won \in SUBSET (1..subtasks) : won = {s \in 1..subtasks : winner[s] # 0}
  OBVIOUS
<1>3. PICK todo \in Orchestrations!InOrder(won) :
           /\ \E answers \in [DOMAIN todo -> {"ok", "failed", "error"}] :
                  outputs' = [i \in DOMAIN todo |->
                      [by |-> winner[todo[i]], answer |-> answers[i], round |-> todo[i]]]
           /\ agentsRun' = agentsRun + Len(todo)
  BY <1>2, <1>21
<1>4. PICK answers \in [DOMAIN todo -> {"ok", "failed", "error"}] :
                  outputs' = [i \in DOMAIN todo |->
                      [by |-> winner[todo[i]], answer |-> answers[i], round |-> todo[i]]]
  BY <1>3
<1>5. subtasks \in Nat /\ each \in Nat
  BY <1>1, OneAsked, CountsAreNat
<1>6. /\ winner \in [1..subtasks -> 0..AgentCount]
      /\ \A s \in won : \E i \in Orchestrations!BidsFor(s) :
            Orchestrations!Wins(s, i, {winner[t] : t \in 1..(s - 1)}) /\ winner[s] = bids[s][i].by
  BY <1>21, WinsFairly DEF Orchestrations!Winners
<1> HIDE DEF each
<1>7. /\ todo \in Seq(won) /\ Len(todo) \in 0..subtasks /\ DOMAIN todo = 1..Len(todo)
      /\ \A i, j \in 1..Len(todo) : i < j => todo[i] < todo[j]
      /\ \A x \in won : \E i \in 1..Len(todo) : todo[i] = x
  <2>1. todo \in [1..Cardinality(won) -> won] /\ \A i, j \in 1..Cardinality(won) : i < j => todo[i] < todo[j]
    BY <1>3, OrchestrationCounts DEF Orchestrations!InOrder
  <2>2. won \in SUBSET (1..subtasks)
    BY <1>21
  <2>3. ASSUME NEW n \in Nat, won \in SUBSET (1..n)
        PROVE  /\ todo \in Seq(won) /\ Len(todo) \in 0..n /\ DOMAIN todo = 1..Len(todo)
               /\ \A i, j \in 1..Len(todo) : i < j => todo[i] < todo[j]
               /\ \A x \in won : \E i \in 1..Len(todo) : todo[i] = x
    BY <2>1, <2>3, InOrderSound
  <2> QED
    BY <1>5, <2>2, <2>3
<1>8. \A i \in 1..Len(todo) : todo[i] \in 1..subtasks /\ winner[todo[i]] # 0 /\ todo[i] \in Nat
  <2> SUFFICES ASSUME NEW i \in 1..Len(todo) PROVE todo[i] \in 1..subtasks /\ winner[todo[i]] # 0 /\ todo[i] \in Nat
    OBVIOUS
  <2>1. todo[i] \in won
    BY <1>7, ElementOfSeq
  <2> QED
    BY <1>5, <1>21, <2>1
<1>9. outputs' \in Seq(Output) /\ Len(outputs') = Len(todo) /\ DOMAIN outputs' = 1..Len(todo)
  <2> DEFINE output(i) == [by |-> winner[todo[i]], answer |-> answers[i], round |-> todo[i]]
  <2>1. \A i \in 1..Len(todo) : output(i) \in Output
    BY <1>4, <1>6, <1>7, <1>8 DEF Output, Orchestrations!Answers
  <2>2. outputs' = [i \in 1..Len(todo) |-> output(i)]
    BY <1>4, <1>7
  <2>3. Len(todo) \in Nat
    BY <1>5, <1>7
  <2> HIDE DEF output
  <2>4. outputs' \in Seq(Output)
    BY <2>1, <2>2, <2>3, IsASeq
  <2> QED
    BY <2>2, <2>3, <2>4
<1>10. \A i \in 1..Len(todo) : outputs'[i].by = winner[todo[i]] /\ outputs'[i].round = todo[i]
  BY <1>4, <1>7
<1>11. Orchestrations!WinnersSpread'
  <2> SUFFICES ASSUME NEW i \in 1..Len(todo), NEW j \in 1..(i - 1), winner[todo[i]] = winner[todo[j]],
                      NEW b \in Orchestrations!BidsFor(todo[i])
               PROVE  \E k \in 1..(i - 1) : winner[todo[k]] = bids[todo[i]][b].by
    <3>1. \A i \in 1..Len(todo) : \A j \in 1..(i - 1) : j \in 1..Len(todo)
      BY <1>5, <1>7
    <3> SUFFICES ASSUME NEW i \in DOMAIN outputs', NEW j \in 1..(i - 1), outputs'[i].by = outputs'[j].by,
                        NEW b \in DOMAIN bids'[outputs'[i].round], bids'[outputs'[i].round][b].confidence > 0
                 PROVE  \E k \in 1..(i - 1) : outputs'[k].by = bids'[outputs'[i].round][b].by
      BY Zenon DEF Orchestrations!WinnersSpread, Orchestrations!BidsFor
    <3>2. i \in 1..Len(todo) /\ j \in 1..Len(todo)
      BY <1>9, <3>1
    <3>3. winner[todo[i]] = winner[todo[j]] /\ outputs'[i].round = todo[i]
      BY <1>10, <3>2
    <3>4. b \in Orchestrations!BidsFor(todo[i])
      BY <1>1, <3>3 DEF Orchestrations!BidsFor
    <3>5. PICK k \in 1..(i - 1) : winner[todo[k]] = bids[todo[i]][b].by
      BY <3>2, <3>3, <3>4
    <3>6. outputs'[k].by = winner[todo[k]]
      BY <1>10, <3>1, <3>2
    <3> QED
      BY <1>1, <3>3, <3>5, <3>6
  <2> DEFINE assigned == {winner[t] : t \in 1..(todo[i] - 1)}
  <2>1. j \in 1..Len(todo) /\ j < i
    BY <1>5, <1>7
  <2>2. todo[i] \in won /\ todo[j] \in 1..(todo[i] - 1)
    <3>1. todo[i] \in won
      BY <1>7, ElementOfSeq
    <3>2. todo[j] < todo[i] /\ todo[j] \in Nat \ {0} /\ todo[i] \in Nat
      BY <1>5, <1>7, <1>8, <2>1
    <3> QED
      BY <3>1, <3>2
  <2>3. winner[todo[j]] \in assigned
    BY <2>2
  <2>4. PICK w \in Orchestrations!BidsFor(todo[i]) :
           Orchestrations!Wins(todo[i], w, assigned) /\ winner[todo[i]] = bids[todo[i]][w].by
    BY <1>6, <2>2
  <2>5. bids[todo[i]][w].by \in assigned
    BY <2>3, <2>4
  <2>6. (\A k, l \in Orchestrations!BidsFor(todo[i]) : k = l)
        \/ \A k \in Orchestrations!BidsFor(todo[i]) : bids[todo[i]][k].by \in assigned
    <3> HIDE DEF assigned
    <3> QED
      BY <2>4, <2>5, WinsFairly
  <2>7. CASE \A k, l \in Orchestrations!BidsFor(todo[i]) : k = l
    <3>1. bids[todo[i]][b].by = winner[todo[i]]
      BY <2>4, <2>7
    <3> QED
      BY <3>1
  <2>8. CASE \A k \in Orchestrations!BidsFor(todo[i]) : bids[todo[i]][k].by \in assigned
    <3>1. PICK t \in 1..(todo[i] - 1) : winner[t] = bids[todo[i]][b].by
      BY <2>8
    <3>2. t \in 1..subtasks /\ t < todo[i]
      BY <1>5, <1>8
    <3>3. bids[todo[i]][b].by \in 1..AgentCount
      <4>1. bids[todo[i]] \in Seq(Bid)
        BY <1>1, <1>8, OneAsked
      <4>2. b \in 1..Len(bids[todo[i]])
        BY <4>1 DEF Orchestrations!BidsFor
      <4>3. bids[todo[i]][b] \in Bid
        BY <4>1, <4>2, ElementOfSeq
      <4> QED
        BY <4>3 DEF Bid
    <3>4. t \in won
      BY <1>21, <3>1, <3>2, <3>3, CountsAreNat
    <3>5. PICK k \in 1..Len(todo) : todo[k] = t
      BY <1>7, <3>4
    <3>6. k < i
      <4>1. k \in Nat /\ i \in Nat /\ todo[i] \in Nat /\ todo[k] \in Nat
        BY <1>5, <1>7, <1>8
      <4>2. i < k => todo[i] < todo[k]
        BY <1>7
      <4>3. todo[k] < todo[i]
        BY <3>2, <3>5
      <4> QED
        BY <4>1, <4>2, <4>3
    <3>7. k \in 1..(i - 1)
      BY <1>5, <1>7, <3>6
    <3> QED
      BY <3>1, <3>5, <3>7
  <2> QED
    BY <2>6, <2>7, <2>8
<1>12. PacedAs'
  BY <1>1, OneAsked, CountsAreNat DEF PacedAs
<1>13. /\ stage' \in Nat \ {0} /\ agentsRun' \in Nat /\ agentsRun' <= Orchestrations!Allowed[pattern]
       /\ Len(outputs') \in Nat
  <2>1. agentsRun = Times(MaxBidRounds, each) /\ agentsRun \in Nat
    BY <1>1, OneAsked, CountsAreNat DEF PacedAs, each
  <2>2. Orchestrations!Allowed[pattern] = Times(MaxBidRounds, each) + subtasks
    BY <1>1, AllowedRuns, OneAsked DEF each
  <2> QED
    BY <1>1, <1>3, <1>5, <1>7, <1>9, <2>1, <2>2, OneAsked, CountsAreNat
<1> QED
  BY <1>1, <1>9, <1>11, <1>12, <1>13, OneAsked, OrchestrationBecomes

LEMMA AuctionEndsStep == OrchestrationIInv /\ Orchestrations!AuctionEnds => OrchestrationIInv'
<1> SUFFICES ASSUME OrchestrationIInv, Orchestrations!AuctionEnds PROVE OrchestrationIInv'
  OBVIOUS
<1>1. /\ pattern = "auction" /\ UNCHANGED <<pattern, subtasks, speaker, bids, outputs, agentsRun, stage>>
      /\ verdict = Orchestrations!Running
      /\ verdict' \in Over(0)
  BY DEF Orchestrations!AuctionEnds, Orchestrations!Does, Orchestrations!Stops, Orchestrations!Ends, Over
<1>2. Orchestrations!WinnersSpread'
  BY <1>1 DEF OrchestrationIInv, Orchestrations!WinnersSpread, Orchestrations!BidsFor
<1>3. verdict' \in Verdict /\ verdict'.answer <= Len(outputs') /\ verdict' # Orchestrations!Running
  BY <1>1, Ended, OneAsked
<1>4. agentsRun <= Orchestrations!Allowed[pattern]
  BY DEF OrchestrationIInv, Orchestrations!RunsBounded
<1> QED
  BY <1>1, <1>2, <1>3, <1>4, OneAsked, OrchestrationBecomes

LEMMA DebateStep == OrchestrationIInv /\ Orchestrations!Debate => OrchestrationIInv'
<1> SUFFICES ASSUME OrchestrationIInv, Orchestrations!Debate PROVE OrchestrationIInv'
  OBVIOUS
<1>1. /\ pattern = "debate" /\ UNCHANGED <<pattern, subtasks, speaker, bids, verdict>>
      /\ stage <= MaxRounds /\ stage' = stage + 1 /\ agentsRun' = agentsRun + AgentCount
      /\ verdict = Orchestrations!Running
      /\ outputs' = outputs \o [a \in 1..AgentCount |-> [by |-> a, answer |-> "ok", round |-> stage]]
  BY DEF Orchestrations!Debate, Orchestrations!Does, Orchestrations!GoesOn, Orchestrations!AgentOrder
<1>2. /\ agentsRun = Times(stage - 1, AgentCount) /\ Len(outputs) = Times(stage - 1, AgentCount)
  BY <1>1, OneAsked DEF PacedAs
<1>3. outputs' \in Seq(Output) /\ Len(outputs') = Len(outputs) + AgentCount
  <2> DEFINE output(a) == [by |-> a, answer |-> "ok", round |-> stage]
  <2>1. \A a \in 1..AgentCount : output(a) \in Output
    BY <1>1, OneAsked, CountsAreNat DEF Output, Orchestrations!Answers
  <2>2. [a \in 1..AgentCount |-> output(a)] \in Seq(Output) /\ Len([a \in 1..AgentCount |-> output(a)]) = AgentCount
    <3> HIDE DEF output
    <3>1. [a \in 1..AgentCount |-> output(a)] \in Seq(Output)
      BY <2>1, CountsAreNat, IsASeq
    <3> QED
      BY <3>1, CountsAreNat
  <2> QED
    BY <1>1, <2>2, OneAsked, ConcatProperties
<1>4. /\ Times(stage, AgentCount) = Times(stage - 1, AgentCount) + AgentCount
      /\ Times(stage, AgentCount) <= Times(MaxRounds, AgentCount)
      /\ Times(MaxRounds, AgentCount) \in Nat /\ Times(stage, AgentCount) \in Nat
  <2>1. stage \in Nat \ {0} /\ stage - 1 \in Nat /\ (stage - 1) + 1 = stage
    BY <1>1, OneAsked
  <2> QED
    BY <1>1, <2>1, TimesGrow, CountsAreNat
<1>5. PacedAs'
  <2>1. stage' - 1 = stage /\ stage' <= MaxRounds + 1
    BY <1>1, OneAsked, CountsAreNat
  <2> QED
    BY <1>1, <1>2, <1>3, <1>4, <2>1 DEF PacedAs
<1>6. /\ stage' \in Nat \ {0} /\ agentsRun' \in Nat /\ agentsRun' <= Orchestrations!Allowed[pattern]
      /\ verdict'.answer <= Len(outputs')
  <2>1. verdict.answer = 0 /\ stage \in Nat /\ subtasks \in Nat /\ Len(outputs) \in Nat
    BY <1>1, OneAsked
  <2>2. Orchestrations!Allowed[pattern] = Times(MaxRounds, AgentCount) + AgentCount
    BY <1>1, <2>1, AllowedRuns
  <2>3. agentsRun' = Times(stage, AgentCount) /\ Len(outputs') \in Nat /\ verdict'.answer = 0
    BY <1>1, <1>2, <1>3, <1>4, <2>1, CountsAreNat
  <2> QED
    BY <1>1, <1>4, <2>1, <2>2, <2>3, CountsAreNat
<1> QED
  BY <1>1, <1>3, <1>5, <1>6, OneAsked, OrchestrationBecomes

LEMMA VoteStep == OrchestrationIInv /\ Orchestrations!Vote => OrchestrationIInv'
<1> SUFFICES ASSUME OrchestrationIInv, Orchestrations!Vote PROVE OrchestrationIInv'
  OBVIOUS
<1>1. /\ pattern = "debate" /\ UNCHANGED <<pattern, subtasks, speaker, bids, outputs, stage>>
      /\ stage = MaxRounds + 1 /\ agentsRun' = agentsRun + AgentCount
      /\ verdict = Orchestrations!Running
  BY DEF Orchestrations!Vote, Orchestrations!Does, Orchestrations!Stops
<1>2. agentsRun = Times(MaxRounds, AgentCount) /\ Len(outputs) = Times(MaxRounds, AgentCount)
  <2>1. stage - 1 = MaxRounds
    BY <1>1, CountsAreNat
  <2> QED
    BY <1>1, <2>1, OneAsked DEF PacedAs
<1>3. Times(MaxRounds, AgentCount) \in Nat /\ AgentCount <= Times(MaxRounds, AgentCount)
  <2>1. Times(0 + 1, AgentCount) = Times(0, AgentCount) + AgentCount /\ Times(0, AgentCount) = 0
    BY TimesGrow, CountsAreNat
  <2>2. Times(1, AgentCount) <= Times(MaxRounds, AgentCount) /\ Times(MaxRounds, AgentCount) \in Nat
    BY TimesGrow, CountsAreNat
  <2> QED
    BY <2>1, <2>2, CountsAreNat
<1>4. \E n \in 0..Len(outputs) : verdict' \in Over(n)
  <2>1. ASSUME NEW n \in 0..Len(outputs), Orchestrations!Stops(TRUE, n) PROVE <1>4
    BY <2>1 DEF Orchestrations!Stops, Orchestrations!Ends, Over
  <2>2. CASE Orchestrations!Stops(TRUE, 0)
    BY <1>1, <2>2, OneAsked DEF Orchestrations!Stops, Orchestrations!Ends, Over
  <2>3. ASSUME NEW votes \in [Orchestrations!AgentOrder -> [1..AgentCount + 1 -> 0..2]],
               Orchestrations!Stops(TRUE, IF Orchestrations!BestRanked(votes) \in Orchestrations!AgentOrder
                                          THEN Orchestrations!BestRanked(votes) ELSE Len(outputs))
        PROVE  <1>4
    <3> DEFINE n == IF Orchestrations!BestRanked(votes) \in Orchestrations!AgentOrder
                    THEN Orchestrations!BestRanked(votes) ELSE Len(outputs)
    <3>1. n \in 0..Len(outputs)
      <4>1. Len(outputs) \in Nat /\ AgentCount <= Len(outputs) /\ AgentCount \in Nat
        BY <1>1, <1>2, <1>3, OneAsked, CountsAreNat
      <4> QED
        BY <4>1 DEF Orchestrations!AgentOrder
    <3>2. verdict' \in Over(n)
      BY <2>3 DEF Orchestrations!Stops, Orchestrations!Ends, Over
    <3> QED
      BY <3>1, <3>2
  <2> QED
    BY <2>2, <2>3 DEF Orchestrations!Vote
<1>5. verdict' \in Verdict /\ verdict'.answer <= Len(outputs') /\ verdict' # Orchestrations!Running
  BY <1>1, <1>4, OneAsked, Ended
<1>6. agentsRun' \in Nat /\ agentsRun' <= Orchestrations!Allowed[pattern]
  BY <1>1, <1>2, <1>3, OneAsked, AllowedRuns, CountsAreNat
<1> QED
  BY <1>1, <1>5, <1>6, OneAsked, OrchestrationBecomes
(* A tier that has answered what a tier below may not: the run ends with   *)
(* it as its final answer.                                                 *)
LEMMA FinalOne ==
  ASSUME NEW all \in Seq(Output), NEW last \in Nat, Len(all) = last, last # 0,
         \A i \in 1..(last - 1) : all[i].answer \notin {"ok", "notice"},
         NEW n \in Orchestrations!FinalAnswers(all)
  PROVE  n \in 1..last /\ (all[last].answer \in {"ok", "notice"} => n = last)
<1>1. DOMAIN all = 1..last
  OBVIOUS
<1>2. n \in 1..last
  BY <1>1 DEF Orchestrations!FinalAnswers
<1>3. ASSUME all[last].answer \in {"ok", "notice"} PROVE n = last
  <2>1. last \in {i \in DOMAIN all : all[i].answer \in {"ok", "notice"}}
    BY <1>1, <1>3
  <2>2. all[n].answer \in {"ok", "notice"}
    BY <2>1 DEF Orchestrations!FinalAnswers
  <2> QED
    BY <1>2, <2>2
<1> QED
  BY <1>2, <1>3

LEMMA EscalationStep == OrchestrationIInv /\ Orchestrations!Escalation => OrchestrationIInv'
<1> SUFFICES ASSUME OrchestrationIInv, Orchestrations!Escalation PROVE OrchestrationIInv'
  OBVIOUS
<1>1. /\ pattern = "escalation" /\ UNCHANGED <<pattern, subtasks, speaker, bids>>
      /\ verdict = Orchestrations!Running
  BY DEF Orchestrations!Escalation, Orchestrations!Does
<1>2. /\ stage <= AgentCount /\ agentsRun + 1 = stage /\ Len(outputs) + 1 = stage
      /\ \A i \in DOMAIN outputs : outputs[i].by = i /\ outputs[i].answer \notin {"ok", "notice"}
  BY <1>1, OneAsked DEF PacedAs
<1> DEFINE Gives(answer) ==
        /\ outputs' = Append(outputs, [by |-> stage, answer |-> answer, round |-> stage])
        /\ agentsRun' \in {agentsRun, agentsRun + 1}
        /\ \/ /\ stage' = stage
              /\ \E n \in Orchestrations!FinalAnswers(outputs') : verdict' \in Over(n)
           \/ /\ answer \notin {"ok", "notice"} /\ stage # AgentCount /\ agentsRun' = agentsRun + 1
              /\ stage' = stage + 1 /\ UNCHANGED verdict
<1>3. PICK answer \in {"notice", "ok", "passed", "empty", "error"} : Gives(answer)
  <2>1. ASSUME NEW success \in Orchestrations!Successes, NEW n \in Orchestrations!FinalAnswers(outputs'),
               Orchestrations!Stops(success, n)
        PROVE  stage' = stage /\ \E m \in Orchestrations!FinalAnswers(outputs') : verdict' \in Over(m)
    <3>1. verdict' \in Over(n)
      BY <2>1 DEF Orchestrations!Stops, Orchestrations!Ends, Over
    <3> QED
      BY <2>1, <3>1 DEF Orchestrations!Stops
  <2>2. CASE /\ Orchestrations!Emit(stage, "notice") /\ UNCHANGED agentsRun
             /\ \E success \in Orchestrations!Successes, n \in Orchestrations!FinalAnswers(outputs') :
                   Orchestrations!Stops(success, n)
    BY <1>1, <2>1, <2>2, OneAsked DEF Orchestrations!Emit
  <2>3. ASSUME NEW answer \in {"ok", "passed", "empty", "error"}, Orchestrations!Emit(stage, answer), agentsRun' = agentsRun + 1,
               IF answer = "ok" \/ stage = AgentCount
                 THEN \E success \in Orchestrations!Successes, n \in Orchestrations!FinalAnswers(outputs') :
                        Orchestrations!Stops(success, n)
                 ELSE Orchestrations!GoesOn
        PROVE  \E a \in {"notice", "ok", "passed", "empty", "error"} : Gives(a)
    BY <2>1, <2>3 DEF Orchestrations!Emit, Orchestrations!GoesOn
  <2> QED
    BY <2>2, <2>3 DEF Orchestrations!Escalation
<1>4. /\ outputs' \in Seq(Output) /\ Len(outputs') = stage /\ DOMAIN outputs' = 1..stage
      /\ outputs'[stage].by = stage /\ outputs'[stage].answer = answer
      /\ \A i \in 1..(stage - 1) : outputs'[i] = outputs[i] /\ i \in DOMAIN outputs
  BY <1>1, <1>2, <1>3, OneAsked, Emitted, CountsAreNat DEF Output, Orchestrations!Answers
<1>5. \A i \in 1..stage : outputs'[i].by = i
  <2> SUFFICES ASSUME NEW i \in 1..stage PROVE outputs'[i].by = i
    OBVIOUS
  <2>1. i = stage \/ i \in 1..(stage - 1)
    BY <1>1, OneAsked
  <2> QED
    BY <1>2, <1>4, <2>1
<1>6. \A i \in 1..(stage - 1) : outputs'[i].answer \notin {"ok", "notice"}
  BY <1>2, <1>4
<1>7. CASE verdict' # Orchestrations!Running
  <2>1. PICK n \in Orchestrations!FinalAnswers(outputs') : verdict' \in Over(n)
    BY <1>1, <1>3, <1>7
  <2>2. n \in 1..stage /\ (answer = "ok" => n = stage)
    BY <1>1, <1>4, <1>6, FinalOne, OneAsked
  <2>3. verdict' \in Verdict /\ verdict'.answer = n
    BY <1>1, <2>1, <2>2, Ended, OneAsked
  <2>4. Orchestrations!EscalatesInTurn'
    <3> SUFFICES ASSUME NEW i \in 1..stage
                 PROVE  /\ outputs'[i].by = i
                        /\ i < stage => outputs'[i].answer # "ok"
                        /\ outputs'[i].answer = "ok" => n = i
      BY <1>4, <2>3 DEF Orchestrations!EscalatesInTurn
    <3>1. i = stage \/ i \in 1..(stage - 1)
      BY <1>1, OneAsked
    <3> QED
      BY <1>4, <1>5, <1>6, <2>2, <3>1
  <2>5. stage' = stage /\ agentsRun' \in Nat /\ agentsRun' <= AgentCount
    BY <1>1, <1>2, <1>3, <1>7, OneAsked, CountsAreNat
  <2>6. verdict'.answer <= Len(outputs') /\ agentsRun' <= Orchestrations!Allowed[pattern]
    BY <1>1, <1>4, <2>2, <2>3, <2>5, OneAsked, AllowedRuns
  <2> QED
    BY <1>1, <1>4, <1>7, <2>3, <2>4, <2>5, <2>6, OneAsked, OrchestrationBecomes
<1>8. CASE verdict' = Orchestrations!Running
  <2>1. \A n \in Nat : verdict' \notin Over(n)
    BY <1>8, Ended
  <2>2. Orchestrations!FinalAnswers(outputs') \subseteq Nat
    BY <1>4, OneAsked, <1>1 DEF Orchestrations!FinalAnswers
  <2>3. /\ answer \notin {"ok", "notice"} /\ stage # AgentCount /\ agentsRun' = agentsRun + 1
        /\ stage' = stage + 1 /\ UNCHANGED verdict
    BY <1>3, <2>1, <2>2
  <2>4. \A i \in 1..stage : outputs'[i].answer \notin {"ok", "notice"}
    <3> SUFFICES ASSUME NEW i \in 1..stage PROVE outputs'[i].answer \notin {"ok", "notice"}
      OBVIOUS
    <3>1. i = stage \/ i \in 1..(stage - 1)
      BY <1>1, OneAsked
    <3> QED
      BY <1>4, <1>6, <2>3, <3>1
  <2>5. stage' <= AgentCount /\ stage' \in Nat \ {0} /\ agentsRun' \in Nat /\ agentsRun' <= Orchestrations!Allowed[pattern]
    <3>1. stage \in Nat \ {0} /\ agentsRun \in Nat /\ AgentCount \in Nat /\ stage <= AgentCount /\ agentsRun + 1 = stage
      BY <1>1, <1>2, OneAsked, CountsAreNat
    <3>2. Orchestrations!Allowed[pattern] = AgentCount
      BY <1>1, OneAsked, AllowedRuns
    <3>3. stage # AgentCount /\ stage' = stage + 1 /\ agentsRun' = agentsRun + 1
      BY <2>3
    <3> QED
      BY <3>1, <3>2, <3>3
  <2>6. PacedAs'
    BY <1>1, <1>2, <1>4, <1>5, <2>3, <2>4, <2>5, OneAsked DEF PacedAs
  <2>7. Orchestrations!EscalatesInTurn'
    BY <1>4, <1>5, <2>4 DEF Orchestrations!EscalatesInTurn
  <2>8. verdict'.answer <= Len(outputs') /\ verdict' \in Verdict
    BY <1>1, <1>4, <2>3, OneAsked
  <2> QED
    BY <1>1, <1>4, <2>5, <2>6, <2>7, <2>8, OneAsked, OrchestrationBecomes
<1> QED
  BY <1>7, <1>8

LEMMA CycleStep == OrchestrationIInv /\ Orchestrations!Cycle => OrchestrationIInv'
<1> SUFFICES ASSUME OrchestrationIInv, Orchestrations!Cycle PROVE OrchestrationIInv'
  OBVIOUS
<1>1. /\ pattern = "blackboard" /\ UNCHANGED <<pattern, subtasks, bids>> /\ agentsRun' = agentsRun + 1
      /\ verdict = Orchestrations!Running
      /\ speaker' = IF speaker < AgentCount THEN speaker + 1 ELSE 1
      /\ stage' = IF speaker < AgentCount THEN stage ELSE stage + 1
  BY DEF Orchestrations!Cycle, Orchestrations!Does
<1>2. /\ stage <= MaxCycles /\ agentsRun + 1 = Times(stage - 1, AgentCount) + speaker
      /\ stage \in Nat \ {0} /\ speaker \in 1..AgentCount
  BY <1>1, OneAsked DEF PacedAs
<1>3. outputs' \in Seq(Output) /\ Len(outputs') \in Nat
  <2>1. CASE Orchestrations!Emit(speaker, "ok")
    BY <1>1, <2>1, OneAsked, Emitted, CountsAreNat DEF Output, Orchestrations!Answers, Orchestrations!Emit
  <2>2. CASE UNCHANGED outputs
    BY <1>1, <2>2, OneAsked
  <2> QED
    BY <2>1, <2>2 DEF Orchestrations!Cycle
<1>4. \/ verdict' \in Over(0)
      \/ UNCHANGED verdict /\ ~(speaker = AgentCount /\ stage = MaxCycles)
  <2>1. \/ Orchestrations!Ends(TRUE, 0)
        \/ stage < MaxCycles /\ UNCHANGED verdict
        \/ UNCHANGED verdict /\ ~(speaker = AgentCount /\ stage = MaxCycles)
    BY DEF Orchestrations!Cycle
  <2> QED
    BY <1>2, <2>1, CountsAreNat DEF Orchestrations!Ends, Over
<1>5. /\ verdict' \in Verdict /\ verdict'.answer <= Len(outputs')
      /\ verdict' = Orchestrations!Running => ~(speaker = AgentCount /\ stage = MaxCycles)
  BY <1>1, <1>3, <1>4, Ended, OneAsked
<1>6. /\ Times(stage, AgentCount) = Times(stage - 1, AgentCount) + AgentCount
      /\ Times(stage, AgentCount) <= Times(MaxCycles, AgentCount)
      /\ Times(MaxCycles, AgentCount) \in Nat /\ Times(stage, AgentCount) \in Nat /\ Times(stage - 1, AgentCount) \in Nat
  <2>1. stage - 1 \in Nat /\ (stage - 1) + 1 = stage
    BY <1>2
  <2> QED
    BY <1>2, <2>1, TimesGrow, CountsAreNat
<1>7. verdict' = Orchestrations!Running => PacedAs'
  <2> SUFFICES ASSUME verdict' = Orchestrations!Running PROVE PacedAs'
    OBVIOUS
  <2>1. CASE speaker < AgentCount
    <3>1. stage' = stage /\ speaker' = speaker + 1 /\ agentsRun' + 1 = Times(stage - 1, AgentCount) + speaker'
      BY <1>1, <1>2, <1>6, <2>1, OneAsked, CountsAreNat
    <3> QED
      BY <1>1, <1>2, <3>1 DEF PacedAs
  <2>2. CASE ~(speaker < AgentCount)
    <3>1. speaker = AgentCount /\ stage # MaxCycles
      BY <1>2, <1>5, <2>2, CountsAreNat
    <3>2. stage' = stage + 1 /\ speaker' = 1 /\ stage' <= MaxCycles /\ stage' - 1 = stage
      BY <1>1, <1>2, <2>2, <3>1, CountsAreNat
    <3>3. agentsRun' + 1 = Times(stage' - 1, AgentCount) + speaker'
      BY <1>1, <1>2, <1>6, <3>1, <3>2, OneAsked, CountsAreNat
    <3> QED
      BY <1>1, <3>2, <3>3 DEF PacedAs
  <2> QED
    BY <2>1, <2>2
<1>8. /\ stage' \in Nat \ {0} /\ agentsRun' \in Nat /\ speaker' \in 1..AgentCount
  BY <1>1, <1>2, OneAsked, CountsAreNat
<1>9. agentsRun' <= Orchestrations!Allowed[pattern]
  <2>1. Orchestrations!Allowed[pattern] = Times(MaxCycles, AgentCount)
    BY <1>1, OneAsked, AllowedRuns
  <2> QED
    BY <1>1, <1>2, <1>6, <2>1, OneAsked, CountsAreNat
<1> QED
  BY <1>1, <1>3, <1>5, <1>7, <1>8, <1>9, OneAsked, OrchestrationBecomes

LEMMA OrchestrationsSteps ==
  OrchestrationIInv /\ [Orchestrations!Next]_(Orchestrations!vars) => OrchestrationIInv'
<1>1. OrchestrationIInv /\ UNCHANGED Orchestrations!vars => OrchestrationIInv'
  <2> SUFFICES ASSUME OrchestrationIInv, UNCHANGED Orchestrations!vars PROVE OrchestrationIInv'
    OBVIOUS
  <2>1. UNCHANGED <<pattern, subtasks, stage, speaker, bids, outputs, agentsRun, verdict>>
    BY DEF Orchestrations!vars
  <2>2. OrchestrationTyped'
    BY <2>1 DEF OrchestrationIInv, OrchestrationTyped
  <2>3. Paced'
    BY <2>1 DEF OrchestrationIInv, Paced, PacedAs, Orchestrations!Running
  <2>4. Orchestrations!RunsBounded'
    BY <2>1 DEF OrchestrationIInv, Orchestrations!RunsBounded, Orchestrations!Allowed
  <2>5. Orchestrations!WinnersSpread'
    BY <2>1 DEF OrchestrationIInv, Orchestrations!WinnersSpread, Orchestrations!BidsFor
  <2>6. Orchestrations!EscalatesInTurn'
    BY <2>1 DEF OrchestrationIInv, Orchestrations!EscalatesInTurn
  <2> QED
    BY <2>2, <2>3, <2>4, <2>5, <2>6 DEF OrchestrationIInv
<1> QED
  BY <1>1, SequentialStep, HierarchicalStep, CollectBidsStep, AuctionStep, AuctionEndsStep, DebateStep, VoteStep,
     EscalationStep, SwarmStep, CycleStep, SupervisorStep, RouterStep DEF Orchestrations!Next

LEMMA OrchestrationsHold == OrchestrationIInv => Orchestrations!OrchestrationInv
<1> SUFFICES ASSUME OrchestrationIInv PROVE Orchestrations!TypeOK
  BY DEF OrchestrationIInv, Orchestrations!OrchestrationInv
<1>1. \A i \in DOMAIN outputs : outputs[i] \in Output
  BY ElementOfSeq DEF OrchestrationIInv, OrchestrationTyped
<1> QED
  BY <1>1 DEF OrchestrationIInv, OrchestrationTyped, Orchestrations!TypeOK, Output, Verdict

-----------------------------------------------------------------------------
(* A step of the limits is a step of each component or leaves it alone.    *)
LEMMA OneMoves ==
  [PartsNext]_partsVars => /\ [Reclaimer!Next]_(Reclaimer!vars)
                           /\ [Runs!Next]_(Runs!vars)
                           /\ [Sessions!Next]_(Sessions!vars)
                           /\ [Access!Next]_(Access!vars)
                           /\ [Records!Next]_(Records!vars)
                           /\ [Orchestrations!Next]_(Orchestrations!vars)
BY DEF PartsNext, Others, partsVars, reclaimerVars, runsVars, sessionsVars, accessVars,
   recordsVars, orchestrationVars, Records!vars, Orchestrations!vars, Records!auditVars, Records!transactionVars, Records!snapshotVars,
   Reclaimer!vars, Runs!vars, Sessions!vars, Access!vars, Access!keyVars, Access!approvalVars

(* No registration of a resource is cleaned up twice, whatever the rounds  *)
(* of the reclaimer and its callers do in between.                         *)
THEOREM ReclaimerSafe == PartsSpec => []ReclaimerInv
<1>1. PartsInit => ReclaimerIInv
  BY ReclaimerStarts DEF PartsInit
<1>2. ReclaimerIInv /\ [PartsNext]_partsVars => ReclaimerIInv'
  BY ReclaimerSteps, OneMoves
<1>3. ReclaimerIInv => ReclaimerInv
  BY DEF ReclaimerIInv
<1> QED
  BY <1>1, <1>2, <1>3, PTL DEF PartsSpec

(* A run of an agent keeps to its pattern's budget of calls, and a ReWOO   *)
(* plan that is solved ran exactly the steps that can be run.  However     *)
(* agents are orchestrated, they are asked no more often than the kind of  *)
(* the orchestration allows, an auction gives no agent a second subtask    *)
(* that a bidder without one could have, and an escalation asks its tiers  *)
(* in turn.                                                                *)
THEOREM RunsSafe == PartsSpec => []RunsInv
<1>1. PartsInit => RunsIInv
  BY RunsStart DEF PartsInit
<1>2. RunsIInv /\ [PartsNext]_partsVars => RunsIInv'
  BY RunsSteps, OneMoves
<1>3. PartsInit => OrchestrationIInv
  BY OrchestrationsStart DEF PartsInit
<1>4. OrchestrationIInv /\ [PartsNext]_partsVars => OrchestrationIInv'
  BY OrchestrationsSteps, OneMoves
<1>5. RunsIInv /\ OrchestrationIInv => RunsInv
  BY RunsHold, OrchestrationsHold DEF RunsInv
<1> QED
  BY <1>1, <1>2, <1>3, <1>4, <1>5, PTL DEF PartsSpec

(* The sessions' manager never counts more connections than are open, and  *)
(* a session that connect() would hand out has a client.                   *)
THEOREM SessionsSafe == PartsSpec => []SessionsInv
<1>1. PartsInit => SessionsIInv
  BY SessionsStart DEF PartsInit
<1>2. SessionsIInv /\ [PartsNext]_partsVars => SessionsIInv'
  BY SessionsSteps, OneMoves
<1>3. SessionsIInv => SessionsInv
  BY SessionsHold DEF SessionsInv
<1> QED
  BY <1>1, <1>2, <1>3, PTL DEF PartsSpec

(* A role with more permissions allows no less, a policy that denies always *)
(* prevails and the reason given is the most important one, a key that was  *)
(* revoked is refused when its copy has run out, and an approval is decided *)
(* once.                                                                    *)
THEOREM AccessSafe == PartsSpec => []AccessInv
<1>1. PartsInit => AccessIInv
  BY AccessStarts DEF PartsInit
<1>2. AccessIInv /\ [PartsNext]_partsVars => AccessIInv'
  BY AccessSteps, OneMoves
<1> QED
  BY <1>1, <1>2, AccessHold, PTL DEF PartsSpec

(* What was changed in the audit log shows whatever is logged later, an    *)
(* abort undoes in reverse and once, and the snapshots have no gap.        *)
THEOREM RecordsSafe == PartsSpec => []RecordsInv
<1>1. PartsInit => RecordsIInv
  BY RecordsStart DEF PartsInit
<1>2. RecordsIInv /\ [PartsNext]_partsVars => RecordsIInv'
  BY RecordsSteps, OneMoves
<1> QED
  BY <1>1, <1>2, RecordsHold, PTL DEF PartsSpec

=============================================================================
