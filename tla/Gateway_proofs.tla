--------------------------- MODULE Gateway_proofs ---------------------------
(***************************************************************************)
(* Proofs about Gateway, for any number of requests, models, providers and *)
(* retries, and any chains.                                                *)
(***************************************************************************)
EXTENDS Gateway, FiniteSetTheorems, TLAPS

(* A model of the plan of m that is of no more use: it failed, or nobody   *)
(* serves it.                                                              *)
GivenUp(fs, m, j) == Plan(m)[j] \in fs \/ ProviderOf[Plan(m)[j]] = None

(* How many calls n models of a plan take at most. *)
CallsFor(n) == (MaxRetries + 1) * n

InFlightPc == {"calling", "backoff"}

InFlightAt(r, p) == pc[r] \in InFlightPc /\ ProviderAt(r) = p

(* What holds of one request: its types; that the models before the one it *)
(* is at are given up; that its calls are at most those of the models up   *)
(* to there; and what it got.                                              *)
RequestTyped(r) ==
  /\ pc[r] \in {"idle", "calling", "backoff", "over"}
  /\ asked[r] \in Models \union {None} /\ at[r] \in Nat /\ attempt[r] \in 0..MaxRetries
  /\ failed[r] \in SUBSET Models /\ answer[r] \in Models \union {None}
  /\ status[r] \in Statuses \union {None} /\ attempts[r] \in Nat
  /\ pc[r] \in InFlightPc =>
       /\ asked[r] \in Models /\ at[r] \in 1..Len(Plan(asked[r]))
       /\ ProviderAt(r) \in Providers

Waiting(r) ==
  /\ pc[r] = "idle" => asked[r] = None /\ attempts[r] = 0
  /\ pc[r] # "over" => status[r] = None /\ answer[r] = None

Passed(r) ==
  pc[r] \in InFlightPc => \A j \in 1..(at[r] - 1) : GivenUp(failed[r], asked[r], j)

Counted(r) ==
  /\ pc[r] = "calling" => attempts[r] <= CallsFor(at[r] - 1) + attempt[r] + 1
  /\ pc[r] = "backoff" => attempts[r] <= CallsFor(at[r] - 1) + attempt[r]
  /\ asked[r] # None => attempts[r] <= CallsFor(Len(Plan(asked[r])))

Got(r) ==
  /\ status[r] = "fallback_exhausted" =>
       \A j \in DOMAIN Plan(asked[r]) : GivenUp(failed[r], asked[r], j)
  /\ answer[r] # None => \E j \in DOMAIN Plan(asked[r]) : Plan(asked[r])[j] = answer[r]

RequestSafe(r) == RequestTyped(r) /\ Waiting(r) /\ Passed(r) /\ Counted(r) /\ Got(r)

OfRequests(f) == f = [r \in Requests |-> f[r]]

Functions ==
  /\ OfRequests(pc) /\ OfRequests(asked) /\ OfRequests(at) /\ OfRequests(attempt)
  /\ OfRequests(failed) /\ OfRequests(answer) /\ OfRequests(status) /\ OfRequests(attempts)

Shared ==
  /\ breakers \in [Providers -> Breaker]
  /\ admitted \in [Providers -> Nat] /\ reported \in [Providers -> Nat]
  /\ dropped \in [Providers -> Nat]
  /\ DOMAIN cache \subseteq Models /\ CacheCoherent
  /\ OneReportPerCall

(* The inductive invariant. *)
IInv == Functions /\ Shared /\ \A r \in Requests : RequestSafe(r)

-----------------------------------------------------------------------------
(* A set of naturals has a least element: the relation < is well-founded.  *)
LEMMA LeastOf ==
  ASSUME NEW S \in SUBSET Nat, S # {}
  PROVE  Min(S) \in S /\ \A y \in S : Min(S) <= y
<1>1. PICK x \in S : \A y \in S : ~(<<y, x>> \in OpToRel(<, Nat))
  BY NatLessThanWellFounded, WFMin
<1>2. \A y \in S : ~(y < x)
  BY <1>1, Zenon DEF OpToRel
<1>3. \A y \in S : x <= y
  BY <1>2
<1> QED
  BY <1>3 DEF Min

LEMMA CallsGrow ==
  /\ \A n \in Nat : CallsFor(n) \in Nat /\ CallsFor(n + 1) = CallsFor(n) + MaxRetries + 1
  /\ \A m, n \in Nat : m <= n => CallsFor(m) <= CallsFor(n)
<1>1. MaxRetries \in Nat
  BY GatewayAssumption
<1>2. \A n \in Nat : CallsFor(n) \in Nat /\ CallsFor(n + 1) = CallsFor(n) + MaxRetries + 1
  BY <1>1 DEF CallsFor
<1>3. ASSUME NEW m \in Nat, NEW n \in Nat, m <= n PROVE CallsFor(m) <= CallsFor(n)
  <2>1. PICK d \in Nat : n = m + d
    BY <1>3
  <2>2. CallsFor(n) = CallsFor(m) + (MaxRetries + 1) * d /\ (MaxRetries + 1) * d \in Nat
    BY <1>1, <2>1 DEF CallsFor
  <2> QED
    BY <1>2, <2>2
<1> QED
  BY <1>2, <1>3

(* The plan begins with the model that was asked for. *)
LEMMA PlanType ==
  ASSUME NEW m \in Models
  PROVE  /\ Plan(m) \in Seq(Models) /\ Len(Plan(m)) \in Nat \ {0} /\ Plan(m)[1] = m
         /\ DOMAIN Plan(m) = 1..Len(Plan(m))
         /\ \A j \in 1..Len(Plan(m)) : /\ Plan(m)[j] \in Models
                                       /\ ProviderOf[Plan(m)[j]] \in Providers \union {None}
<1>1. Chain[m] \in Seq(Models) /\ <<m>> \in Seq(Models)
  BY GatewayAssumption
<1>2. Plan(m) \in Seq(Models) /\ Len(Plan(m)) \in Nat \ {0} /\ Plan(m)[1] = m
  BY <1>1 DEF Plan
<1> QED
  BY <1>2, GatewayAssumption

(* TryFrom calls the first provider that takes a call and gives up the     *)
(* models before, or gives up all that are left.                           *)
Called(r, m, i, bs, fs, k, F) ==
  /\ Change(pc, r, "calling") /\ Change(at, r, k) /\ Change(attempt, r, 0)
  /\ Change(attempts, r, attempts[r] + 1)
  /\ breakers' = [bs EXCEPT ![ProviderOf[Plan(m)[k]]] = BeforeCalled(@)]
  /\ admitted' = [admitted EXCEPT ![ProviderOf[Plan(m)[k]]] = @ + 1]
  /\ Change(failed, r, F) /\ fs \subseteq F
  /\ \A j \in i..(k - 1) : GivenUp(F, m, j)
  /\ UNCHANGED <<answer, status>>

Exhausted(r, m, i, bs, fs, F) ==
  /\ End(r, None, "fallback_exhausted")
  /\ breakers' = bs
  /\ Change(failed, r, F) /\ fs \subseteq F
  /\ \A j \in i..Len(Plan(m)) : GivenUp(F, m, j)
  /\ UNCHANGED <<at, attempt, attempts, admitted>>

LEMMA TryFromCases ==
  ASSUME NEW r, NEW m \in Models, NEW i \in Nat \ {0}, NEW bs,
         NEW fs \in SUBSET Models, TryFrom(r, m, i, bs, fs)
  PROVE  \E F \in SUBSET Models :
           \/ \E k \in i..Len(Plan(m)) : /\ ProviderOf[Plan(m)[k]] \in Providers
                                         /\ Called(r, m, i, bs, fs, k, F)
           \/ Exhausted(r, m, i, bs, fs, F)
<1> DEFINE n == Len(Plan(m))
           open == Admitting(m, i, bs)
           Turned(j) == {Plan(m)[l] : l \in {l \in i..j : /\ ProviderOf[Plan(m)[l]] # None
                                              /\ ~Admits(bs[ProviderOf[Plan(m)[l]]])}}
<1>0. n \in Nat \ {0} /\ \A j \in 1..n : /\ Plan(m)[j] \in Models
                                         /\ ProviderOf[Plan(m)[j]] \in Providers \union {None}
  BY PlanType
<1>1. open \subseteq i..n /\ open \subseteq Nat
  BY <1>0 DEF Admitting
<1>2. \A j \in i..n : j \notin open => GivenUp(fs \union Turned(j), m, j)
  BY DEF Admitting, GivenUp
<1>3. \A j, l \in i..n : j <= l => Turned(j) \subseteq Turned(l) /\ Turned(l) \subseteq Models
  BY <1>0
<1>4. ASSUME NEW l \in i..n, \A j \in i..l : j \notin open
      PROVE  \A j \in i..l : GivenUp(fs \union Turned(l), m, j)
  <2> SUFFICES ASSUME NEW j \in i..l PROVE GivenUp(fs \union Turned(l), m, j)
    OBVIOUS
  <2>1. j \in i..n /\ j <= l /\ j \notin open
    BY <1>0, <1>4
  <2>2. GivenUp(fs \union Turned(j), m, j) /\ Turned(j) \subseteq Turned(l)
    BY <1>2, <1>3, <2>1
  <2> QED
    BY <2>2 DEF GivenUp
<1>5. CASE open # {}
  <2> DEFINE k == Min(open)
  <2>1. k \in open /\ \A y \in open : k <= y
    BY <1>1, <1>5, LeastOf
  <2>2. k \in i..n /\ ProviderOf[Plan(m)[k]] \in Providers
    <3>1. k \in i..n /\ k \in 1..n
      <4> HIDE DEF k
      <4> QED
        BY <1>0, <1>1, <2>1
    <3>2. ProviderOf[Plan(m)[k]] # None
      <4> HIDE DEF k
      <4> QED
        BY <2>1 DEF Admitting
    <3> HIDE DEF k, n
    <3> QED
      BY <1>0, <3>1, <3>2
  <2>3. \A j \in i..(k - 1) : GivenUp(fs \union Turned(k - 1), m, j)
    <3>1. CASE k = i
      BY <3>1, <2>2
    <3>2. CASE k # i
      <4>1. k - 1 \in i..n /\ \A j \in i..(k - 1) : j \notin open
        BY <1>0, <2>1, <2>2, <3>2
      <4> QED
        BY <1>4, <4>1
    <3> QED
      BY <3>1, <3>2
  <2>4. fs \union Turned(k - 1) \in SUBSET Models
    BY <1>0, <2>2
  <2>5. Called(r, m, i, bs, fs, k, fs \union Turned(k - 1))
    <3> HIDE DEF k
    <3> QED
      BY <1>5, <2>3 DEF TryFrom, Called, k
  <2> HIDE DEF k, Turned, n
  <2> QED
    BY <2>2, <2>4, <2>5 DEF n
<1>6. CASE open = {}
  <2>1. \A j \in i..n : GivenUp(fs \union Turned(n), m, j)
    <3>1. CASE i <= n
      <4>1. n \in i..n
        BY <3>1, <1>0
      <4> QED
        BY <1>4, <1>6, <4>1
    <3>2. CASE ~(i <= n)
      BY <1>0, <3>2
    <3> QED
      BY <3>1, <3>2
  <2>2. fs \union Turned(n) \in SUBSET Models
    BY <1>0
  <2>3. Exhausted(r, m, i, bs, fs, fs \union Turned(n))
    BY <1>6, <2>1 DEF TryFrom, Exhausted
  <2> QED
    BY <2>2, <2>3
<1> QED
  BY <1>5, <1>6

-----------------------------------------------------------------------------
LEMMA IInvSuffices == IInv => GatewayInv
<1> SUFFICES ASSUME IInv PROVE GatewayInv
  OBVIOUS
<1>1. TypeOK
  <2>1. /\ pc \in [Requests -> {"idle", "calling", "backoff", "over"}]
        /\ asked \in [Requests -> Models \union {None}]
        /\ at \in [Requests -> Nat] /\ attempt \in [Requests -> 0..MaxRetries]
        /\ failed \in [Requests -> SUBSET Models]
        /\ answer \in [Requests -> Models \union {None}]
        /\ status \in [Requests -> Statuses \union {None}]
        /\ attempts \in [Requests -> Nat]
    BY DEF IInv, Functions, OfRequests, RequestSafe, RequestTyped
  <2>2. \A m \in DOMAIN cache : cache[m] \in Models
    BY DEF IInv, Shared, CacheCoherent
  <2>3. \A r \in Requests : pc[r] \in {"calling", "backoff"} =>
          /\ asked[r] \in Models /\ at[r] \in 1..Len(Plan(asked[r]))
          /\ ProviderAt(r) \in Providers
    BY DEF IInv, RequestSafe, RequestTyped, InFlightPc
  <2> QED
    BY <2>1, <2>2, <2>3 DEF TypeOK, IInv, Shared
<1>2. CacheCoherent /\ OneReportPerCall
  BY DEF IInv, Shared
<1>3. AttemptsBounded
  BY DEF AttemptsBounded, IInv, RequestSafe, Counted, CallsFor
<1>4. Outcomes
  BY DEF Outcomes, IInv, RequestSafe, Got, GivenUp
<1> QED
  BY <1>1, <1>2, <1>3, <1>4 DEF GatewayInv

LEMMA NewBreakerType == NewBreaker \in Breaker
<1>1. LongestWait \in Nat
  BY WaitTypes
<1>2. <<>> \in Seq(Nat)
  OBVIOUS
<1> QED
  BY <1>1, <1>2, BreakerAssumption DEF NewBreaker, Breaker, BreakerStates

LEMMA StartsSafe == Init => IInv
<1> SUFFICES ASSUME Init PROVE IInv
  OBVIOUS
<1>1. Functions
  BY DEF Init, Functions, OfRequests
<1>2. OneReportPerCall
  <2>1. \A p \in Providers : InFlight(p) = {}
    BY DEF Init, InFlight
  <2>2. \A p \in Providers : Cardinality(InFlight(p)) = 0
    BY <2>1, FS_EmptySet
  <2>3. \A p \in Providers : admitted[p] = 0 /\ reported[p] = 0 /\ dropped[p] = 0
    BY DEF Init
  <2> QED
    BY <2>2, <2>3 DEF OneReportPerCall
<1>3. Shared
  BY <1>2, NewBreakerType DEF Init, Shared, CacheCoherent
<1>4. ASSUME NEW r \in Requests PROVE RequestSafe(r)
  <2>1. MaxRetries \in Nat /\ None \notin Statuses
    BY GatewayAssumption
  <2>2. RequestTyped(r)
    BY <2>1 DEF Init, RequestTyped, InFlightPc
  <2>3. Waiting(r) /\ Passed(r) /\ Counted(r) /\ Got(r)
    BY <2>1 DEF Init, Waiting, Passed, Counted, Got, InFlightPc, Statuses
  <2> QED
    BY <2>2, <2>3 DEF RequestSafe
<1> QED
  BY <1>1, <1>3, <1>4 DEF IInv

(* One request moves. *)
Moves(r) ==
  /\ Functions'
  /\ \A q \in Requests \ {r} :
       /\ pc'[q] = pc[q] /\ asked'[q] = asked[q] /\ at'[q] = at[q]
       /\ attempt'[q] = attempt[q] /\ failed'[q] = failed[q] /\ answer'[q] = answer[q]
       /\ status'[q] = status[q] /\ attempts'[q] = attempts[q]

LEMMA OthersKeep ==
  ASSUME IInv, NEW r \in Requests, Moves(r), RequestSafe(r)', Shared'
  PROVE  IInv'
<1>1. ASSUME NEW q \in Requests, q # r PROVE RequestSafe(q)'
  <2>1. RequestSafe(q)
    BY DEF IInv
  <2>2. /\ pc'[q] = pc[q] /\ asked'[q] = asked[q] /\ at'[q] = at[q]
        /\ attempt'[q] = attempt[q] /\ failed'[q] = failed[q] /\ answer'[q] = answer[q]
        /\ status'[q] = status[q] /\ attempts'[q] = attempts[q]
    BY <1>1 DEF Moves
  <2>3. RequestTyped(q)'
    BY <2>1, <2>2 DEF RequestSafe, RequestTyped, ProviderAt, Current
  <2>4. Waiting(q)' /\ Passed(q)' /\ Counted(q)' /\ Got(q)'
    BY <2>1, <2>2 DEF RequestSafe, Waiting, Passed, Counted, Got
  <2> QED
    BY <2>3, <2>4 DEF RequestSafe
<1> QED
  BY <1>1 DEF IInv, Moves

(* The calls in flight at a provider change by the request that moves.     *)
LEMMA FlightsCounted ==
  ASSUME IInv, NEW r \in Requests, Moves(r), NEW p \in Providers
  PROVE  LET n == Cardinality(InFlight(p))
             m == Cardinality(InFlight(p)')
         IN  /\ n \in Nat /\ m \in Nat
             /\ (InFlightAt(r, p) <=> InFlightAt(r, p)') => m = n
             /\ InFlightAt(r, p) /\ ~InFlightAt(r, p)' => m + 1 = n
             /\ ~InFlightAt(r, p) /\ InFlightAt(r, p)' => m = n + 1
<1>1. InFlight(p) = {q \in Requests : InFlightAt(q, p)}
  BY DEF InFlight, InFlightAt, InFlightPc
<1>2. InFlight(p)' = {q \in Requests : InFlightAt(q, p)'}
  BY DEF InFlight, InFlightAt, InFlightPc
<1>3. \A q \in Requests \ {r} : InFlightAt(q, p)' <=> InFlightAt(q, p)
  BY DEF Moves, InFlightAt, ProviderAt, Current
<1>4. IsFiniteSet(InFlight(p))
  BY <1>1, GatewayAssumption, FS_Subset
<1>5. CASE InFlightAt(r, p)'
  <2>1. InFlight(p)' = InFlight(p) \union {r}
    BY <1>1, <1>2, <1>3, <1>5
  <2> QED
    BY <1>1, <1>4, <1>5, <2>1, FS_AddElement, FS_CardinalityType
<1>6. CASE ~InFlightAt(r, p)'
  <2>1. InFlight(p)' = InFlight(p) \ {r}
    BY <1>1, <1>2, <1>3, <1>6
  <2>2. Cardinality(InFlight(p) \ {r}) =
          IF r \in InFlight(p) THEN Cardinality(InFlight(p)) - 1 ELSE Cardinality(InFlight(p))
    BY <1>4, FS_RemoveElement
  <2>3. Cardinality(InFlight(p)) \in Nat /\ Cardinality(InFlight(p)') \in Nat
    BY <1>4, <2>1, FS_RemoveElement, FS_CardinalityType
  <2> QED
    BY <1>1, <1>6, <2>1, <2>2, <2>3
<1> QED
  BY <1>5, <1>6

-----------------------------------------------------------------------------
(* The steps of a request, and the others.                                 *)

LEMMA RefuseSafe ==
  ASSUME IInv, NEW r \in Requests,
         NEW why \in {"auth_error", "rate_limited", "error"}, Refuse(r, why)
  PROVE  IInv'
<1>1. RequestSafe(r) /\ Functions /\ Shared
  BY DEF IInv
<1>2. /\ pc[r] = "idle" /\ asked[r] = None
      /\ pc'[r] = "over" /\ answer'[r] = None /\ status'[r] = why
      /\ UNCHANGED <<asked, at, attempt, failed, breakers, cache, admitted, reported,
                     dropped, attempts>>
      /\ Moves(r)
  BY <1>1 DEF Refuse, End, Change, Moves, Functions, OfRequests, RequestSafe, Waiting
<1>3. RequestSafe(r)'
  <2>1. RequestTyped(r)'
    BY <1>1, <1>2 DEF RequestSafe, RequestTyped, Statuses, InFlightPc
  <2>2. Waiting(r)' /\ Passed(r)' /\ Counted(r)' /\ Got(r)'
    BY <1>1, <1>2, GatewayAssumption DEF Waiting, Passed, Counted, Got, InFlightPc
  <2> QED
    BY <2>1, <2>2 DEF RequestSafe
<1>4. OneReportPerCall'
  <2>1. \A p \in Providers : ~InFlightAt(r, p) /\ ~InFlightAt(r, p)'
    BY <1>2 DEF InFlightAt, InFlightPc
  <2> QED
    BY <1>1, <1>2, <2>1, FlightsCounted DEF OneReportPerCall, Shared
<1>5. Shared'
  BY <1>1, <1>2, <1>4 DEF Shared, CacheCoherent
<1> QED
  BY <1>2, <1>3, <1>5, OthersKeep

LEMMA CacheHitSafe ==
  ASSUME IInv, NEW r \in Requests, NEW m \in Models, CacheHit(r, m)
  PROVE  IInv'
<1>1. RequestSafe(r) /\ Functions /\ Shared
  BY DEF IInv
<1>2. /\ pc[r] = "idle" /\ attempts[r] = 0
      /\ pc'[r] = "over" /\ asked'[r] = m /\ answer'[r] = m /\ status'[r] = "success"
      /\ UNCHANGED <<at, attempt, failed, breakers, cache, admitted, reported, dropped,
                     attempts>>
      /\ Moves(r)
  BY <1>1 DEF CacheHit, End, Change, Moves, Functions, OfRequests, RequestSafe, Waiting,
              Shared, CacheCoherent
<1>3. RequestSafe(r)'
  <2>1. RequestTyped(r)'
    BY <1>1, <1>2 DEF RequestSafe, RequestTyped, Statuses, InFlightPc
  <2>2. Waiting(r)' /\ Passed(r)'
    BY <1>2 DEF Waiting, Passed, InFlightPc
  <2>3. Counted(r)'
    <3>1. CallsFor(Len(Plan(m))) \in Nat
      BY PlanType, CallsGrow
    <3> QED
      BY <1>2, <3>1 DEF Counted
  <2>4. Got(r)'
    <3>1. 1 \in DOMAIN Plan(m) /\ Plan(m)[1] = m
      <4>1. Len(Plan(m)) \in Nat \ {0} /\ DOMAIN Plan(m) = 1..Len(Plan(m)) /\ Plan(m)[1] = m
        BY PlanType
      <4>2. \A n \in Nat \ {0} : 1 \in 1..n
        OBVIOUS
      <4> QED
        BY <4>1, <4>2
    <3> QED
      BY <1>2, <3>1 DEF Got
  <2> QED
    BY <2>1, <2>2, <2>3, <2>4 DEF RequestSafe
<1>4. OneReportPerCall'
  <2>1. \A p \in Providers : ~InFlightAt(r, p) /\ ~InFlightAt(r, p)'
    BY <1>2 DEF InFlightAt, InFlightPc
  <2> QED
    BY <1>1, <1>2, <2>1, FlightsCounted DEF OneReportPerCall, Shared
<1>5. Shared'
  BY <1>1, <1>2, <1>4 DEF Shared, CacheCoherent
<1> QED
  BY <1>2, <1>3, <1>5, OthersKeep

(* A provider is called for the k-th model of the plan, those before it    *)
(* being given up.                                                         *)
LEMMA CalledSafe ==
  ASSUME IInv, NEW r \in Requests, NEW m \in Models, NEW i \in Nat \ {0}, NEW bs,
         NEW fs \in SUBSET Models, NEW F \in SUBSET Models,
         NEW k \in i..Len(Plan(m)), ProviderOf[Plan(m)[k]] \in Providers,
         Called(r, m, i, bs, fs, k, F),
         asked' = [asked EXCEPT ![r] = m], pc[r] # "over",
         \A j \in 1..(i - 1) : GivenUp(fs, m, j),
         attempts[r] <= CallsFor(i - 1)
  PROVE  Moves(r) /\ RequestSafe(r)'
<1> DEFINE n == Len(Plan(m))
<1>1. RequestSafe(r) /\ Functions
  BY DEF IInv
<1>2. /\ pc'[r] = "calling" /\ asked'[r] = m /\ at'[r] = k /\ attempt'[r] = 0
      /\ attempts'[r] = attempts[r] + 1 /\ failed'[r] = F
      /\ UNCHANGED <<answer, status>> /\ Moves(r)
  BY <1>1 DEF Called, Change, Moves, Functions, OfRequests
<1>3. n \in Nat \ {0} /\ MaxRetries \in Nat /\ k \in 1..n /\ attempts[r] \in Nat
  BY <1>1, PlanType, GatewayAssumption DEF RequestSafe, RequestTyped
<1>4. RequestTyped(r)'
  <2>1. ProviderAt(r)' = ProviderOf[Plan(m)[k]]
    BY <1>2 DEF ProviderAt, Current
  <2> QED
    BY <1>1, <1>2, <1>3, <2>1 DEF RequestSafe, RequestTyped
<1>5. Waiting(r)' /\ Got(r)'
  BY <1>1, <1>2, GatewayAssumption DEF RequestSafe, Waiting, Got, Statuses
<1>6. Passed(r)'
  <2>1. \A j \in 1..(k - 1) : GivenUp(F, m, j)
    BY <1>3 DEF Called, GivenUp
  <2> QED
    BY <1>2, <2>1 DEF Passed
<1>7. Counted(r)'
  <2>1. /\ CallsFor(i - 1) <= CallsFor(k - 1) /\ CallsFor(k) <= CallsFor(n)
        /\ CallsFor(k) = CallsFor(k - 1) + MaxRetries + 1
        /\ {CallsFor(i - 1), CallsFor(k - 1), CallsFor(k), CallsFor(n)} \subseteq Nat
    <3>1. i - 1 \in Nat /\ k - 1 \in Nat /\ k \in Nat /\ n \in Nat /\ k = (k - 1) + 1
          /\ i - 1 <= k - 1 /\ k <= n
      BY <1>3
    <3> HIDE DEF n
    <3> QED
      BY <3>1, CallsGrow
  <2>2. attempts'[r] <= CallsFor(k - 1) + 0 + 1 /\ attempts'[r] <= CallsFor(n)
    <3> HIDE DEF n
    <3> QED
      BY <1>2, <1>3, <2>1
  <2> QED
    BY <1>2, <2>2 DEF Counted
<1> QED
  BY <1>2, <1>4, <1>5, <1>6, <1>7 DEF RequestSafe

(* Nothing is left to try. *)
LEMMA ExhaustedSafe ==
  ASSUME IInv, NEW r \in Requests, NEW m \in Models, NEW i \in Nat \ {0}, NEW bs,
         NEW fs \in SUBSET Models, NEW F \in SUBSET Models,
         Exhausted(r, m, i, bs, fs, F),
         asked' = [asked EXCEPT ![r] = m], i <= Len(Plan(m)) + 1,
         \A j \in 1..(i - 1) : GivenUp(fs, m, j),
         attempts[r] <= CallsFor(i - 1)
  PROVE  Moves(r) /\ RequestSafe(r)'
<1> DEFINE n == Len(Plan(m))
<1>1. RequestSafe(r) /\ Functions
  BY DEF IInv
<1>2. /\ pc'[r] = "over" /\ answer'[r] = None /\ status'[r] = "fallback_exhausted"
      /\ asked'[r] = m /\ failed'[r] = F
      /\ UNCHANGED <<at, attempt, attempts>> /\ Moves(r)
  BY <1>1 DEF Exhausted, End, Change, Moves, Functions, OfRequests
<1>3. n \in Nat \ {0} /\ DOMAIN Plan(m) = 1..n /\ attempts[r] \in Nat
  BY <1>1, PlanType DEF RequestSafe, RequestTyped
<1>4. RequestTyped(r)'
  BY <1>1, <1>2 DEF RequestSafe, RequestTyped, Statuses, InFlightPc
<1>5. Waiting(r)' /\ Passed(r)'
  BY <1>2 DEF Waiting, Passed, InFlightPc
<1>6. Counted(r)'
  <2>1. i - 1 \in Nat /\ n \in Nat /\ i - 1 <= n
    BY <1>3
  <2>2. CallsFor(i - 1) <= CallsFor(n) /\ CallsFor(i - 1) \in Nat /\ CallsFor(n) \in Nat
    <3> HIDE DEF n
    <3> QED
      BY <2>1, CallsGrow
  <2> QED
    BY <1>2, <1>3, <2>2 DEF Counted
<1>7. Got(r)'
  <2>1. \A j \in 1..n : GivenUp(F, m, j)
    BY <1>3 DEF Exhausted, GivenUp
  <2> QED
    BY <1>2, <1>3, <2>1 DEF Got
<1> QED
  BY <1>2, <1>4, <1>5, <1>6, <1>7 DEF RequestSafe

LEMMA ExecuteSafe ==
  ASSUME IInv, NEW r \in Requests, NEW m \in Models, Execute(r, m)
  PROVE  IInv'
<1>1. /\ RequestSafe(r) /\ Functions /\ Shared /\ pc[r] = "idle"
      /\ asked' = [asked EXCEPT ![r] = m] /\ UNCHANGED <<cache, reported, dropped>>
  BY DEF IInv, Execute, Change
<1>2. attempts[r] <= CallsFor(1 - 1)
  BY <1>1, CallsGrow DEF RequestSafe, Waiting
<1>3. \A p \in Providers : ~InFlightAt(r, p)
  BY <1>1 DEF InFlightAt, InFlightPc
<1>0. /\ 1 \in Nat \ {0} /\ {} \in SUBSET Models /\ pc[r] # "over"
      /\ \A j \in 1..(1 - 1) : GivenUp({}, m, j)
  BY <1>1
<1>4. PICK F \in SUBSET Models :
        \/ \E k \in 1..Len(Plan(m)) : /\ ProviderOf[Plan(m)[k]] \in Providers
                                      /\ Called(r, m, 1, breakers, {}, k, F)
        \/ Exhausted(r, m, 1, breakers, {}, F)
  <2>1. TryFrom(r, m, 1, breakers, {})
    BY DEF Execute
  <2> QED
    BY <1>0, <2>1, TryFromCases
<1>5. ASSUME NEW k \in 1..Len(Plan(m)), ProviderOf[Plan(m)[k]] \in Providers,
             Called(r, m, 1, breakers, {}, k, F)
      PROVE  IInv'
  <2> DEFINE o == ProviderOf[Plan(m)[k]]
  <2>1. Moves(r) /\ RequestSafe(r)'
    BY <1>0, <1>1, <1>2, <1>5, CalledSafe
  <2>2. pc'[r] = "calling" /\ asked'[r] = m /\ at'[r] = k
    BY <1>1, <1>5 DEF Called, Change, Functions, OfRequests
  <2>3. \A p \in Providers : InFlightAt(r, p)' <=> p = o
    BY <2>2 DEF InFlightAt, InFlightPc, ProviderAt, Current
  <2>4. /\ admitted' \in [Providers -> Nat]
        /\ \A p \in Providers : admitted'[p] = IF p = o THEN admitted[p] + 1 ELSE admitted[p]
    BY <1>1, <1>5 DEF Called, Shared
  <2>5. OneReportPerCall'
    <3> SUFFICES ASSUME NEW p \in Providers
                 PROVE  admitted'[p] = reported[p] + dropped[p] + Cardinality(InFlight(p)')
      BY <1>1 DEF OneReportPerCall
    <3>1. /\ admitted[p] = reported[p] + dropped[p] + Cardinality(InFlight(p))
          /\ reported[p] \in Nat /\ dropped[p] \in Nat
      BY <1>1 DEF Shared, OneReportPerCall
    <3>2. /\ Cardinality(InFlight(p)) \in Nat
          /\ Cardinality(InFlight(p)') =
               Cardinality(InFlight(p)) + (IF p = o THEN 1 ELSE 0)
      BY <1>3, <2>1, <2>3, FlightsCounted
    <3> HIDE DEF o
    <3> QED
      BY <2>4, <3>1, <3>2
  <2>6. breakers' \in [Providers -> Breaker]
    BY <1>1, <1>5, BeforeCalledType DEF Called, Shared
  <2>7. Shared'
    BY <1>1, <2>4, <2>5, <2>6 DEF Shared, CacheCoherent
  <2> QED
    BY <2>1, <2>7, OthersKeep
<1>6. CASE Exhausted(r, m, 1, breakers, {}, F)
  <2>1. Moves(r) /\ RequestSafe(r)'
    <3>1. 1 <= Len(Plan(m)) + 1
      BY PlanType
    <3> QED
      BY <1>0, <1>1, <1>2, <1>6, <3>1, ExhaustedSafe
  <2>2. pc'[r] = "over" /\ UNCHANGED <<breakers, admitted>>
    BY <1>1, <1>6 DEF Exhausted, End, Change, Functions, OfRequests
  <2>3. \A p \in Providers : ~InFlightAt(r, p)'
    BY <2>2 DEF InFlightAt, InFlightPc
  <2>4. OneReportPerCall'
    BY <1>1, <1>3, <2>1, <2>2, <2>3, FlightsCounted DEF OneReportPerCall, Shared
  <2>5. Shared'
    BY <1>1, <2>2, <2>4 DEF Shared, CacheCoherent
  <2> QED
    BY <2>1, <2>5, OthersKeep
<1> QED
  BY <1>4, <1>5, <1>6

(* What a request in flight is at. *)
LEMMA InFlightFacts ==
  ASSUME IInv, NEW r \in Requests, pc[r] \in InFlightPc
  PROVE  /\ asked[r] \in Models /\ asked[r] # None /\ at[r] \in 1..Len(Plan(asked[r]))
         /\ Current(r) \in Models /\ Current(r) = Plan(asked[r])[at[r]]
         /\ ProviderAt(r) \in Providers /\ ProviderAt(r) = ProviderOf[Current(r)]
         /\ status[r] = None /\ answer[r] = None
         /\ attempts[r] \in Nat /\ attempt[r] \in 0..MaxRetries
         /\ \A p \in Providers : InFlightAt(r, p) <=> p = ProviderAt(r)
<1>1. RequestSafe(r)
  BY DEF IInv
<1>2. /\ asked[r] \in Models /\ at[r] \in 1..Len(Plan(asked[r]))
      /\ attempts[r] \in Nat /\ attempt[r] \in 0..MaxRetries
  BY <1>1 DEF RequestSafe, RequestTyped
<1>3. asked[r] # None
  BY <1>2, GatewayAssumption
<1>4. ProviderAt(r) \in Providers
  BY <1>1 DEF RequestSafe, RequestTyped
<1>5. status[r] = None /\ answer[r] = None
  BY <1>1 DEF RequestSafe, Waiting, InFlightPc
<1>6. Current(r) \in Models /\ Current(r) = Plan(asked[r])[at[r]]
  BY <1>2, PlanType DEF Current
<1>7. \A p \in Providers : InFlightAt(r, p) <=> p = ProviderAt(r)
  BY DEF InFlightAt
<1> QED
  BY <1>2, <1>3, <1>4, <1>5, <1>6, <1>7 DEF ProviderAt

LEMMA SucceedSafe ==
  ASSUME IInv, NEW r \in Requests, Succeed(r)
  PROVE  IInv'
<1>1. RequestSafe(r) /\ Functions /\ Shared /\ pc[r] = "calling" /\ pc[r] \in InFlightPc
  BY DEF IInv, Succeed, InFlightPc
<1> DEFINE o == ProviderAt(r)
<1>2. /\ pc'[r] = "over" /\ answer'[r] = Current(r) /\ status'[r] = "success"
      /\ UNCHANGED <<asked, at, attempt, failed, admitted, dropped, attempts>>
      /\ Moves(r)
  BY <1>1 DEF Succeed, End, Change, Moves, Functions, OfRequests
<1>3. RequestSafe(r)'
  <2>1. RequestTyped(r)'
    BY <1>1, <1>2, InFlightFacts DEF RequestSafe, RequestTyped, Statuses, InFlightPc
  <2>2. Waiting(r)' /\ Passed(r)' /\ Counted(r)'
    BY <1>1, <1>2 DEF RequestSafe, Waiting, Passed, Counted, InFlightPc
  <2>3. Got(r)'
    <3>1. at[r] \in DOMAIN Plan(asked[r]) /\ Plan(asked[r])[at[r]] = Current(r)
      <4>1. asked[r] \in Models /\ at[r] \in 1..Len(Plan(asked[r]))
            /\ Plan(asked[r])[at[r]] = Current(r)
        BY <1>1, InFlightFacts
      <4>2. DOMAIN Plan(asked[r]) = 1..Len(Plan(asked[r]))
        BY <4>1, PlanType
      <4> QED
        BY <4>1, <4>2
    <3> QED
      BY <1>2, <3>1 DEF Got
  <2> QED
    BY <2>1, <2>2, <2>3 DEF RequestSafe
<1>4. OneReportPerCall' /\ reported' \in [Providers -> Nat]
  <2>1. o \in Providers /\ \A p \in Providers : InFlightAt(r, p) <=> p = o
    BY <1>1, InFlightFacts
  <2>2. \A p \in Providers : ~InFlightAt(r, p)'
    BY <1>2 DEF InFlightAt, InFlightPc
  <2>3. /\ reported' \in [Providers -> Nat]
        /\ \A p \in Providers : reported'[p] = IF p = o THEN reported[p] + 1 ELSE reported[p]
    BY <1>1, <2>1 DEF Succeed, Shared
  <2>4. OneReportPerCall'
    <3> SUFFICES ASSUME NEW p \in Providers
                 PROVE  admitted[p] = reported'[p] + dropped[p] + Cardinality(InFlight(p)')
      BY <1>2 DEF OneReportPerCall
    <3>1. /\ admitted[p] = reported[p] + dropped[p] + Cardinality(InFlight(p))
          /\ reported[p] \in Nat /\ dropped[p] \in Nat
      BY <1>1 DEF Shared, OneReportPerCall
    <3>2. /\ Cardinality(InFlight(p)) \in Nat /\ Cardinality(InFlight(p)') \in Nat
          /\ Cardinality(InFlight(p)) =
               Cardinality(InFlight(p)') + (IF p = o THEN 1 ELSE 0)
      BY <1>2, <2>1, <2>2, FlightsCounted
    <3> HIDE DEF o
    <3> QED
      BY <2>3, <3>1, <3>2
  <2> QED
    BY <2>3, <2>4
<1>5. breakers' \in [Providers -> Breaker]
  BY <1>1, InFlightFacts, SucceededType DEF Succeed, Shared
<1>6. DOMAIN cache' \subseteq Models /\ CacheCoherent'
  BY <1>1, InFlightFacts DEF Succeed, Stored, CacheKey, CacheCoherent, Shared
<1>7. Shared'
  BY <1>1, <1>2, <1>4, <1>5, <1>6 DEF Shared
<1> QED
  BY <1>2, <1>3, <1>7, OthersKeep

LEMMA FailTransientSafe ==
  ASSUME IInv, NEW r \in Requests, FailTransient(r)
  PROVE  IInv'
<1>1. /\ RequestSafe(r) /\ Functions /\ Shared /\ pc[r] = "calling" /\ pc[r] \in InFlightPc
      /\ attempt[r] \in 0..(MaxRetries - 1)
  BY GatewayAssumption DEF IInv, FailTransient, InFlightPc, RequestSafe, RequestTyped
<1>2. /\ pc'[r] = "backoff" /\ attempt'[r] = attempt[r] + 1
      /\ UNCHANGED <<asked, at, failed, answer, status, breakers, cache, admitted,
                     reported, dropped, attempts>>
      /\ Moves(r)
  BY <1>1 DEF FailTransient, Change, Moves, Functions, OfRequests
<1>3. ProviderAt(r)' = ProviderAt(r) /\ pc'[r] \in InFlightPc
  BY <1>2 DEF ProviderAt, Current, InFlightPc
<1>4. RequestSafe(r)'
  <2>1. RequestTyped(r)'
    BY <1>1, <1>2, <1>3, GatewayAssumption DEF RequestSafe, RequestTyped
  <2>2. Waiting(r)' /\ Passed(r)' /\ Got(r)'
    BY <1>1, <1>2 DEF RequestSafe, Waiting, Passed, Got
  <2>3. Counted(r)'
    <3>1. asked[r] \in Models /\ at[r] \in 1..Len(Plan(asked[r])) /\ attempts[r] \in Nat
      BY <1>1, InFlightFacts
    <3>2. at[r] - 1 \in Nat
      <4>1. Len(Plan(asked[r])) \in Nat
        BY <3>1, PlanType
      <4> QED
        BY <3>1, <4>1
    <3>3. CallsFor(at[r] - 1) \in Nat
      BY <3>2, CallsGrow
    <3>4. attempts[r] <= CallsFor(at[r] - 1) + (attempt[r] + 1)
      BY <1>1, <3>1, <3>3 DEF RequestSafe, Counted
    <3> QED
      BY <1>1, <1>2, <3>4 DEF RequestSafe, Counted
  <2> QED
    BY <2>1, <2>2, <2>3 DEF RequestSafe
<1>5. Shared'
  <2>1. \A p \in Providers : InFlightAt(r, p)' <=> InFlightAt(r, p)
    BY <1>1, <1>3 DEF InFlightAt
  <2>2. OneReportPerCall'
    BY <1>1, <1>2, <2>1, FlightsCounted DEF OneReportPerCall, Shared
  <2> QED
    BY <1>1, <1>2, <2>2 DEF Shared, CacheCoherent
<1> QED
  BY <1>2, <1>4, <1>5, OthersKeep

LEMMA RetrySafe ==
  ASSUME IInv, NEW r \in Requests, Retry(r)
  PROVE  IInv'
<1>1. /\ RequestSafe(r) /\ Functions /\ Shared /\ pc[r] = "backoff" /\ pc[r] \in InFlightPc
  BY DEF IInv, Retry, InFlightPc
<1>2. /\ pc'[r] = "calling" /\ attempts'[r] = attempts[r] + 1
      /\ UNCHANGED <<asked, at, attempt, failed, answer, status, breakers, cache,
                     admitted, reported, dropped>>
      /\ Moves(r)
  BY <1>1 DEF Retry, Change, Moves, Functions, OfRequests
<1>3. ProviderAt(r)' = ProviderAt(r) /\ pc'[r] \in InFlightPc
  BY <1>2 DEF ProviderAt, Current, InFlightPc
<1>4. RequestSafe(r)'
  <2>1. RequestTyped(r)'
    BY <1>1, <1>2, <1>3 DEF RequestSafe, RequestTyped
  <2>2. Waiting(r)' /\ Passed(r)' /\ Got(r)'
    BY <1>1, <1>2 DEF RequestSafe, Waiting, Passed, Got
  <2>3. Counted(r)'
    <3>1. /\ at[r] - 1 \in Nat /\ at[r] - 1 + 1 = at[r] /\ at[r] <= Len(Plan(asked[r]))
          /\ at[r] \in Nat /\ Len(Plan(asked[r])) \in Nat
          /\ attempt[r] \in 0..MaxRetries /\ MaxRetries \in Nat /\ attempts[r] \in Nat
      <4>1. /\ asked[r] \in Models /\ at[r] \in 1..Len(Plan(asked[r]))
            /\ attempt[r] \in 0..MaxRetries /\ attempts[r] \in Nat
        BY <1>1, InFlightFacts
      <4>2. Len(Plan(asked[r])) \in Nat
        BY <4>1, PlanType
      <4> QED
        BY <4>1, <4>2, GatewayAssumption
    <3>2. /\ CallsFor(at[r] - 1) + MaxRetries + 1 = CallsFor(at[r])
          /\ CallsFor(at[r]) <= CallsFor(Len(Plan(asked[r])))
          /\ {CallsFor(at[r] - 1), CallsFor(at[r]), CallsFor(Len(Plan(asked[r])))} \subseteq Nat
      BY <3>1, CallsGrow
    <3>3. attempts[r] <= CallsFor(at[r] - 1) + attempt[r]
      BY <1>1 DEF RequestSafe, Counted
    <3>4. /\ attempts[r] + 1 <= CallsFor(at[r] - 1) + attempt[r] + 1
          /\ attempts[r] + 1 <= CallsFor(Len(Plan(asked[r])))
      BY <3>1, <3>2, <3>3
    <3> QED
      BY <1>2, <3>4 DEF Counted
  <2> QED
    BY <2>1, <2>2, <2>3 DEF RequestSafe
<1>5. Shared'
  <2>1. \A p \in Providers : InFlightAt(r, p)' <=> InFlightAt(r, p)
    BY <1>1, <1>3 DEF InFlightAt
  <2>2. OneReportPerCall'
    BY <1>1, <1>2, <2>1, FlightsCounted DEF OneReportPerCall, Shared
  <2> QED
    BY <1>1, <1>2, <2>2 DEF Shared, CacheCoherent
<1> QED
  BY <1>2, <1>4, <1>5, OthersKeep

LEMMA CancelSafe ==
  ASSUME IInv, NEW r \in Requests, Cancel(r)
  PROVE  IInv'
<1> DEFINE o == ProviderAt(r)
<1>1. /\ RequestSafe(r) /\ Functions /\ Shared /\ pc[r] \in InFlightPc
  BY DEF IInv, Cancel, InFlightPc
<1>2. /\ pc'[r] = "over" /\ answer'[r] = None /\ status'[r] = "success"
      /\ UNCHANGED <<asked, at, attempt, failed, breakers, cache, admitted, reported,
                     attempts>>
      /\ Moves(r)
  BY <1>1 DEF Cancel, End, Change, Moves, Functions, OfRequests
<1>3. RequestSafe(r)'
  <2>1. RequestTyped(r)'
    BY <1>1, <1>2 DEF RequestSafe, RequestTyped, Statuses, InFlightPc
  <2>2. Waiting(r)' /\ Passed(r)' /\ Got(r)'
    BY <1>2 DEF Waiting, Passed, Got, InFlightPc
  <2>3. Counted(r)'
    BY <1>1, <1>2 DEF RequestSafe, Counted
  <2> QED
    BY <2>1, <2>2, <2>3 DEF RequestSafe
<1>4. OneReportPerCall' /\ dropped' \in [Providers -> Nat]
  <2>1. o \in Providers /\ \A p \in Providers : InFlightAt(r, p) <=> p = o
    BY <1>1, InFlightFacts
  <2>2. \A p \in Providers : ~InFlightAt(r, p)'
    BY <1>2 DEF InFlightAt, InFlightPc
  <2>3. /\ dropped' \in [Providers -> Nat]
        /\ \A p \in Providers : dropped'[p] = IF p = o THEN dropped[p] + 1 ELSE dropped[p]
    BY <1>1, <2>1 DEF Cancel, Shared
  <2>4. OneReportPerCall'
    <3> SUFFICES ASSUME NEW p \in Providers
                 PROVE  admitted[p] = reported[p] + dropped'[p] + Cardinality(InFlight(p)')
      BY <1>2 DEF OneReportPerCall
    <3>1. /\ admitted[p] = reported[p] + dropped[p] + Cardinality(InFlight(p))
          /\ reported[p] \in Nat /\ dropped[p] \in Nat
      BY <1>1 DEF Shared, OneReportPerCall
    <3>2. /\ Cardinality(InFlight(p)) \in Nat /\ Cardinality(InFlight(p)') \in Nat
          /\ Cardinality(InFlight(p)) =
               Cardinality(InFlight(p)') + (IF p = o THEN 1 ELSE 0)
      BY <1>2, <2>1, <2>2, FlightsCounted
    <3> HIDE DEF o
    <3> QED
      BY <2>3, <3>1, <3>2
  <2> QED
    BY <2>3, <2>4
<1>5. Shared'
  BY <1>1, <1>2, <1>4 DEF Shared, CacheCoherent
<1> QED
  BY <1>2, <1>3, <1>5, OthersKeep

(* The call has failed for good: its models up to here are given up.       *)
LEMMA FailPrepares ==
  ASSUME IInv, NEW r \in Requests, pc[r] = "calling"
  PROVE  /\ asked[r] \in Models /\ at[r] \in Nat \ {0} /\ at[r] + 1 <= Len(Plan(asked[r])) + 1
         /\ failed[r] \union {Current(r)} \in SUBSET Models
         /\ \A j \in 1..at[r] : GivenUp(failed[r] \union {Current(r)}, asked[r], j)
         /\ attempts[r] <= CallsFor(at[r])
<1>1. RequestSafe(r) /\ pc[r] \in InFlightPc
  BY DEF IInv, InFlightPc
<1>2. /\ asked[r] \in Models /\ at[r] \in 1..Len(Plan(asked[r]))
      /\ Current(r) \in Models /\ Current(r) = Plan(asked[r])[at[r]]
      /\ attempts[r] \in Nat /\ attempt[r] \in 0..MaxRetries /\ MaxRetries \in Nat
  BY <1>1, InFlightFacts, GatewayAssumption
<1>3. Len(Plan(asked[r])) \in Nat
  BY <1>2, PlanType
<1>4. /\ at[r] \in Nat \ {0} /\ at[r] - 1 \in Nat /\ at[r] - 1 + 1 = at[r]
      /\ at[r] + 1 - 1 = at[r] /\ at[r] + 1 \in Nat \ {0}
      /\ at[r] + 1 <= Len(Plan(asked[r])) + 1
  BY <1>2, <1>3
<1>5. failed[r] \union {Current(r)} \in SUBSET Models
  BY <1>1, <1>2 DEF RequestSafe, RequestTyped
<1>6. ASSUME NEW j \in 1..at[r] PROVE GivenUp(failed[r] \union {Current(r)}, asked[r], j)
  <2>1. CASE j = at[r]
    BY <1>2, <2>1 DEF GivenUp
  <2>2. CASE j # at[r]
    <3>1. j \in 1..(at[r] - 1)
      BY <1>4, <2>2
    <3> QED
      BY <1>1, <3>1 DEF RequestSafe, Passed, GivenUp
  <2> QED
    BY <2>1, <2>2
<1>7. attempts[r] <= CallsFor(at[r])
  <2>1. /\ CallsFor(at[r]) = CallsFor(at[r] - 1) + MaxRetries + 1
        /\ CallsFor(at[r] - 1) \in Nat
    BY <1>4, CallsGrow
  <2>2. attempts[r] <= CallsFor(at[r] - 1) + attempt[r] + 1
    BY <1>1 DEF RequestSafe, Counted
  <2> QED
    BY <1>2, <2>1, <2>2
<1> QED
  BY <1>2, <1>4, <1>5, <1>6, <1>7

LEMMA FailSafe ==
  ASSUME IInv, NEW r \in Requests, Fail(r)
  PROVE  IInv'
<1>0. PICK m, i, o, bs, fs :
        /\ m = asked[r] /\ i = at[r] + 1 /\ o = ProviderAt(r)
        /\ bs = [breakers EXCEPT ![ProviderAt(r)] = Failed(@)]
        /\ fs = failed[r] \union {Current(r)}
  OBVIOUS
<1>1. /\ Functions /\ Shared /\ pc[r] = "calling" /\ pc[r] \in InFlightPc /\ pc[r] # "over"
      /\ asked' = [asked EXCEPT ![r] = m] /\ UNCHANGED <<cache, dropped>>
      /\ reported' = [reported EXCEPT ![o] = @ + 1]
  BY <1>0 DEF IInv, Fail, InFlightPc, Functions, OfRequests
<1>10. TryFrom(r, m, i, bs, fs)
  <2>1. TryFrom(r, asked[r], at[r] + 1, [breakers EXCEPT ![ProviderAt(r)] = Failed(@)],
                failed[r] \union {Current(r)})
    BY DEF Fail
  <2>2. m = asked[r] /\ i = at[r] + 1 /\ fs = failed[r] \union {Current(r)}
        /\ bs = [breakers EXCEPT ![ProviderAt(r)] = Failed(@)]
    BY <1>0
  <2>3. TryFrom(r, m, at[r] + 1, bs, failed[r] \union {Current(r)})
    BY <2>1, <2>2
  <2>4. TryFrom(r, m, i, bs, failed[r] \union {Current(r)})
    BY <2>2, <2>3 DEF TryFrom, Admitting
  <2> QED
    BY <2>2, <2>4 DEF TryFrom, Change
<1>2. /\ m \in Models /\ i \in Nat \ {0} /\ i <= Len(Plan(m)) + 1 /\ fs \in SUBSET Models
      /\ \A j \in 1..(i - 1) : GivenUp(fs, m, j)
      /\ attempts[r] <= CallsFor(i - 1)
  <2>1. /\ m \in Models /\ i <= Len(Plan(m)) + 1 /\ fs \in SUBSET Models
        /\ at[r] \in Nat \ {0} /\ \A j \in 1..at[r] : GivenUp(fs, m, j)
        /\ attempts[r] <= CallsFor(at[r])
    BY <1>0, <1>1, FailPrepares
  <2>2. i - 1 = at[r] /\ i \in Nat \ {0}
    BY <1>0, <2>1
  <2> QED
    BY <2>1, <2>2
<1>3. o \in Providers /\ \A p \in Providers : InFlightAt(r, p) <=> p = o
  BY <1>0, <1>1, InFlightFacts
<1>4. bs \in [Providers -> Breaker]
  BY <1>0, <1>1, <1>3, FailedType DEF Shared
<1>5. /\ reported' \in [Providers -> Nat]
      /\ \A p \in Providers : reported'[p] = reported[p] + (IF p = o THEN 1 ELSE 0)
  BY <1>1, <1>3 DEF Shared
<1>6. \A p \in Providers : /\ admitted[p] = reported[p] + dropped[p] + Cardinality(InFlight(p))
                           /\ reported[p] \in Nat /\ dropped[p] \in Nat
  BY <1>1 DEF Shared, OneReportPerCall
<1>7. PICK F \in SUBSET Models :
        \/ \E k \in i..Len(Plan(m)) : /\ ProviderOf[Plan(m)[k]] \in Providers
                                      /\ Called(r, m, i, bs, fs, k, F)
        \/ Exhausted(r, m, i, bs, fs, F)
  BY <1>2, <1>10, TryFromCases
<1>8. ASSUME NEW k \in i..Len(Plan(m)), ProviderOf[Plan(m)[k]] \in Providers,
             Called(r, m, i, bs, fs, k, F)
      PROVE  IInv'
  <2> DEFINE n == ProviderOf[Plan(m)[k]]
  <2>1. Moves(r) /\ RequestSafe(r)'
    BY <1>1, <1>2, <1>8, CalledSafe
  <2>2. pc'[r] = "calling" /\ asked'[r] = m /\ at'[r] = k
    BY <1>1, <1>8 DEF Called, Change, Functions, OfRequests
  <2>3. \A p \in Providers : InFlightAt(r, p)' <=> p = n
    BY <2>2 DEF InFlightAt, InFlightPc, ProviderAt, Current
  <2>4. /\ admitted' \in [Providers -> Nat]
        /\ \A p \in Providers : admitted'[p] = admitted[p] + (IF p = n THEN 1 ELSE 0)
    BY <1>1, <1>8 DEF Called, Shared
  <2>5. OneReportPerCall'
    <3> SUFFICES ASSUME NEW p \in Providers
                 PROVE  admitted'[p] = reported'[p] + dropped[p] + Cardinality(InFlight(p)')
      BY <1>1 DEF OneReportPerCall
    <3>1. /\ Cardinality(InFlight(p)) \in Nat /\ Cardinality(InFlight(p)') \in Nat
          /\ Cardinality(InFlight(p)) + (IF p = n THEN 1 ELSE 0) =
               Cardinality(InFlight(p)') + (IF p = o THEN 1 ELSE 0)
      <4> HIDE DEF n
      <4> QED
        BY <1>3, <2>1, <2>3, FlightsCounted
    <3>2. /\ admitted'[p] = admitted[p] + (IF p = n THEN 1 ELSE 0)
          /\ reported'[p] = reported[p] + (IF p = o THEN 1 ELSE 0)
          /\ admitted[p] = reported[p] + dropped[p] + Cardinality(InFlight(p))
          /\ reported[p] \in Nat /\ dropped[p] \in Nat
      BY <1>5, <1>6, <2>4
    <3> DEFINE before == Cardinality(InFlight(p))
               after == Cardinality(InFlight(p)')
               new == IF p = n THEN 1 ELSE 0
               old == IF p = o THEN 1 ELSE 0
    <3>3. /\ before \in Nat /\ after \in Nat /\ new \in Nat /\ old \in Nat
          /\ before + new = after + old
          /\ admitted'[p] = admitted[p] + new /\ reported'[p] = reported[p] + old
          /\ admitted[p] = reported[p] + dropped[p] + before
          /\ reported[p] \in Nat /\ dropped[p] \in Nat
      BY <3>1, <3>2
    <3> HIDE DEF before, after, new, old
    <3> DEFINE seen == reported[p]
               lost == dropped[p]
    <3>4. /\ seen \in Nat /\ lost \in Nat
          /\ admitted'[p] = seen + lost + before + new /\ reported'[p] = seen + old
      BY <3>3
    <3> HIDE DEF seen, lost
    <3>5. seen + lost + before + new = seen + old + lost + after
      <4>1. /\ before \in Nat /\ after \in Nat /\ new \in Nat /\ old \in Nat /\ seen \in Nat /\ lost \in Nat
            /\ before + new = after + old
        BY <3>3, <3>4
      <4> QED
        BY <4>1
    <3>6. admitted'[p] = reported'[p] + lost + after
      BY <3>4, <3>5
    <3> QED
      BY <3>6 DEF lost, after
  <2>6. breakers' \in [Providers -> Breaker]
    BY <1>4, <1>8, BeforeCalledType DEF Called
  <2>7. Shared'
    BY <1>1, <1>5, <2>4, <2>5, <2>6 DEF Shared, CacheCoherent
  <2> QED
    BY <2>1, <2>7, OthersKeep
<1>9. CASE Exhausted(r, m, i, bs, fs, F)
  <2>1. Moves(r) /\ RequestSafe(r)'
    BY <1>1, <1>2, <1>9, ExhaustedSafe
  <2>2. pc'[r] = "over" /\ breakers' = bs /\ UNCHANGED admitted
    BY <1>1, <1>9 DEF Exhausted, End, Change, Functions, OfRequests
  <2>3. \A p \in Providers : ~InFlightAt(r, p)'
    BY <2>2 DEF InFlightAt, InFlightPc
  <2>4. OneReportPerCall'
    <3> SUFFICES ASSUME NEW p \in Providers
                 PROVE  admitted[p] = reported'[p] + dropped[p] + Cardinality(InFlight(p)')
      BY <1>1, <2>2 DEF OneReportPerCall
    <3>1. /\ Cardinality(InFlight(p)) \in Nat /\ Cardinality(InFlight(p)') \in Nat
          /\ Cardinality(InFlight(p)) =
               Cardinality(InFlight(p)') + (IF p = o THEN 1 ELSE 0)
      BY <1>3, <2>1, <2>3, FlightsCounted
    <3> QED
      BY <1>5, <1>6, <3>1
  <2>5. Shared'
    BY <1>1, <1>4, <1>5, <2>2, <2>4 DEF Shared, CacheCoherent
  <2> QED
    BY <2>1, <2>5, OthersKeep
<1> QED
  BY <1>7, <1>8, <1>9

(* The steps of the cache and of time move no request.                     *)
LEMMA StandStill ==
  ASSUME IInv, UNCHANGED <<requestVars, admitted, reported, dropped>>,
         breakers' \in [Providers -> Breaker],
         DOMAIN cache' \subseteq Models, CacheCoherent'
  PROVE  IInv'
<1>1. \A p \in Providers : InFlight(p)' = InFlight(p)
  BY DEF InFlight, ProviderAt, Current, requestVars
<1>2. Shared'
  BY <1>1 DEF IInv, Shared, OneReportPerCall
<1>3. Functions'
  BY DEF IInv, Functions, OfRequests, requestVars
<1>4. \A r \in Requests : RequestSafe(r)'
  BY DEF IInv, RequestSafe, RequestTyped, Waiting, Passed, Counted, Got, ProviderAt,
         Current, requestVars
<1> QED
  BY <1>2, <1>3, <1>4 DEF IInv

LEMMA StepsSafe == IInv /\ [Next]_vars => IInv'
<1> SUFFICES ASSUME IInv, [Next]_vars PROVE IInv'
  OBVIOUS
<1>1. ASSUME NEW r \in Requests, Route(r) PROVE IInv'
  BY <1>1, RefuseSafe, CacheHitSafe, ExecuteSafe DEF Route
<1>2. ASSUME NEW r \in Requests, Progress(r) PROVE IInv'
  BY <1>2, SucceedSafe, FailTransientSafe, RetrySafe, FailSafe DEF Progress
<1>3. ASSUME NEW r \in Requests, Cancel(r) PROVE IInv'
  BY <1>3, CancelSafe
<1>4. ASSUME NEW m \in Models, Evict(m) PROVE IInv'
  BY <1>4, StandStill DEF Evict, IInv, Shared, CacheCoherent
<1>5. CASE Tick
  BY <1>5, StandStill, TickedType DEF Tick, IInv, Shared, CacheCoherent
<1>6. CASE UNCHANGED vars
  BY <1>6, StandStill DEF vars, IInv, Shared, CacheCoherent
<1> QED
  BY <1>1, <1>2, <1>3, <1>4, <1>5, <1>6 DEF Next

-----------------------------------------------------------------------------
(* However requests, retries, fallbacks and cancellations interleave, an   *)
(* entry of the cache came from the model it is stored under, a breaker    *)
(* hears once of each call it let through, a request calls providers at    *)
(* most max_retries + 1 times per model, and is given up only when all its *)
(* models are: GatewayInv, the property of the run.                        *)
THEOREM GatewaySafe == Spec => []GatewayInv
<1>1. Init => IInv
  BY StartsSafe
<1>2. IInv /\ [Next]_vars => IInv'
  BY StepsSafe
<1>3. IInv => GatewayInv
  BY IInvSuffices
<1> QED
  BY <1>1, <1>2, <1>3, PTL DEF Spec
=============================================================================
