------------------------ MODULE StreamingRag_proofs ------------------------
(***************************************************************************)
(* What the streams of one service keep, for any number of them and any    *)
(* sizes of queue, answers and scanner's buffer.                           *)
(*                                                                         *)
(* The invariant of the run is not inductive: it allows a stream that the  *)
(* scanner stopped and that waits for a token.  BlockedStops adds where    *)
(* such a stream may be, and Shared says which streams the tracker counts  *)
(* by the points they are at, of which only two actions change the number. *)
(*                                                                         *)
(* After it, parts around the service that stand by themselves: the loop   *)
(* that tunes a pipeline, the layers of cached answers, the queue of index *)
(* tasks, a conversation and the versions of a prompt.                     *)
(***************************************************************************)
EXTENDS StreamingRag, FiniteSetTheorems, SequenceTheorems, WellFoundedInduction,
        TLAPS

Points == {"idle"} \union AtYield \union AtAwait \union InFinally \union Over
Reasons == {"stop", "security_blocked", "interrupted", "error"}
Tracker == [start : BOOLEAN, last : BOOLEAN, tokens : Nat, active : Nat]

(* The types, by whose state it is. *)
RequestTypes ==
  /\ pc \in [Requests -> Points]
  /\ source \in [Requests -> 1..Sources]
  /\ arrived \in [Requests -> 0..Answer]
  /\ count \in [Requests -> Nat] /\ shown \in [Requests -> Nat]
  /\ finish \in [Requests -> Reasons]
  /\ heart \in [Requests -> {"none", "sleeping", "blocked", "over"}]

SharedTypes ==
  /\ lastBeat \in Requests \union {Nobody}
  /\ queued \in 0..MaxSize /\ closed \in BOOLEAN
  /\ latency \in Tracker
  /\ measured \in Nat

BufferType == buffer \in Seq(Requests \union {Clean}) /\ Len(buffer) <= Window

(* The streams the tracker counts. *)
Counted == {r \in Requests : pc[r] \notin {"idle", "returned"}}

Shared ==
  /\ latency.active = Cardinality(Counted)
  /\ latency.tokens <= measured

(* A stream that was stopped is on its way out. *)
BlockedStops ==
  \A r \in Requests :
    finish[r] = "security_blocked" => pc[r] \in {"refused"} \union InFinally \union Over

IInv ==
  /\ RequestTypes /\ SharedTypes /\ BufferType
  /\ NoOrphanHeartbeat /\ ReportedIsShown /\ BlockedStops
  /\ Shared

LEMMA Types == TypeOK <=> RequestTypes /\ SharedTypes /\ BufferType
BY DEF TypeOK, RequestTypes, SharedTypes, Tracker, BufferType, Points, Reasons

LEMMA Sizes ==
  /\ MaxSize \in Nat /\ MaxSize > 0 /\ Sources \in Nat /\ Sources > 0
  /\ Answer \in Nat /\ Answer > 0 /\ Window \in Nat /\ Window > 0
BY StreamingRagAssumption

(* The operations of the tracker, on records of its type. *)
LEMMA Restarted ==
  ASSUME NEW l \in Tracker, NEW b \in BOOLEAN
  PROVE  /\ [l EXCEPT !.start = b, !.last = FALSE] \in Tracker
         /\ [l EXCEPT !.start = b, !.last = FALSE].active = l.active
         /\ [l EXCEPT !.start = b, !.last = FALSE].tokens = l.tokens
<1>1. [l EXCEPT !.start = b] \in Tracker
  BY DEF Tracker
<1>2. [[l EXCEPT !.start = b] EXCEPT !.last = FALSE] \in Tracker
  BY <1>1 DEF Tracker
<1> QED
  BY <1>2 DEF Tracker

LEMMA Started ==
  ASSUME NEW l \in Tracker
  PROVE  /\ StartRequest(l) \in Tracker
         /\ StartRequest(l).active = l.active + 1
         /\ StartRequest(l).tokens = l.tokens
<1> DEFINE m == [l EXCEPT !.start = TRUE, !.last = FALSE]
<1>1. m \in Tracker /\ m.active = l.active /\ m.tokens = l.tokens
  BY Restarted
<1>2. StartRequest(l) = [m EXCEPT !.active = m.active + 1]
  BY DEF StartRequest
<1> HIDE DEF m
<1> QED
  BY <1>1, <1>2 DEF Tracker

LEMMA TokenCounted ==
  ASSUME NEW l \in Tracker
  PROVE  /\ OnToken(l) \in Tracker
         /\ OnToken(l).active = l.active
         /\ OnToken(l).tokens = l.tokens + 1
<1> DEFINE m == [l EXCEPT !.last = TRUE]
<1>1. m \in Tracker
  BY DEF Tracker
<1>2. m.active = l.active /\ m.tokens = l.tokens
  BY DEF Tracker
<1>3. OnToken(l) = [m EXCEPT !.tokens = m.tokens + 1]
  BY DEF OnToken
<1> HIDE DEF m
<1> QED
  BY <1>1, <1>2, <1>3 DEF Tracker

LEMMA Ended ==
  ASSUME NEW l \in Tracker
  PROVE  /\ EndRequest(l) \in Tracker
         /\ EndRequest(l).active = IF l.active > 0 THEN l.active - 1 ELSE 0
         /\ EndRequest(l).tokens = l.tokens
<1> DEFINE m == [l EXCEPT !.start = FALSE, !.last = FALSE]
           left == IF m.active > 0 THEN m.active - 1 ELSE 0
<1>1. m \in Tracker /\ m.active = l.active /\ m.tokens = l.tokens
  BY Restarted
<1>2. EndRequest(l) = [m EXCEPT !.active = left]
  BY DEF EndRequest
<1>3. m.active \in Nat
  BY <1>1 DEF Tracker
<1>4. left \in Nat
  BY <1>3
<1> HIDE DEF m, left
<1>5. EndRequest(l) \in Tracker /\ EndRequest(l).active = left /\ EndRequest(l).tokens = m.tokens
  BY <1>1, <1>2, <1>4 DEF Tracker
<1> QED
  BY <1>1, <1>5 DEF left

LEMMA FirstCounted ==
  ASSUME NEW l \in Tracker
  PROVE  /\ OnFirstToken(l) \in Tracker
         /\ OnFirstToken(l).active = l.active
         /\ OnFirstToken(l).tokens \in {l.tokens, l.tokens + 1}
<1>1. CASE l.start
  <2>1. OnFirstToken(l) = OnToken(l)
    BY <1>1 DEF OnFirstToken, OnToken
  <2> QED
    BY <2>1, TokenCounted
<1>2. CASE ~l.start
  BY <1>2 DEF OnFirstToken
<1> QED
  BY <1>1, <1>2

LEMMA CountedStreams ==
  ASSUME TypeOK
  PROVE  Counted = {r \in Requests : Running(r) \/ pc[r] = "abandoned"}
BY DEF TypeOK, Counted, Running, AtYield, AtAwait, InFinally, Over

(* Who moves without starting or returning stays counted or uncounted. *)
LEMMA SameCount ==
  ASSUME Shared,
         \A r \in Requests : pc'[r] \in {"idle", "returned"} <=> pc[r] \in {"idle", "returned"},
         latency'.active = latency.active, latency'.tokens <= measured'
  PROVE  Shared'
<1>1. Counted' = Counted
  BY DEF Counted
<1> QED
  BY <1>1 DEF Shared

(* Nobody has begun. *)
LEMMA InitSafe == Init => IInv
<1> SUFFICES ASSUME Init PROVE IInv
  OBVIOUS
<1> USE DEF Init
<1>1. RequestTypes
  BY Sizes DEF RequestTypes, Points, Reasons
<1>2. SharedTypes
  <2>1. latency \in Tracker
    BY DEF Tracker
  <2>2. queued \in 0..MaxSize /\ measured \in Nat
    BY Sizes
  <2>3. closed \in BOOLEAN /\ lastBeat \in Requests \union {Nobody}
    OBVIOUS
  <2> QED
    BY <2>1, <2>2, <2>3 DEF SharedTypes
<1>3. BufferType
  BY Sizes, EmptySeq DEF BufferType
<1>4. NoOrphanHeartbeat /\ ReportedIsShown /\ BlockedStops
  BY DEF NoOrphanHeartbeat, ReportedIsShown, BlockedStops, AtYield, AtAwait, InFinally, Over
<1>5. Counted = {}
  BY DEF Counted
<1>6. Shared
  BY <1>5, FS_EmptySet DEF Shared
<1> QED
  BY <1>1, <1>2, <1>3, <1>4, <1>6 DEF IInv

(* The scanner's buffer is cut to its window. *)
LEMMA ScannedType ==
  ASSUME BufferType, NEW t \in Requests \union {Clean}
  PROVE  Scanned(t) \in Seq(Requests \union {Clean}) /\ Len(Scanned(t)) <= Window
<1> DEFINE long == Append(buffer, t)
<1>1. long \in Seq(Requests \union {Clean}) /\ Len(long) = Len(buffer) + 1 /\ Len(buffer) <= Window
  BY DEF BufferType
<1>2. Len(buffer) \in Nat
  BY DEF BufferType
<1> HIDE DEF long
<1>3. Tail(long) \in Seq(Requests \union {Clean}) /\ Len(Tail(long)) = Len(long) - 1
  <2>1. long # << >>
    BY <1>1, <1>2, EmptySeq
  <2> QED
    BY <1>1, <2>1, HeadTailProperties
<1>4. Window \in Nat
  BY Sizes
<1>5. Scanned(t) = IF Len(long) > Window THEN Tail(long) ELSE long
  BY DEF Scanned, long
<1> QED
  BY <1>1, <1>2, <1>3, <1>4, <1>5

LEMMA CountedFinite == IsFiniteSet(Counted)
BY StreamingRagAssumption, FS_Subset DEF Counted

(* No step leaves the invariant: what each action does to every part. *)
LEMMA StepSafe == IInv /\ [Next]_vars => IInv'
<1> SUFFICES ASSUME IInv, [Next]_vars PROVE IInv'
  OBVIOUS
<1>a. /\ RequestTypes /\ SharedTypes /\ BufferType
      /\ NoOrphanHeartbeat /\ ReportedIsShown /\ BlockedStops
      /\ Shared
  BY DEF IInv
<1>1. ASSUME NEW r \in Requests, Start(r)
      PROVE  IInv'
  <2>1. RequestTypes'
    BY <1>1, <1>a, Sizes DEF Start, Goto, RequestTypes, Reasons, Points, AtYield, AtAwait, InFinally, Over
  <2>2. SharedTypes'
    BY <1>1, <1>a, Sizes, Started DEF Start, SharedTypes
  <2>3. BufferType'
    BY <1>1, <1>a DEF Start, BufferType
  <2>4. NoOrphanHeartbeat'
    BY <1>1, <1>a DEF Start, Goto, RequestTypes, NoOrphanHeartbeat, Points, AtYield, AtAwait, InFinally, Over
  <2>5. ReportedIsShown'
    BY <1>1, <1>a DEF Start, Goto, RequestTypes, ReportedIsShown
  <2>6. BlockedStops'
    BY <1>1, <1>a DEF Start, Goto, RequestTypes, BlockedStops, Points, AtYield, AtAwait, InFinally, Over
  <2>7. Counted' = Counted \union {r} /\ r \notin Counted
    BY <1>1, <1>a DEF Start, Goto, RequestTypes, Counted
  <2>8. latency'.active = latency.active + 1 /\ latency'.tokens = latency.tokens /\ measured' = measured
    BY <1>1, <1>a, Started DEF Start, SharedTypes
  <2>9. Shared'
    BY <2>7, <2>8, <1>a, CountedFinite, FS_AddElement DEF Shared
  <2> QED
    BY <2>1, <2>2, <2>3, <2>4, <2>5, <2>6, <2>9 DEF IInv
<1>2. ASSUME NEW r \in Requests, Return(r)
      PROVE  IInv'
  <2>1. RequestTypes'
    BY <1>2, <1>a, Sizes DEF Return, Goto, RequestTypes, Reasons, Points, AtYield, AtAwait, InFinally, Over
  <2>2. SharedTypes'
    BY <1>2, <1>a, Sizes, Ended DEF Return, SharedTypes
  <2>3. BufferType'
    BY <1>2, <1>a DEF Return, BufferType
  <2>4. NoOrphanHeartbeat'
    BY <1>2, <1>a DEF Return, Goto, RequestTypes, NoOrphanHeartbeat, Points, AtYield, AtAwait, InFinally, Over
  <2>5. ReportedIsShown'
    BY <1>2, <1>a DEF Return, Goto, RequestTypes, ReportedIsShown
  <2>6. BlockedStops'
    BY <1>2, <1>a DEF Return, Goto, RequestTypes, BlockedStops, Points, AtYield, AtAwait, InFinally, Over
  <2>7. Counted' = Counted \ {r} /\ r \in Counted
    BY <1>2, <1>a DEF Return, Goto, RequestTypes, Counted
  <2>8. /\ latency'.active = IF latency.active > 0 THEN latency.active - 1 ELSE 0
        /\ latency'.tokens = latency.tokens /\ measured' = measured
    BY <1>2, <1>a, Ended DEF Return, SharedTypes
  <2>9. Shared'
    <3>1. Cardinality(Counted') = Cardinality(Counted) - 1 /\ IsFiniteSet(Counted')
      BY <2>7, CountedFinite, FS_RemoveElement
    <3>2. Cardinality(Counted) \in Nat /\ Cardinality(Counted') \in Nat
      BY <3>1, CountedFinite, FS_CardinalityType
    <3> QED
      BY <2>8, <3>1, <3>2, <1>a DEF Shared
  <2> QED
    BY <2>1, <2>2, <2>3, <2>4, <2>5, <2>6, <2>9 DEF IInv
<1>3. ASSUME NEW r \in Requests, NEW bad \in BOOLEAN, TokenArrives(r, bad)
      PROVE  IInv'
  <2>1. RequestTypes'
    BY <1>3, <1>a, Sizes DEF TokenArrives, Show, Goto, RequestTypes, Reasons, Points, AtYield, AtAwait, InFinally, Over
  <2>2. SharedTypes'
    BY <1>3, <1>a, Sizes, FirstCounted, TokenCounted DEF TokenArrives, MayPush, Room, Push, SharedTypes
  <2>3. BufferType'
    BY <1>3, <1>a, ScannedType DEF TokenArrives, BufferType
  <2>4. NoOrphanHeartbeat'
    BY <1>3, <1>a DEF TokenArrives, Show, Goto, RequestTypes, NoOrphanHeartbeat, Points, AtYield, AtAwait, InFinally, Over
  <2>5. ReportedIsShown'
    BY <1>3, <1>a DEF TokenArrives, Show, Goto, RequestTypes, ReportedIsShown
  <2>6. BlockedStops'
    BY <1>3, <1>a DEF TokenArrives, Show, Goto, RequestTypes, BlockedStops, Points, AtYield, AtAwait, InFinally, Over
  <2>7. \A q \in Requests : pc'[q] \in {"idle", "returned"} <=> pc[q] \in {"idle", "returned"}
    BY <1>3, <1>a DEF TokenArrives, Show, Goto, RequestTypes, Points, AtYield, AtAwait, InFinally, Over
  <2>8. latency'.active = latency.active /\ latency'.tokens <= measured'
    <3>1. \/ latency' = latency /\ measured' = measured
          \/ latency' \in {OnFirstToken(latency), OnToken(latency)} /\ measured' = measured + 1
      BY <1>3 DEF TokenArrives
    <3>2. latency \in Tracker /\ latency.tokens \in Nat /\ measured \in Nat /\ latency.tokens <= measured
      BY <1>a DEF SharedTypes, Tracker, Shared
    <3> QED
      BY <3>1, <3>2, FirstCounted, TokenCounted
  <2>9. Shared'
    BY <2>7, <2>8, <1>a, SameCount
  <2> QED
    BY <2>1, <2>2, <2>3, <2>4, <2>5, <2>6, <2>9 DEF IInv
<1>4. ASSUME NEW r \in Requests, Unblocked(r)
      PROVE  IInv'
  <2>1. RequestTypes'
    BY <1>4, <1>a, Sizes DEF Unblocked, Show, Goto, RequestTypes, Reasons, Points, AtYield, AtAwait, InFinally, Over
  <2>2. SharedTypes'
    BY <1>4, <1>a, Sizes DEF Unblocked, MayPush, Room, Push, SharedTypes
  <2>3. BufferType'
    BY <1>4, <1>a DEF Unblocked, BufferType
  <2>4. NoOrphanHeartbeat'
    BY <1>4, <1>a DEF Unblocked, Show, Goto, RequestTypes, NoOrphanHeartbeat, Points, AtYield, AtAwait, InFinally, Over
  <2>5. ReportedIsShown'
    BY <1>4, <1>a DEF Unblocked, Show, Goto, RequestTypes, ReportedIsShown
  <2>6. BlockedStops'
    BY <1>4, <1>a DEF Unblocked, Show, Goto, RequestTypes, BlockedStops, Points, AtYield, AtAwait, InFinally, Over
  <2>7. \A q \in Requests : pc'[q] \in {"idle", "returned"} <=> pc[q] \in {"idle", "returned"}
    BY <1>4, <1>a DEF Unblocked, Show, Goto, RequestTypes, Points, AtYield, AtAwait, InFinally, Over
  <2>8. latency'.active = latency.active /\ latency'.tokens <= measured'
    BY <1>4, <1>a DEF Unblocked, SharedTypes, Shared
  <2>9. Shared'
    BY <2>7, <2>8, <1>a, SameCount
  <2> QED
    BY <2>1, <2>2, <2>3, <2>4, <2>5, <2>6, <2>9 DEF IInv
<1>5. ASSUME NEW r \in Requests,
             Retrieved(r) \/ PromptFails(r) \/ ReadNext(r) \/ ReadDone(r) \/ SourceFails(r)
      PROVE  IInv'
  <2>1. RequestTypes'
    BY <1>5, <1>a, Sizes DEF Retrieved, PromptFails, ReadNext, ReadDone, SourceFails, Goto, RequestTypes, Reasons, Points, AtYield, AtAwait, InFinally, Over
  <2>2. SharedTypes'
    BY <1>5, <1>a, Sizes DEF Retrieved, PromptFails, ReadNext, ReadDone, SourceFails, SharedTypes
  <2>3. BufferType'
    BY <1>5, <1>a DEF Retrieved, PromptFails, ReadNext, ReadDone, SourceFails, BufferType
  <2>4. NoOrphanHeartbeat'
    BY <1>5, <1>a DEF Retrieved, PromptFails, ReadNext, ReadDone, SourceFails, Goto, RequestTypes, NoOrphanHeartbeat, Points, AtYield, AtAwait, InFinally, Over
  <2>5. ReportedIsShown'
    BY <1>5, <1>a DEF Retrieved, PromptFails, ReadNext, ReadDone, SourceFails, Goto, RequestTypes, ReportedIsShown
  <2>6. BlockedStops'
    BY <1>5, <1>a DEF Retrieved, PromptFails, ReadNext, ReadDone, SourceFails, Goto, RequestTypes, BlockedStops, Points, AtYield, AtAwait, InFinally, Over
  <2>7. \A q \in Requests : pc'[q] \in {"idle", "returned"} <=> pc[q] \in {"idle", "returned"}
    BY <1>5, <1>a DEF Retrieved, PromptFails, ReadNext, ReadDone, SourceFails, Goto, RequestTypes, Points, AtYield, AtAwait, InFinally, Over
  <2>8. latency'.active = latency.active /\ latency'.tokens <= measured'
    BY <1>5, <1>a DEF Retrieved, PromptFails, ReadNext, ReadDone, SourceFails, SharedTypes, Shared
  <2>9. Shared'
    BY <2>7, <2>8, <1>a, SameCount
  <2> QED
    BY <2>1, <2>2, <2>3, <2>4, <2>5, <2>6, <2>9 DEF IInv
<1>6. ASSUME NEW r \in Requests, SourceEnds(r) \/ AfterError(r) \/ Cancel(r)
      PROVE  IInv'
  <2>0. PICK reason \in {finish[r], "interrupted"} :
          Finally(r, reason) /\ pc[r] \in {"refused", "error"} \union AtAwait
    BY <1>6 DEF SourceEnds, AfterError, Cancel, AtAwait
  <2>1. RequestTypes'
    BY <2>0, <1>a, Sizes DEF Finally, Goto, RequestTypes, Reasons, Points, AtYield, AtAwait, InFinally, Over
  <2>2. SharedTypes'
    BY <2>0, <1>a, Sizes DEF Finally, SharedTypes
  <2>3. BufferType'
    BY <2>0, <1>a DEF Finally, BufferType
  <2>4. NoOrphanHeartbeat'
    BY <2>0, <1>a DEF Finally, Goto, RequestTypes, NoOrphanHeartbeat, Points, AtYield, AtAwait, InFinally, Over
  <2>5. ReportedIsShown'
    BY <2>0, <1>a DEF Finally, Goto, RequestTypes, ReportedIsShown
  <2>6. BlockedStops'
    BY <2>0, <1>a DEF Finally, Goto, RequestTypes, BlockedStops, Points, AtYield, AtAwait, InFinally, Over
  <2>7. \A q \in Requests : pc'[q] \in {"idle", "returned"} <=> pc[q] \in {"idle", "returned"}
    BY <2>0, <1>a DEF Finally, Goto, RequestTypes, Points, AtYield, AtAwait, InFinally, Over
  <2>8. latency'.active = latency.active /\ latency'.tokens <= measured'
    BY <2>0, <1>a DEF Finally, SharedTypes, Shared
  <2>9. Shared'
    BY <2>7, <2>8, <1>a, SameCount
  <2> QED
    BY <2>1, <2>2, <2>3, <2>4, <2>5, <2>6, <2>9 DEF IInv
<1>7. ASSUME NEW r \in Requests, Abandon(r)
      PROVE  IInv'
  <2>1. RequestTypes'
    BY <1>7, <1>a, Sizes DEF Abandon, Goto, RequestTypes, Reasons, Points, AtYield, AtAwait, InFinally, Over
  <2>2. SharedTypes'
    BY <1>7, <1>a, Sizes DEF Abandon, SharedTypes
  <2>3. BufferType'
    BY <1>7, <1>a DEF Abandon, BufferType
  <2>4. NoOrphanHeartbeat'
    BY <1>7, <1>a DEF Abandon, Goto, RequestTypes, NoOrphanHeartbeat, Points, AtYield, AtAwait, InFinally, Over
  <2>5. ReportedIsShown'
    BY <1>7, <1>a DEF Abandon, Goto, RequestTypes, ReportedIsShown
  <2>6. BlockedStops'
    BY <1>7, <1>a DEF Abandon, Goto, RequestTypes, BlockedStops, Points, AtYield, AtAwait, InFinally, Over
  <2>7. \A q \in Requests : pc'[q] \in {"idle", "returned"} <=> pc[q] \in {"idle", "returned"}
    BY <1>7, <1>a DEF Abandon, Goto, RequestTypes, Points, AtYield, AtAwait, InFinally, Over
  <2>8. latency'.active = latency.active /\ latency'.tokens <= measured'
    BY <1>7, <1>a DEF Abandon, SharedTypes, Shared
  <2>9. Shared'
    BY <2>7, <2>8, <1>a, SameCount
  <2> QED
    BY <2>1, <2>2, <2>3, <2>4, <2>5, <2>6, <2>9 DEF IInv
<1>8. ASSUME NEW r \in Requests, Beat(r) \/ BeatUnblocked(r)
      PROVE  IInv'
  <2>1. RequestTypes'
    BY <1>8, <1>a, Sizes DEF Beat, BeatUnblocked, RequestTypes, Reasons, Points, AtYield, AtAwait, InFinally, Over
  <2>2. SharedTypes'
    BY <1>8, <1>a, Sizes DEF Beat, BeatUnblocked, MayPush, Room, Push, SharedTypes
  <2>3. BufferType'
    BY <1>8, <1>a DEF Beat, BeatUnblocked, BufferType
  <2>4. NoOrphanHeartbeat'
    BY <1>8, <1>a DEF Beat, BeatUnblocked, RequestTypes, NoOrphanHeartbeat, Points, AtYield, AtAwait, InFinally, Over
  <2>5. ReportedIsShown'
    BY <1>8, <1>a DEF Beat, BeatUnblocked, RequestTypes, ReportedIsShown
  <2>6. BlockedStops'
    BY <1>8, <1>a DEF Beat, BeatUnblocked, RequestTypes, BlockedStops, Points, AtYield, AtAwait, InFinally, Over
  <2>7. \A q \in Requests : pc'[q] \in {"idle", "returned"} <=> pc[q] \in {"idle", "returned"}
    BY <1>8, <1>a DEF Beat, BeatUnblocked, RequestTypes, Points, AtYield, AtAwait, InFinally, Over
  <2>8. latency'.active = latency.active /\ latency'.tokens <= measured'
    BY <1>8, <1>a DEF Beat, BeatUnblocked, SharedTypes, Shared
  <2>9. Shared'
    BY <2>7, <2>8, <1>a, SameCount
  <2> QED
    BY <2>1, <2>2, <2>3, <2>4, <2>5, <2>6, <2>9 DEF IInv
<1>9. ASSUME Close
      PROVE  IInv'
  <2>1. RequestTypes'
    BY <1>9, <1>a, Sizes DEF Close, RequestTypes, Reasons, Points, AtYield, AtAwait, InFinally, Over
  <2>2. SharedTypes'
    BY <1>9, <1>a, Sizes DEF Close, SharedTypes
  <2>3. BufferType'
    BY <1>9, <1>a DEF Close, BufferType
  <2>4. NoOrphanHeartbeat'
    BY <1>9, <1>a DEF Close, RequestTypes, NoOrphanHeartbeat, Points, AtYield, AtAwait, InFinally, Over
  <2>5. ReportedIsShown'
    BY <1>9, <1>a DEF Close, RequestTypes, ReportedIsShown
  <2>6. BlockedStops'
    BY <1>9, <1>a DEF Close, RequestTypes, BlockedStops, Points, AtYield, AtAwait, InFinally, Over
  <2>7. \A q \in Requests : pc'[q] \in {"idle", "returned"} <=> pc[q] \in {"idle", "returned"}
    BY <1>9, <1>a DEF Close, RequestTypes, Points, AtYield, AtAwait, InFinally, Over
  <2>8. latency'.active = latency.active /\ latency'.tokens <= measured'
    BY <1>9, <1>a DEF Close, SharedTypes, Shared
  <2>9. Shared'
    BY <2>7, <2>8, <1>a, SameCount
  <2> QED
    BY <2>1, <2>2, <2>3, <2>4, <2>5, <2>6, <2>9 DEF IInv
<1>10. CASE UNCHANGED vars
  <2>1. (RequestTypes /\ SharedTypes /\ BufferType)'
    BY <1>10, <1>a DEF vars, requestVars, RequestTypes, SharedTypes, BufferType
  <2>2. (NoOrphanHeartbeat /\ ReportedIsShown /\ BlockedStops)'
    BY <1>10, <1>a DEF vars, requestVars, NoOrphanHeartbeat, ReportedIsShown, BlockedStops
  <2>3. Shared'
    BY <1>10, <1>a DEF vars, requestVars, Shared, Counted
  <2> QED
    BY <2>1, <2>2, <2>3 DEF IInv
<1> QED
  BY <1>1, <1>2, <1>3, <1>4, <1>5, <1>6, <1>7, <1>8, <1>9, <1>10
     DEF Next, Progress, Read, Generate

(* However streams are interrupted, abandoned, blocked or closed, no       *)
(* heartbeat task outlives its stream, the end event reports the tokens    *)
(* that were sent, and the tracker counts who runs or was left.            *)
THEOREM StreamingSafe == Spec => []StreamingInv
<1>1. IInv => StreamingInv
  BY Types, CountedStreams DEF IInv, StreamingInv, Shared, TrackerAccounts
<1> QED
  BY <1>1, InitSafe, StepSafe, PTL DEF Spec

(* After the scanner has stopped a stream its client receives no token and *)
(* the reason stays: where a stopped stream may be, nothing is sent.       *)
THEOREM BlockedEnds == Spec => BlockedIsFinal
<1>1. ASSUME IInv, [Next]_vars
      PROVE  [\A r \in Requests : finish[r] = "security_blocked"
                => finish'[r] = finish[r] /\ shown'[r] = shown[r]]_vars
  <2> SUFFICES ASSUME Next, NEW s \in Requests, finish[s] = "security_blocked"
               PROVE  finish'[s] = finish[s] /\ shown'[s] = shown[s]
    BY <1>1
  <2>a. pc[s] \in {"refused"} \union InFinally \union Over /\ RequestTypes
    BY <1>1 DEF IInv, BlockedStops
  <2>1. ASSUME NEW r \in Requests, NEW bad \in BOOLEAN, TokenArrives(r, bad) \/ Unblocked(r)
        PROVE  finish'[s] = finish[s] /\ shown'[s] = shown[s]
    <3>1. r # s
      BY <2>1, <2>a DEF TokenArrives, Unblocked, InFinally, Over
    <3> QED
      BY <2>1, <2>a, <3>1 DEF TokenArrives, Unblocked, Show, RequestTypes
  <2>2. ASSUME NEW r \in Requests, PromptFails(r) \/ Cancel(r)
        PROVE  finish'[s] = finish[s] /\ shown'[s] = shown[s]
    <3>1. r # s
      BY <2>2, <2>a DEF PromptFails, Cancel, AtAwait, InFinally, Over
    <3> QED
      BY <2>2, <2>a, <3>1 DEF PromptFails, Cancel, Finally, RequestTypes
  <2>3. ASSUME NEW r \in Requests, SourceEnds(r) \/ AfterError(r)
        PROVE  finish'[s] = finish[s] /\ shown'[s] = shown[s]
    BY <2>3, <2>a DEF SourceEnds, AfterError, Finally, RequestTypes
  <2>4. ASSUME NEW r \in Requests,
               \/ Start(r) \/ Retrieved(r) \/ ReadNext(r) \/ ReadDone(r) \/ Return(r)
               \/ SourceFails(r) \/ Abandon(r) \/ Beat(r) \/ BeatUnblocked(r) \/ Close
        PROVE  finish'[s] = finish[s] /\ shown'[s] = shown[s]
    BY <2>4 DEF Start, Retrieved, ReadNext, ReadDone, Return, SourceFails, Abandon, Beat,
       BeatUnblocked, Close
  <2> QED
    BY <2>1, <2>2, <2>3, <2>4 DEF Next, Progress, Read, Generate
<1> QED
  BY <1>1, InitSafe, StepSafe, PTL DEF Spec, BlockedIsFinal

-----------------------------------------------------------------------------
(***************************************************************************)
(* The parts around the service: the loop that tunes a pipeline, the layers *)
(* of cached answers, the queue of index tasks and a conversation.  Each is *)
(* taken by itself: its constants and variables follow.                    *)
(***************************************************************************)
(* A set of numbers that is not empty has a least one: what holds of every  *)
(* stage of a recursive function is shown by the first where it would not. *)
LEMMA LeastIn ==
  ASSUME NEW S \in SUBSET Nat, S # {}
  PROVE  \E x \in S : \A y \in S : x <= y
<1>1. PICK x \in S : \A y \in S : ~(<<y, x>> \in OpToRel(<, Nat))
  BY NatLessThanWellFounded, WFMin
<1>2. \A y \in S : ~(y < x)
  BY <1>1, Zenon DEF OpToRel
<1> QED
  BY <1>2

(* A set of numbers up to some number has a greatest one.                  *)
LEMMA GreatestIn ==
  ASSUME NEW n \in Nat, NEW S \in SUBSET (1..n), S # {}
  PROVE  \E x \in S : \A y \in S : x >= y
<1> DEFINE R == {n - x : x \in S}
<1>a. \A x \in S : n - x \in Nat
  OBVIOUS
<1>1. R \in SUBSET Nat /\ R # {}
  BY <1>a
<1>2. PICK r \in R : \A q \in R : r <= q
  BY <1>1, LeastIn
<1>3. PICK x \in S : r = n - x
  BY <1>2
<1>4. \A y \in S : n - y \in R
  OBVIOUS
<1>5. \A y \in S : r <= n - y
  BY <1>2, <1>4
<1> QED
  BY <1>3, <1>5

-----------------------------------------------------------------------------
(* The loop that tunes a pipeline.                                         *)
CONSTANTS MaxTime, Users, BucketOf, Variants, Splits, MaxExperiments,
          MaxObservations, Scores, Dimensions, Levels, MaxIterations, Patience, Threshold,
          MinImprovement, WindowSeconds, MaxAnswers, Inputs, MinimumSize, None
VARIABLES trial, experiments, begun, given, shares, counters, assignments,
          golden, tuning, seconds, answers, alerts

Experiments == INSTANCE Experiments WITH
    Bucket <- BucketOf, subject <- trial, created <- begun, split <- shares,
    loop <- tuning, clock <- seconds

(* f[s] is the sum of v over s, for the subsets of S with n members at most. *)
FirstOf(s) == CHOOSE x \in s : TRUE
UpTo(S, n) == {s \in SUBSET S : Cardinality(s) <= n}
Sums(f, v, D) ==
  f = [s \in D |-> IF s = {} THEN 0 ELSE v[FirstOf(s)] + f[s \ {FirstOf(s)}]]

LEMMA OneLess ==
  ASSUME NEW S, IsFiniteSet(S), NEW s \in SUBSET S, s # {}
  PROVE  /\ FirstOf(s) \in s /\ s \ {FirstOf(s)} \in SUBSET S
         /\ Cardinality(s) \in Nat \ {0}
         /\ Cardinality(s \ {FirstOf(s)}) = Cardinality(s) - 1
<1>1. FirstOf(s) \in s
  BY DEF FirstOf
<1>2. IsFiniteSet(s)
  BY FS_Subset
<1>3. Cardinality(s) \in Nat \ {0}
  BY <1>2, FS_CardinalityType, FS_EmptySet
<1> QED
  BY <1>1, <1>2, <1>3, FS_RemoveElement

LEMMA SumsExist ==
  ASSUME NEW S, IsFiniteSet(S), NEW v
  PROVE  \E f : Sums(f, v, SUBSET S)
<1> DEFINE Bad == {n \in Nat : ~\E f : Sums(f, v, UpTo(S, n))}
<1>1. Bad = {}
  <2> SUFFICES ASSUME Bad # {} PROVE FALSE
    OBVIOUS
  <2>1. PICK n \in Bad : \A k \in Bad : n <= k
    BY LeastIn
  <2>2. n \in Nat /\ ~\E f : Sums(f, v, UpTo(S, n))
    BY <2>1
  <2>3. CASE n = 0
    <3> DEFINE f == [s \in UpTo(S, 0) |-> 0]
    <3>1. ASSUME NEW s \in UpTo(S, 0), s # {} PROVE FALSE
      <4>1. s \in SUBSET S /\ Cardinality(s) <= 0
        BY DEF UpTo
      <4>2. Cardinality(s) \in Nat \ {0}
        BY <3>1, <4>1, OneLess
      <4> QED
        BY <4>1, <4>2
    <3>2. f = [s \in UpTo(S, 0) |-> IF s = {} THEN 0 ELSE v[FirstOf(s)] + f[s \ {FirstOf(s)}]]
      BY <3>1
    <3> QED
      BY <2>2, <2>3, <3>2 DEF Sums
  <2>4. CASE n # 0
    <3>1. n - 1 \in Nat /\ ~(n <= n - 1)
      BY <2>2, <2>4
    <3>2. PICK f : Sums(f, v, UpTo(S, n - 1))
      BY <2>1, <3>1
    <3> DEFINE g == [s \in UpTo(S, n) |-> IF s = {} THEN 0 ELSE v[FirstOf(s)] + f[s \ {FirstOf(s)}]]
    <3>3. \A s \in UpTo(S, n - 1) : s \in UpTo(S, n) /\ g[s] = f[s]
      <4> TAKE s \in UpTo(S, n - 1)
      <4>1. Cardinality(s) \in Nat
        BY FS_Subset, FS_CardinalityType DEF UpTo
      <4>2. s \in UpTo(S, n)
        BY <2>2, <4>1 DEF UpTo
      <4> QED
        BY <3>2, <4>2 DEF Sums
    <3>4. \A s \in UpTo(S, n) : s # {} => s \ {FirstOf(s)} \in UpTo(S, n - 1)
      BY <2>2, OneLess DEF UpTo
    <3>5. \A s \in UpTo(S, n) : s # {} => g[s \ {FirstOf(s)}] = f[s \ {FirstOf(s)}]
      BY <3>3, <3>4
    <3>6. Sums(g, v, UpTo(S, n))
      BY <3>5 DEF Sums
    <3> QED
      BY <2>2, <3>6
  <2> QED
    BY <2>3, <2>4
<1>2. Cardinality(S) \in Nat /\ UpTo(S, Cardinality(S)) = SUBSET S
  BY FS_CardinalityType, FS_Subset DEF UpTo
<1>3. \A n \in Nat : \E f : Sums(f, v, UpTo(S, n))
  BY <1>1
<1> QED
  BY <1>2, <1>3

LEMMA AllSumsNatural ==
  ASSUME NEW S, IsFiniteSet(S), NEW v \in [S -> Nat], NEW f, Sums(f, v, SUBSET S)
  PROVE  \A s \in SUBSET S : f[s] \in Nat
<1> SUFFICES ASSUME NEW s \in SUBSET S PROVE f[s] \in Nat
  OBVIOUS
<1> DEFINE Bad == {n \in Nat : \E t \in SUBSET S : Cardinality(t) = n /\ f[t] \notin Nat}
<1>1. Bad = {}
  <2> SUFFICES ASSUME Bad # {} PROVE FALSE
    OBVIOUS
  <2>1. PICK n \in Bad : \A k \in Bad : n <= k
    BY LeastIn
  <2>2. PICK t \in SUBSET S : Cardinality(t) = n /\ f[t] \notin Nat
    BY <2>1
  <2>3. f[t] = IF t = {} THEN 0 ELSE v[FirstOf(t)] + f[t \ {FirstOf(t)}]
    BY DEF Sums
  <2>4. t # {} /\ f[t] = v[FirstOf(t)] + f[t \ {FirstOf(t)}]
    BY <2>2, <2>3
  <2> DEFINE rest == t \ {FirstOf(t)}
  <2>5. FirstOf(t) \in S /\ rest \in SUBSET S /\ n \in Nat /\ Cardinality(rest) = n - 1 /\ n - 1 \in Nat
    BY <2>2, <2>4, OneLess
  <2>6. n - 1 \notin Bad
    BY <2>1, <2>5
  <2>7. f[rest] \in Nat
    BY <2>5, <2>6
  <2>8. v[FirstOf(t)] \in Nat
    BY <2>5
  <2> QED
    BY <2>2, <2>4, <2>7, <2>8
<1>2. Cardinality(s) \in Nat
  BY FS_Subset, FS_CardinalityType
<1> QED
  BY <1>1, <1>2

(* The overall score is the sum over the dimensions.                       *)
LEMMA OverallNatural ==
  ASSUME Experiments!TuningAssumption, NEW scores \in [Dimensions -> Nat]
  PROVE  Experiments!Overall(scores) \in Nat
<1>1. IsFiniteSet(Dimensions)
  BY DEF Experiments!TuningAssumption, Experiments!IsFiniteSet, IsFiniteSet
<1>2. PICK f : Sums(f, scores, SUBSET Dimensions)
  BY <1>1, SumsExist
<1> DEFINE Adds(g) == g = [s \in SUBSET Dimensions |->
                 IF s = {} THEN 0 ELSE scores[CHOOSE x \in s : TRUE] + g[s \ {CHOOSE x \in s : TRUE}]]
<1>3. Adds(f)
  BY <1>2 DEF Sums, FirstOf
<1>4. Experiments!Overall(scores) = (CHOOSE g : Adds(g))[Dimensions]
  BY DEF Experiments!Overall, Experiments!MapThenSumSet, Experiments!MapThenFoldSet
<1>5. Adds(CHOOSE g : Adds(g))
  <2> HIDE DEF Adds
  <2> QED
    BY <1>3
<1>6. Sums(CHOOSE g : Adds(g), scores, SUBSET Dimensions)
  BY <1>5 DEF Sums, FirstOf
<1> QED
  BY <1>1, <1>4, <1>6, AllSumsNatural

-----------------------------------------------------------------------------
Snapshots == [scores : [Dimensions -> Nat], measured : Nat, config : Nat]
ScoreOf(snapshot) == Experiments!Overall(snapshot.scores)

(* The configuration that the iteration i with the snapshot x goes on with.  *)
MadeBy(x, i) == IF Experiments!CanOptimize(x.scores) THEN i ELSE x.measured

(* The best is the score of an iteration that lies at least as far back as *)
(* the patience says, and its configuration is what that one made; or      *)
(* there is none, and no score above 0.                                    *)
FoundBest(s, best, config, patience) ==
  /\ \A i \in 1..Len(s) : ScoreOf(s[i]) <= best
  /\ IF config = None THEN best = 0
     ELSE \E i \in 1..(Len(s) - patience) : ScoreOf(s[i]) = best /\ MadeBy(s[i], i) = config

TuningIInv ==
  /\ Experiments!TuningAssumption
  /\ tuning = [config |-> tuning.config, best |-> tuning.best, bestConfig |-> tuning.bestConfig,
               previous |-> tuning.previous, patience |-> tuning.patience,
               snapshots |-> tuning.snapshots, drifted |-> tuning.drifted, end |-> tuning.end]
  /\ tuning.snapshots \in Seq(Snapshots)
  /\ tuning.config \in Nat /\ tuning.best \in Nat /\ tuning.bestConfig \in Nat \cup {None}
  /\ tuning.patience \in 0..Len(tuning.snapshots)
  /\ FoundBest(tuning.snapshots, tuning.best, tuning.bestConfig, tuning.patience)
  /\ IF tuning.bestConfig = None
     THEN tuning.snapshots # <<>> =>
            tuning.config = MadeBy(tuning.snapshots[Len(tuning.snapshots)], Len(tuning.snapshots))
     ELSE tuning.end # "no" => tuning.config = tuning.bestConfig
  /\ tuning.end = "converged" => tuning.patience >= Patience

LEMMA TuningStarts == Experiments!TuningAssumption /\ Experiments!Init => TuningIInv
<1> SUFFICES ASSUME Experiments!TuningAssumption, Experiments!Init PROVE TuningIInv
  OBVIOUS
<1>1. tuning = [config |-> 0, best |-> 0, bestConfig |-> None, previous |-> 0, patience |-> 0,
                snapshots |-> <<>>, drifted |-> FALSE, end |-> "no"]
  BY DEF Experiments!Init
<1>2. <<>> \in Seq(Snapshots) /\ Len(<<>>) = 0
  BY EmptySeq
<1> QED
  BY <1>1, <1>2 DEF TuningIInv, FoundBest

(* One iteration more.                                                     *)
LEMMA BestFound ==
  ASSUME Experiments!TuningAssumption, NEW s \in Seq(Snapshots), NEW x \in Snapshots, NEW best \in Nat, NEW config,
         NEW patience \in 0..Len(s), FoundBest(s, best, config, patience),
         MadeBy(x, Len(s) + 1) # None
  PROVE  /\ Append(s, x) \in Seq(Snapshots) /\ Len(Append(s, x)) = Len(s) + 1
         /\ ScoreOf(x) \in Nat
         /\ ScoreOf(x) > best => FoundBest(Append(s, x), ScoreOf(x), MadeBy(x, Len(s) + 1), 0)
         /\ ~(ScoreOf(x) > best) => /\ FoundBest(Append(s, x), best, config, patience + 1)
                                    /\ FoundBest(Append(s, x), best, config, 0)
<1> DEFINE t == Append(s, x)  n == Len(s)
<1>1. t \in Seq(Snapshots) /\ Len(t) = n + 1 /\ n \in Nat /\ t[n + 1] = x
      /\ \A i \in 1..n : t[i] = s[i] /\ s[i] \in Snapshots
  BY AppendProperties, ElementOfSeq
<1>2. ScoreOf(x) \in Nat /\ \A i \in 1..n : ScoreOf(s[i]) \in Nat
  <2>1. \A y \in Snapshots : ScoreOf(y) \in Nat
    BY OverallNatural DEF Snapshots, ScoreOf
  <2> QED
    BY <1>1, <2>1
<1>3. CASE ScoreOf(x) > best
  <2>1. \A i \in 1..Len(t) : ScoreOf(t[i]) <= ScoreOf(x)
    <3> SUFFICES ASSUME NEW i \in 1..(n + 1) PROVE ScoreOf(t[i]) <= ScoreOf(x)
      BY <1>1
    <3>1. CASE i = n + 1
      BY <1>1, <1>2, <3>1
    <3>2. CASE i # n + 1
      <4>1. i \in 1..n
        BY <1>1, <3>2
      <4> HIDE DEF t, n
      <4>2. t[i] = s[i] /\ ScoreOf(s[i]) <= best /\ ScoreOf(s[i]) \in Nat
        BY <1>1, <1>2, <4>1 DEF FoundBest, n
      <4> QED
        BY <1>2, <1>3, <4>2
    <3> QED
      BY <3>1, <3>2
  <2>2. n + 1 \in 1..(Len(t) - 0) /\ t[n + 1] = x
    BY <1>1
  <2>3. FoundBest(t, ScoreOf(x), MadeBy(x, n + 1), 0)
    <3>1. MadeBy(x, n + 1) # None
      OBVIOUS
    <3> HIDE DEF t, n
    <3> QED
      BY <2>1, <2>2, <3>1 DEF FoundBest
  <2> QED
    BY <1>1, <1>2, <1>3, <2>3
<1>4. CASE ~(ScoreOf(x) > best)
  <2>1. \A i \in 1..Len(t) : ScoreOf(t[i]) <= best
    <3> SUFFICES ASSUME NEW i \in 1..(n + 1) PROVE ScoreOf(t[i]) <= best
      BY <1>1
    <3>1. CASE i = n + 1
      BY <1>1, <1>2, <1>4, <3>1
    <3>2. CASE i # n + 1
      <4>1. i \in 1..n
        BY <1>1, <3>2
      <4> HIDE DEF t, n
      <4> QED
        BY <1>1, <4>1 DEF FoundBest, n
    <3> QED
      BY <3>1, <3>2
  <2>2. ASSUME NEW i \in 1..(n - patience), ScoreOf(s[i]) = best, MadeBy(s[i], i) = config
        PROVE  /\ i \in 1..(Len(t) - (patience + 1)) /\ i \in 1..(Len(t) - 0)
               /\ ScoreOf(t[i]) = best /\ MadeBy(t[i], i) = config
    <3>1. i \in 1..n
      BY <1>1, <2>2
    <3>2. t[i] = s[i]
      BY <1>1, <3>1
    <3> HIDE DEF t, n
    <3> QED
      BY <1>1, <2>2, <3>1, <3>2
  <2>3. FoundBest(t, best, config, patience + 1) /\ FoundBest(t, best, config, 0)
    <3>1. IF config = None THEN best = 0
          ELSE \E i \in 1..(n - patience) : ScoreOf(s[i]) = best /\ MadeBy(s[i], i) = config
      BY DEF FoundBest
    <3> HIDE DEF t, n
    <3> QED
      BY <2>1, <2>2, <3>1 DEF FoundBest
  <2> QED
    BY <1>1, <1>2, <1>4, <2>3
<1> QED
  BY <1>3, <1>4

LEMMA Iterated ==
  ASSUME TuningIInv, NEW scores \in [Dimensions -> Levels], Experiments!Iterate(scores)
  PROVE  TuningIInv'
<1> DEFINE s == tuning.snapshots
           n == Len(s) + 1
           overall == Experiments!Overall(scores)
           config == IF Experiments!CanOptimize(scores) THEN n ELSE tuning.config
           x == [scores |-> scores, measured |-> tuning.config, config |-> config]
           better == overall > tuning.best
<1>1. s \in Seq(Snapshots) /\ Len(s) \in Nat /\ n \in Nat /\ tuning.config \in Nat /\ tuning.best \in Nat
      /\ tuning.bestConfig \in Nat \cup {None} /\ None \notin Nat /\ tuning.patience \in 0..Len(s)
  BY DEF TuningIInv, Experiments!TuningAssumption
<1>2. scores \in [Dimensions -> Nat] /\ config \in Nat /\ x \in Snapshots /\ ScoreOf(x) = overall
      /\ MadeBy(x, n) = config
  BY <1>1 DEF TuningIInv, Experiments!TuningAssumption, Snapshots, ScoreOf, MadeBy
<1>3. /\ Append(s, x) \in Seq(Snapshots) /\ Len(Append(s, x)) = n
      /\ overall \in Nat
      /\ better => FoundBest(Append(s, x), overall, config, 0)
      /\ ~better => /\ FoundBest(Append(s, x), tuning.best, tuning.bestConfig, tuning.patience + 1)
                    /\ FoundBest(Append(s, x), tuning.best, tuning.bestConfig, 0)
  <2>1. FoundBest(s, tuning.best, tuning.bestConfig, tuning.patience) /\ Experiments!TuningAssumption
    BY DEF TuningIInv
  <2> HIDE DEF s, x, config, overall
  <2> QED
    BY <1>1, <1>2, <2>1, BestFound
<1>4. PICK stuck \in BOOLEAN, back \in BOOLEAN, last \in BOOLEAN :
        /\ stuck => ~better
        /\ back => stuck
        /\ (IF stuck THEN tuning.patience + 1 ELSE 0) >= Patience => last
        /\ tuning' = [best |-> IF better THEN overall ELSE tuning.best,
                      bestConfig |-> IF better THEN config ELSE tuning.bestConfig,
                      config |-> IF last \/ back
                                THEN Experiments!Configured(IF better THEN config ELSE tuning.bestConfig, config)
                                ELSE config,
                      previous |-> overall, patience |-> IF stuck THEN tuning.patience + 1 ELSE 0,
                      snapshots |-> Append(s, x),
                      drifted |-> tuning'.drifted,
                      end |-> IF (IF stuck THEN tuning.patience + 1 ELSE 0) >= Patience THEN "converged"
                              ELSE IF last THEN "ended" ELSE "no"]
  <2> DEFINE improvement == IF n = 1 THEN 0 ELSE overall - tuning.previous
             stuck == ~better /\ improvement <= Experiments!Points(Threshold)
             back == stuck /\ improvement < -Experiments!Points(2)
             last == (IF stuck THEN tuning.patience + 1 ELSE 0) >= Patience \/ n = MaxIterations
  <2>1. stuck \in BOOLEAN /\ back \in BOOLEAN /\ last \in BOOLEAN
    OBVIOUS
  <2>2. (stuck => ~better) /\ (back => stuck) /\ ((IF stuck THEN tuning.patience + 1 ELSE 0) >= Patience => last)
    OBVIOUS
  <2>3. tuning' = [best |-> IF better THEN overall ELSE tuning.best,
                      bestConfig |-> IF better THEN config ELSE tuning.bestConfig,
                      config |-> IF last \/ back
                                THEN Experiments!Configured(IF better THEN config ELSE tuning.bestConfig, config)
                                ELSE config,
                      previous |-> overall, patience |-> IF stuck THEN tuning.patience + 1 ELSE 0,
                      snapshots |-> Append(s, x),
                      drifted |-> n > 1 /\ Experiments!Drifted(s[1].scores, scores),
                      end |-> IF (IF stuck THEN tuning.patience + 1 ELSE 0) >= Patience THEN "converged"
                              ELSE IF last THEN "ended" ELSE "no"]
    BY Zenon DEF Experiments!Iterate
  <2> HIDE DEF improvement, stuck, back, last, better, overall, config, x, s
  <2>4. tuning'.drifted = (n > 1 /\ Experiments!Drifted(s[1].scores, scores))
    BY <2>3
  <2>5. tuning' = [best |-> IF better THEN overall ELSE tuning.best,
                      bestConfig |-> IF better THEN config ELSE tuning.bestConfig,
                      config |-> IF last \/ back
                                THEN Experiments!Configured(IF better THEN config ELSE tuning.bestConfig, config)
                                ELSE config,
                      previous |-> overall, patience |-> IF stuck THEN tuning.patience + 1 ELSE 0,
                      snapshots |-> Append(s, x),
                      drifted |-> tuning'.drifted,
                      end |-> IF (IF stuck THEN tuning.patience + 1 ELSE 0) >= Patience THEN "converged"
                              ELSE IF last THEN "ended" ELSE "no"]
    BY <2>3, <2>4, Zenon
  <2> QED
    BY <2>1, <2>2, <2>5, Zenon
<1> HIDE DEF better, overall, config, x, s
<1>5. better \in BOOLEAN /\ Patience \in Nat
  BY DEF TuningIInv, Experiments!TuningAssumption, better
<1>6. /\ tuning' = [config |-> tuning'.config, best |-> tuning'.best, bestConfig |-> tuning'.bestConfig,
               previous |-> tuning'.previous, patience |-> tuning'.patience,
               snapshots |-> tuning'.snapshots, drifted |-> tuning'.drifted, end |-> tuning'.end]
      /\ tuning'.snapshots = Append(s, x)
      /\ tuning'.best = IF better THEN overall ELSE tuning.best
      /\ tuning'.bestConfig = IF better THEN config ELSE tuning.bestConfig
      /\ tuning'.config = IF last \/ back THEN Experiments!Configured(tuning'.bestConfig, config) ELSE config
      /\ tuning'.patience = IF stuck THEN tuning.patience + 1 ELSE 0
      /\ tuning'.end = IF tuning'.patience >= Patience THEN "converged" ELSE IF last THEN "ended" ELSE "no"
  BY <1>4
<1>7. FoundBest(Append(s, x), tuning'.best, tuning'.bestConfig, tuning'.patience)
  BY <1>3, <1>4, <1>5, <1>6
<1>8. tuning'.patience \in 0..Len(tuning'.snapshots)
  BY <1>1, <1>3, <1>6
<1>9. tuning'.snapshots[Len(tuning'.snapshots)] = x /\ Len(tuning'.snapshots) = n
  BY <1>1, <1>2, <1>3, <1>6, AppendProperties
<1>10. IF tuning'.bestConfig = None
       THEN tuning'.config = MadeBy(tuning'.snapshots[Len(tuning'.snapshots)], Len(tuning'.snapshots))
       ELSE tuning'.end # "no" => tuning'.config = tuning'.bestConfig
  BY <1>2, <1>4, <1>6, <1>9 DEF Experiments!Configured
<1>11. /\ tuning'.snapshots \in Seq(Snapshots)
       /\ tuning'.config \in Nat /\ tuning'.best \in Nat /\ tuning'.bestConfig \in Nat \cup {None}
  <2>1. tuning'.best \in Nat /\ tuning'.bestConfig \in Nat \cup {None}
    BY <1>1, <1>2, <1>3, <1>6
  <2>2. tuning'.config \in Nat
    BY <1>2, <1>6, <2>1 DEF Experiments!Configured
  <2> QED
    BY <1>3, <1>6, <2>1, <2>2
<1>12. tuning'.end = "converged" => tuning'.patience >= Patience
  BY <1>6
<1>13. Experiments!TuningAssumption'
  BY DEF TuningIInv, Experiments!TuningAssumption
<1> QED
  BY <1>6, <1>7, <1>8, <1>10, <1>11, <1>12, <1>13, Zenon DEF TuningIInv

LEMMA TuningSteps == TuningIInv /\ [Experiments!Next]_(Experiments!vars) => TuningIInv'
<1> SUFFICES ASSUME TuningIInv, [Experiments!Next]_(Experiments!vars) PROVE TuningIInv'
  OBVIOUS
<1>1. CASE UNCHANGED tuning
  BY <1>1 DEF TuningIInv
<1>2. CASE \E scores \in [Dimensions -> Levels] : Experiments!Iterate(scores)
  BY <1>2, Iterated
<1>3. CASE Experiments!NothingEvaluated
  <2>1. tuning' = [tuning EXCEPT !.config = Experiments!Configured(tuning.bestConfig, tuning.config),
                                 !.end = IF tuning.snapshots = <<>> THEN "failed" ELSE "ended"]
    BY <1>3 DEF Experiments!NothingEvaluated
  <2> QED
    BY <2>1 DEF TuningIInv, Experiments!Configured, Experiments!TuningAssumption
<1>4. \/ UNCHANGED tuning
      \/ \E scores \in [Dimensions -> Levels] : Experiments!Iterate(scores)
      \/ Experiments!NothingEvaluated
  BY DEF Experiments!Next, Experiments!vars, Experiments!CreateExperiment, Experiments!UpdateConfig,
     Experiments!AssignVariant, Experiments!Assign, Experiments!RecordObservation, Experiments!Stop,
     Experiments!DeleteExperiment, Experiments!ResetCounters, Experiments!Build, Experiments!Load,
     Experiments!Split, Experiments!RecordAnswer, Experiments!Check, Experiments!Tick, Experiments!Apart
<1> QED
  BY <1>1, <1>2, <1>3, <1>4

LEMMA TuningHolds == TuningIInv => Experiments!LoopEndsAtItsBest
<1> SUFFICES ASSUME TuningIInv PROVE Experiments!LoopEndsAtItsBest
  OBVIOUS
<1> DEFINE s == tuning.snapshots
           all == {ScoreOf(s[i]) : i \in 1..Len(s)}
<1>0. s \in Seq(Snapshots) /\ DOMAIN s = 1..Len(s) /\ Len(s) \in Nat /\ \A i \in 1..Len(s) : s[i] \in Snapshots
  BY ElementOfSeq DEF TuningIInv
<1>1. \A i \in 1..Len(s) : ScoreOf(s[i]) \in Nat /\ ScoreOf(s[i]) <= tuning.best
  BY <1>0, OverallNatural DEF TuningIInv, FoundBest, ScoreOf, Snapshots
<1>2. tuning.best \in Nat /\ tuning.patience \in Nat /\ Patience \in Nat
  BY <1>0 DEF TuningIInv, Experiments!TuningAssumption
<1>3. IF tuning.bestConfig = None THEN tuning.best = 0
      ELSE \E i \in 1..(Len(s) - tuning.patience) :
              ScoreOf(s[i]) = tuning.best /\ MadeBy(s[i], i) = tuning.bestConfig
  BY DEF TuningIInv, FoundBest
<1>4. tuning.best \in all \cup {0} /\ \A y \in all \cup {0} : y \in Nat /\ tuning.best >= y
  BY <1>0, <1>1, <1>2, <1>3
<1>5. tuning.best = Experiments!Max(all \cup {0})
  <2> HIDE DEF all
  <2> QED
    BY <1>2, <1>4 DEF Experiments!Max
<1>6. tuning.bestConfig # None => \E i \in 1..Len(s) :
         ScoreOf(s[i]) = tuning.best /\ MadeBy(s[i], i) = tuning.bestConfig
  BY <1>0, <1>2, <1>3
<1>7. tuning.end = "converged" /\ tuning.best > 0 =>
         \E i \in 1..(Len(s) - Patience) : ScoreOf(s[i]) = tuning.best
  BY <1>0, <1>2, <1>3 DEF TuningIInv
<1>8. Experiments!Improvement >= 0
  <2>1. CASE s = <<>>
    BY <1>2, <2>1 DEF Experiments!Improvement
  <2>2. CASE s # <<>>
    <3>1. 1 \in 1..Len(s)
      BY <1>0, <2>2, EmptySeq
    <3>2. ScoreOf(s[1]) \in Nat /\ ScoreOf(s[1]) <= tuning.best
      BY <1>1, <3>1
    <3> QED
      BY <1>2, <2>2, <3>2 DEF Experiments!Improvement, ScoreOf
  <2> QED
    BY <2>1, <2>2
<1>9. IF tuning.bestConfig = None THEN Len(s) > 0 => tuning.config = MadeBy(s[Len(s)], Len(s))
      ELSE tuning.end # "no" => tuning.config = tuning.bestConfig
  BY <1>0, EmptySeq DEF TuningIInv
<1>10. all = {Experiments!Overall(tuning.snapshots[i].scores) : i \in 1..Len(s)}
  BY DEF ScoreOf
<1>11. \A i \in 1..Len(s) : MadeBy(s[i], i) = Experiments!After(i)
  BY DEF MadeBy, Experiments!After
<1>12. Len(s) > 0 => Len(s) \in 1..Len(s)
  BY <1>0
<1> QED
  BY <1>3, <1>5, <1>6, <1>7, <1>8, <1>9, <1>10, <1>11, <1>12 DEF Experiments!LoopEndsAtItsBest, ScoreOf

(* However the scores of a tuning loop go, the best score it reports is    *)
(* the best that was measured, and it gives up only after so many          *)
(* iterations without a better one.  It leaves the pipeline with the       *)
(* configuration it reports, which is the one made right after the best    *)
(* measurement and never measured by it, unless there was nothing to tune; *)
(* with no score above 0 it reports none and leaves the last one made.     *)
THEOREM TuningEnds ==
  Experiments!TuningAssumption => (Experiments!Spec => []Experiments!LoopEndsAtItsBest)
BY TuningStarts, TuningSteps, TuningHolds, PTL DEF Experiments!Spec

-----------------------------------------------------------------------------
(***************************************************************************)
(* The answers that are cached in layers, by themselves as well.           *)
(***************************************************************************)
CONSTANTS Callers, MaxRetries, Documents, ChunkSize, ChunkOverlap, MaxLength,
          BatchSize, MaxQueue, MaxTasks, Queries, Askers, Ttl1, Ttl2, MaxSize1, MaxSize2, EmbedTime
VARIABLES ragKeeps, texts, embedding, documents, stored, keys, rows, queue,
          actions, attempts, batches, dropped, cacheTime, l1, l2, l4, pending,
          served

RagIndex == INSTANCE RagIndex WITH keeps <- ragKeeps, now <- cacheTime

(* An answer in a layer was put there no later after it was made than what *)
(* came before took.                                                       *)
AnswersWithin(span) ==
  {e \in [query : Queries, made : Nat, at : Nat] : e.at <= e.made + span}

(* A call that embeds a query has done so for no longer than that takes.   *)
Embeds(p, t) ==
  p.call # "idle" => p.query \in Queries /\ p.since \in Nat /\ t <= p.since + EmbedTime

CacheIInv ==
  /\ RagIndex!CacheAssumption
  /\ cacheTime \in Nat
  /\ l1 \in Seq(AnswersWithin(EmbedTime + Ttl2))
  /\ l2 \in Seq(AnswersWithin(EmbedTime))
  /\ DOMAIN pending = Askers /\ \A c \in Askers : Embeds(pending[c], cacheTime)
  /\ served \in Int /\ RagIndex!AgeBounded

LEMMA CacheStarts == RagIndex!CacheAssumption /\ RagIndex!Init => CacheIInv
BY EmptySeq
DEF RagIndex!Init, CacheIInv, Embeds, RagIndex!Idle, RagIndex!AgeBounded, RagIndex!CacheAssumption

(* What is left without a query, without the first answer or without those *)
(* whose time is over is of what there was.                                *)
LEMMA LeftOver ==
  ASSUME NEW S, NEW s \in Seq(S)
  PROVE  /\ \A i \in DOMAIN s : s[i] \in S
         /\ \A q : RagIndex!Without(s, q) \in Seq(S)
         /\ \A n \in Nat : SubSeq(s, n + 1, Len(s)) \in Seq(S)
         /\ \A n \in Nat \ {0} : (IF Len(s) >= n THEN Tail(s) ELSE s) \in Seq(S)
<1>1. DOMAIN s = 1..Len(s) /\ Len(s) \in Nat /\ \A i \in 1..Len(s) : s[i] \in S
  BY ElementOfSeq
<1>2. ASSUME NEW m \in Int, NEW n \in Int, 1 <= m, n <= Len(s) PROVE SubSeq(s, m, n) \in Seq(S)
  <2>1. \A i \in m..n : s[i] \in S
    BY <1>1, <1>2
  <2> QED
    BY <2>1, SubSeqProperties
<1>3. ASSUME NEW q PROVE RagIndex!Without(s, q) \in Seq(S)
  <2>1. CASE RagIndex!Places(s, q) = {}
    BY <2>1 DEF RagIndex!Without
  <2>2. CASE RagIndex!Places(s, q) # {}
    <3> DEFINE P == RagIndex!Places(s, q)
               i == RagIndex!Min(P)
    <3>1. P \in SUBSET (1..Len(s))
      BY <1>1 DEF RagIndex!Places
    <3>2. \E x \in P : \A y \in P : x <= y
      BY <2>2, <3>1, LeastIn
    <3>3. i \in P
      <4> HIDE DEF P
      <4> QED
        BY <3>2 DEF RagIndex!Min
    <3>4. i \in Int /\ 1 <= i /\ i <= Len(s)
      BY <3>1, <3>3
    <3>5. RagIndex!Without(s, q) = SubSeq(s, 1, i - 1) \o SubSeq(s, i + 1, Len(s))
      BY <2>2 DEF RagIndex!Without, RagIndex!RemoveAt
    <3> HIDE DEF i
    <3>6. SubSeq(s, 1, i - 1) \in Seq(S) /\ SubSeq(s, i + 1, Len(s)) \in Seq(S)
      BY <1>1, <1>2, <3>4
    <3> QED
      BY <3>5, <3>6, ConcatProperties
  <2> QED
    BY <2>1, <2>2
<1>4. ASSUME NEW n \in Nat PROVE SubSeq(s, n + 1, Len(s)) \in Seq(S)
  BY <1>1, <1>2
<1>5. ASSUME NEW n \in Nat \ {0} PROVE (IF Len(s) >= n THEN Tail(s) ELSE s) \in Seq(S)
  <2>1. CASE s = <<>>
    BY <2>1, EmptySeq
  <2>2. CASE s # <<>>
    BY <2>2, HeadTailProperties
  <2> QED
    BY <2>1, <2>2
<1> QED
  BY <1>1, <1>3, <1>4, <1>5

(* L1 takes an answer that is made no longer ago than the embedding and a  *)
(* life in L2 take.                                                        *)
LEMMA Set1Within ==
  ASSUME CacheIInv, NEW q \in Queries, NEW made \in Nat, cacheTime <= made + (EmbedTime + Ttl2)
  PROVE  RagIndex!Set1(l1, q, made) \in Seq(AnswersWithin(EmbedTime + Ttl2))
<1> DEFINE S == AnswersWithin(EmbedTime + Ttl2)
           room == IF Len(l1) >= MaxSize1 THEN Tail(l1) ELSE l1
<1>1. room \in Seq(S)
  BY LeftOver DEF CacheIInv, RagIndex!CacheAssumption
<1>2. [query |-> q, made |-> made, at |-> cacheTime] \in S
  BY DEF CacheIInv, AnswersWithin
<1>3. RagIndex!Without(room, q) \in Seq(S)
  <2> HIDE DEF room, S
  <2> QED
    BY <1>1, LeftOver
<1>4. RagIndex!Set1(l1, q, made) = Append(RagIndex!Without(room, q), [query |-> q, made |-> made, at |-> cacheTime])
  BY DEF RagIndex!Set1
<1> HIDE DEF S, room
<1> QED
  BY <1>2, <1>3, <1>4, AppendProperties DEF S

(* An answer that is not too old may be given.                             *)
LEMMA GivenWithin ==
  ASSUME CacheIInv, NEW made \in Nat, cacheTime <= made + EmbedTime + Ttl1 + Ttl2,
         RagIndex!Oldest(made)
  PROVE  served' \in Int /\ RagIndex!AgeBounded'
<1>1. cacheTime - made \in Int /\ cacheTime - made <= EmbedTime + Ttl1 + Ttl2
  BY DEF CacheIInv, RagIndex!CacheAssumption
<1>2. served \in Int /\ served <= EmbedTime + Ttl1 + Ttl2
  BY DEF CacheIInv, RagIndex!AgeBounded
<1>3. served' = RagIndex!Max({served, cacheTime - made})
  BY DEF RagIndex!Oldest
<1>4. served' = IF served >= cacheTime - made THEN served ELSE cacheTime - made
  BY <1>1, <1>2, <1>3 DEF RagIndex!Max
<1> QED
  BY <1>1, <1>2, <1>4 DEF RagIndex!AgeBounded

LEMMA WithinSpan == \A t \in Nat : \A e \in AnswersWithin(t) :
                  e.query \in Queries /\ e.made \in Nat /\ e.at \in Nat /\ e.at <= e.made + t
BY DEF AnswersWithin

LEMMA CacheStep == CacheIInv /\ RagIndex!AnswerNext => CacheIInv'
<1> SUFFICES ASSUME CacheIInv, RagIndex!AnswerNext PROVE CacheIInv'
  OBVIOUS
<1> DEFINE S1 == AnswersWithin(EmbedTime + Ttl2)  S2 == AnswersWithin(EmbedTime)
<1>0. /\ cacheTime \in Nat /\ l1 \in Seq(S1) /\ l2 \in Seq(S2)
      /\ DOMAIN pending = Askers /\ \A c \in Askers : Embeds(pending[c], cacheTime)
      /\ served \in Int /\ RagIndex!AgeBounded
  BY DEF CacheIInv
<1>a. /\ Ttl1 \in Nat /\ Ttl2 \in Nat /\ EmbedTime \in Nat
      /\ MaxSize1 \in Nat \ {0} /\ MaxSize2 \in Nat \ {0} /\ EmbedTime + Ttl2 \in Nat
  BY DEF CacheIInv, RagIndex!CacheAssumption
<1>b. UNCHANGED served => served' \in Int /\ RagIndex!AgeBounded'
  BY <1>0 DEF RagIndex!AgeBounded
<1>c. UNCHANGED cacheTime =>
        \A c \in Askers : \A p : Embeds(p, cacheTime) /\ pending' = [pending EXCEPT ![c] = p] =>
            DOMAIN pending' = Askers /\ \A d \in Askers : Embeds(pending'[d], cacheTime')
  BY <1>0 DEF Embeds
<1>d. UNCHANGED <<cacheTime, pending>> => DOMAIN pending' = Askers /\ \A d \in Askers : Embeds(pending'[d], cacheTime')
  BY <1>0 DEF Embeds
<1>e. Embeds(RagIndex!Idle, cacheTime)
  BY DEF Embeds, RagIndex!Idle
<1>f. \A way : \A q \in Queries : Embeds([call |-> way, since |-> cacheTime, query |-> q], cacheTime)
  BY <1>0, <1>a DEF Embeds
<1> HIDE DEF S1, S2
<1>1. CASE RagIndex!Tick
  <2>1. /\ cacheTime' = cacheTime + 1 /\ UNCHANGED <<l1, l2, pending, served>>
        /\ \A c \in Askers : pending[c].call # "idle" => cacheTime < pending[c].since + EmbedTime
    BY <1>1 DEF RagIndex!Tick
  <2>2. \A c \in Askers : Embeds(pending'[c], cacheTime')
    BY <1>0, <1>a, <2>1 DEF Embeds
  <2> QED
    BY <1>0, <1>b, <2>1, <2>2 DEF CacheIInv, S1, S2
<1>2. CASE RagIndex!ClearAll
  BY <1>0, <1>b, <1>d, <1>2, EmptySeq DEF RagIndex!ClearAll, CacheIInv, S1, S2
<1>3. ASSUME NEW q \in Queries, RagIndex!Invalidate(q) PROVE CacheIInv'
  BY <1>0, <1>b, <1>d, <1>3, LeftOver DEF RagIndex!Invalidate, CacheIInv, S1, S2
<1>4. ASSUME NEW c \in Askers, NEW q \in Queries, RagIndex!Lookup(c, q) PROVE CacheIInv'
  <2>1. UNCHANGED <<cacheTime, l2>>
    BY <1>4 DEF RagIndex!Lookup
  <2>2. CASE \E i \in RagIndex!Places(l1, q) :
                /\ cacheTime - l1[i].at <= Ttl1
                /\ l1' = Append(RagIndex!Without(l1, q), l1[i])
                /\ RagIndex!Oldest(l1[i].made) /\ UNCHANGED pending
    <3>1. PICK i \in DOMAIN l1 :
                /\ cacheTime - l1[i].at <= Ttl1
                /\ l1' = Append(RagIndex!Without(l1, q), l1[i])
                /\ RagIndex!Oldest(l1[i].made) /\ UNCHANGED pending
      BY <2>2 DEF RagIndex!Places
    <3>2. l1[i] \in S1 /\ RagIndex!Without(l1, q) \in Seq(S1)
      BY <1>0, LeftOver
    <3>3. l1' \in Seq(S1)
      BY <3>1, <3>2, AppendProperties
    <3>4. l1[i].made \in Nat /\ l1[i].at \in Nat /\ l1[i].at <= l1[i].made + (EmbedTime + Ttl2)
      BY <1>a, <3>2, WithinSpan DEF S1
    <3>5. cacheTime <= l1[i].made + EmbedTime + Ttl1 + Ttl2
      <4> DEFINE at == l1[i].at
                 made == l1[i].made
      <4>1. at \in Nat /\ made \in Nat /\ at <= made + (EmbedTime + Ttl2) /\ cacheTime - at <= Ttl1
        BY <3>1, <3>4
      <4> HIDE DEF at, made
      <4>2. cacheTime <= made + EmbedTime + Ttl1 + Ttl2
        BY <1>0, <1>a, <4>1
      <4> QED
        BY <4>2 DEF made
    <3>6. served' \in Int /\ RagIndex!AgeBounded'
      BY <3>1, <3>4, <3>5, GivenWithin
    <3> QED
      BY <1>0, <1>d, <2>1, <3>1, <3>3, <3>6 DEF CacheIInv, S1, S2
  <2>3. CASE /\ l1' = RagIndex!Without(l1, q) /\ UNCHANGED served
             /\ pending' = [pending EXCEPT ![c] = [call |-> "lookup", since |-> cacheTime, query |-> q]]
    <3>1. l1' \in Seq(S1)
      BY <1>0, <2>3, LeftOver
    <3> QED
      BY <1>0, <1>b, <1>c, <1>f, <2>1, <2>3, <3>1 DEF CacheIInv, S1, S2
  <2> QED
    BY <1>4, <2>2, <2>3 DEF RagIndex!Lookup
<1>5. ASSUME NEW c \in Askers, NEW q \in Queries, RagIndex!Store(c, q) PROVE CacheIInv'
  <2>1. l1' = RagIndex!Set1(l1, q, cacheTime) /\ UNCHANGED <<cacheTime, l2, served>>
    BY <1>5 DEF RagIndex!Store
  <2>2. l1' \in Seq(S1)
    BY <1>0, <1>a, <2>1, Set1Within DEF S1
  <2>3. \/ UNCHANGED pending
        \/ pending' = [pending EXCEPT ![c] = [call |-> "store", since |-> cacheTime, query |-> q]]
    BY <1>5 DEF RagIndex!Store
  <2> QED
    BY <1>0, <1>b, <1>c, <1>d, <1>f, <2>1, <2>2, <2>3 DEF CacheIInv, S1, S2
<1>6. ASSUME NEW c \in Askers, RagIndex!LookupEnds(c) PROVE CacheIInv'
  <2> DEFINE q == pending[c].query
  <2>1. pending[c].call = "lookup" /\ UNCHANGED cacheTime /\ l2' = RagIndex!Fresh2
        /\ pending' = [pending EXCEPT ![c] = RagIndex!Idle]
    BY <1>6 DEF RagIndex!LookupEnds
  <2>2. q \in Queries
    BY <1>0, <2>1 DEF Embeds
  <2>3. l2' \in Seq(S2)
    <3> DEFINE old == {i \in DOMAIN l2 : cacheTime - l2[i].at > Ttl2}
    <3>1. l2' = SubSeq(l2, RagIndex!Cardinality(old) + 1, Len(l2))
      BY <2>1 DEF RagIndex!Fresh2
    <3>2. Cardinality(old) \in Nat
      <4>1. old \in SUBSET (1..Len(l2)) /\ Len(l2) \in Nat
        BY <1>0
      <4>2. IsFiniteSet(1..Len(l2))
        BY <4>1, FS_Interval
      <4> HIDE DEF old
      <4> QED
        BY <4>1, <4>2, FS_Subset, FS_CardinalityType
    <3>3. RagIndex!Cardinality(old) = Cardinality(old)
      BY DEF RagIndex!Cardinality, Cardinality
    <3> HIDE DEF old
    <3> QED
      BY <1>0, <3>1, <3>2, <3>3, LeftOver
  <2>4. CASE \E e \in RagIndex!Found2 : l1' = RagIndex!Set1(l1, q, e.made) /\ RagIndex!Oldest(e.made)
    <3>1. PICK e \in RagIndex!Found2 : l1' = RagIndex!Set1(l1, q, e.made) /\ RagIndex!Oldest(e.made)
      BY <2>4
    <3>2. PICK i \in DOMAIN l2 : e = l2[i] /\ cacheTime - e.at <= Ttl2
      BY <3>1 DEF RagIndex!Found2, RagIndex!ToSet
    <3>3. e \in S2
      BY <1>0, <3>2, LeftOver
    <3>4. e.made \in Nat /\ e.at \in Nat /\ e.at <= e.made + EmbedTime
      BY <1>a, <3>3, WithinSpan DEF S2
    <3>5. cacheTime <= e.made + (EmbedTime + Ttl2) /\ cacheTime <= e.made + EmbedTime + Ttl1 + Ttl2
      <4>1. PICK made \in Nat, at \in Nat : made = e.made /\ at = e.at
        BY <3>4
      <4>2. cacheTime \in Nat /\ EmbedTime \in Nat /\ Ttl1 \in Nat /\ Ttl2 \in Nat
        BY <1>0, <1>a
      <4>3. cacheTime - at <= Ttl2 /\ at <= made + EmbedTime
        BY <3>2, <3>4, <4>1
      <4>4. cacheTime <= made + (EmbedTime + Ttl2) /\ cacheTime <= made + EmbedTime + Ttl1 + Ttl2
        BY <4>2, <4>3
      <4> QED
        BY <4>1, <4>4
    <3>6. l1' \in Seq(S1)
      BY <2>2, <3>1, <3>4, <3>5, Set1Within DEF S1
    <3>7. served' \in Int /\ RagIndex!AgeBounded'
      BY <3>1, <3>4, <3>5, GivenWithin
    <3> QED
      BY <1>0, <1>c, <1>e, <2>1, <2>3, <3>6, <3>7 DEF CacheIInv, S1, S2
  <2>5. CASE l1' = RagIndex!Set1(l1, q, cacheTime) /\ UNCHANGED served
    <3>1. l1' \in Seq(S1)
      BY <1>0, <1>a, <2>2, <2>5, Set1Within DEF S1
    <3> QED
      BY <1>0, <1>b, <1>c, <1>e, <2>1, <2>3, <2>5, <3>1 DEF CacheIInv, S1, S2
  <2>6. CASE UNCHANGED <<l1, served>>
    BY <1>0, <1>b, <1>c, <1>e, <2>1, <2>3, <2>6 DEF CacheIInv, S1, S2
  <2> QED
    BY <1>6, <2>4, <2>5, <2>6 DEF RagIndex!LookupEnds
<1>7. ASSUME NEW c \in Askers, RagIndex!StoreEnds(c) PROVE CacheIInv'
  <2> DEFINE e == [query |-> pending[c].query, made |-> pending[c].since, at |-> cacheTime]
             room == IF Len(l2) >= MaxSize2 THEN Tail(l2) ELSE l2
  <2>1. pending[c].call = "store" /\ UNCHANGED <<cacheTime, l1, served>> /\ l2' = Append(room, e)
        /\ pending' = [pending EXCEPT ![c] = RagIndex!Idle]
    BY <1>7 DEF RagIndex!StoreEnds
  <2>2. e \in S2
    BY <1>0, <2>1 DEF Embeds, AnswersWithin, S2
  <2>3. room \in Seq(S2)
    BY <1>0, <1>a, LeftOver
  <2>4. l2' \in Seq(S2)
    <3> HIDE DEF room, e
    <3> QED
      BY <2>1, <2>2, <2>3, AppendProperties
  <2> QED
    BY <1>0, <1>b, <1>c, <1>e, <2>1, <2>4 DEF CacheIInv, S1, S2
<1> QED
  BY <1>1, <1>2, <1>3, <1>4, <1>5, <1>6, <1>7 DEF RagIndex!AnswerNext

LEMMA CacheSteps == CacheIInv /\ [RagIndex!Next]_(RagIndex!vars) => CacheIInv'
<1> SUFFICES ASSUME CacheIInv, [RagIndex!Next]_(RagIndex!vars) PROVE CacheIInv'
  OBVIOUS
<1>1. CASE UNCHANGED RagIndex!answerVars
  BY <1>1 DEF CacheIInv, Embeds, RagIndex!AgeBounded, RagIndex!answerVars
<1>2. CASE RagIndex!AnswerNext
  BY <1>2, CacheStep
<1> QED
  BY <1>1, <1>2 DEF RagIndex!Next, RagIndex!vars

(* An answer that is given from a cache was made no longer ago than an     *)
(* embedding and one life in each of the layers take, however it went from *)
(* layer to layer.                                                         *)
THEOREM AnswersYoung ==
  RagIndex!CacheAssumption => (RagIndex!Spec => []RagIndex!AgeBounded)
<1>1. CacheIInv => RagIndex!AgeBounded
  BY DEF CacheIInv
<1> QED
  BY <1>1, CacheStarts, CacheSteps, PTL DEF RagIndex!Spec
-----------------------------------------------------------------------------
(* The tasks of the index, which callers take from the queue in batches.   *)

(* A sum changes by what one of its members changes by.                    *)
LEMMA SumChanges ==
  ASSUME NEW S, IsFiniteSet(S), NEW v \in [S -> Nat], NEW w \in [S -> Nat],
         NEW c \in S, \A x \in S \ {c} : w[x] = v[x],
         NEW f, Sums(f, v, SUBSET S), NEW g, Sums(g, w, SUBSET S)
  PROVE  f[S] \in Nat /\ g[S] \in Nat /\ g[S] + v[c] = f[S] + w[c]
<1> DEFINE Right(t) == IF c \in t THEN g[t] + v[c] = f[t] + w[c] ELSE g[t] = f[t]
           Bad == {n \in Nat : \E t \in SUBSET S : Cardinality(t) = n /\ ~Right(t)}
<1>0. \A t \in SUBSET S : f[t] \in Nat /\ g[t] \in Nat
  BY AllSumsNatural
<1>1. Bad = {}
  <2> SUFFICES ASSUME Bad # {} PROVE FALSE
    OBVIOUS
  <2>1. PICK n \in Bad : \A k \in Bad : n <= k
    BY LeastIn
  <2>2. PICK t \in SUBSET S : Cardinality(t) = n /\ ~Right(t)
    BY <2>1
  <2> DEFINE x == FirstOf(t)
             rest == t \ {x}
  <2>3. /\ f[t] = IF t = {} THEN 0 ELSE v[x] + f[rest]
        /\ g[t] = IF t = {} THEN 0 ELSE w[x] + g[rest]
    BY DEF Sums
  <2>4. t # {}
    BY <2>2, <2>3
  <2>5. x \in t /\ rest \in SUBSET S /\ n \in Nat /\ Cardinality(rest) = n - 1 /\ n - 1 \in Nat
    BY <2>2, <2>4, OneLess
  <2>6. n - 1 \notin Bad
    BY <2>1, <2>5
  <2>7. Right(rest)
    BY <2>5, <2>6
  <2>8. v[x] \in Nat /\ w[x] \in Nat /\ v[c] \in Nat /\ w[c] \in Nat /\ (x # c => w[x] = v[x])
    BY <2>5
  <2>9. f[rest] \in Nat /\ g[rest] \in Nat /\ (c \in rest <=> c \in t /\ c # x)
    BY <1>0, <2>5
  <2> HIDE DEF x, rest
  <2>10. CASE x = c
    BY <2>2, <2>3, <2>4, <2>5, <2>7, <2>8, <2>9, <2>10
  <2>11. CASE x # c
    BY <2>2, <2>3, <2>4, <2>5, <2>7, <2>8, <2>9, <2>11
  <2> QED
    BY <2>10, <2>11
<1>2. Cardinality(S) \in Nat
  BY FS_CardinalityType
<1>3. Right(S)
  BY <1>1, <1>2
<1> QED
  BY <1>0, <1>3

LEMMA SumBounded ==
  ASSUME NEW S, IsFiniteSet(S), NEW v \in [S -> Nat], NEW b \in Nat, \A x \in S : v[x] <= b,
         NEW f, Sums(f, v, SUBSET S)
  PROVE  f[S] \in Nat /\ f[S] <= b * Cardinality(S)
<1> DEFINE Bad == {n \in Nat : \E t \in SUBSET S : Cardinality(t) = n /\ ~(f[t] <= b * n)}
<1>0. \A t \in SUBSET S : f[t] \in Nat
  BY AllSumsNatural
<1>1. Bad = {}
  <2> SUFFICES ASSUME Bad # {} PROVE FALSE
    OBVIOUS
  <2>1. PICK n \in Bad : \A k \in Bad : n <= k
    BY LeastIn
  <2>2. PICK t \in SUBSET S : Cardinality(t) = n /\ ~(f[t] <= b * n)
    BY <2>1
  <2> DEFINE x == FirstOf(t)
             rest == t \ {x}
  <2>3. f[t] = IF t = {} THEN 0 ELSE v[x] + f[rest]
    BY DEF Sums
  <2>4. t # {}
    <3>1. SUFFICES ASSUME t = {} PROVE FALSE
      OBVIOUS
    <3>2. n = 0 /\ f[t] = 0
      BY <2>2, <2>3, <3>1, FS_EmptySet
    <3> QED
      BY <2>2, <3>2
  <2>a. Cardinality(t) = n
    BY <2>2
  <2>5. x \in t /\ rest \in SUBSET S /\ n \in Nat /\ Cardinality(rest) = n - 1 /\ n - 1 \in Nat
    BY <2>4, <2>a, OneLess
  <2>6. n - 1 \notin Bad
    BY <2>1, <2>5
  <2>7. f[rest] <= b * (n - 1)
    BY <2>5, <2>6
  <2>8. v[x] \in Nat /\ v[x] <= b /\ f[rest] \in Nat
    BY <1>0, <2>5
  <2>9. b * n = (b * (n - 1)) + b /\ b * (n - 1) \in Nat /\ b * n \in Nat
    BY <2>5
  <2> HIDE DEF x, rest
  <2> QED
    BY <2>2, <2>3, <2>4, <2>7, <2>8, <2>9
<1>2. Cardinality(S) \in Nat
  BY FS_CardinalityType
<1> QED
  BY <1>0, <1>1, <1>2

(* Any tasks can be put in order.                                          *)
Ordered(s) == \A i, j \in 1..Len(s) : i < j => RagIndex!Before(s[i], s[j])
Kinds == {"delete", "update", "add"}

LEMMA Comparable ==
  ASSUME actions \in Seq(Kinds), NEW t \in 1..Len(actions), NEW u \in 1..Len(actions)
  PROVE  /\ RagIndex!Priority[actions[t]] \in 1..5
         /\ RagIndex!Before(t, u) <=>
               \/ RagIndex!Priority[actions[t]] < RagIndex!Priority[actions[u]]
               \/ (RagIndex!Priority[actions[t]] = RagIndex!Priority[actions[u]] /\ t < u)
<1>1. actions[t] \in Kinds
  OBVIOUS
<1>2. \A k \in Kinds : RagIndex!Priority[k] \in 1..5
  BY DEF Kinds, RagIndex!Priority
<1> QED
  BY <1>1, <1>2 DEF RagIndex!Before

LEMMA NotBeforeItself ==
  ASSUME actions \in Seq(Kinds)
  PROVE  \A t \in 1..Len(actions) : ~RagIndex!Before(t, t)
<1> SUFFICES ASSUME NEW t \in 1..Len(actions) PROVE ~RagIndex!Before(t, t)
  OBVIOUS
<1>1. RagIndex!Priority[actions[t]] \in 1..5 /\ t \in Int
  BY Comparable
<1> QED
  BY <1>1 DEF RagIndex!Before

LEMMA LastOf ==
  ASSUME actions \in Seq(Kinds), NEW S \in SUBSET (1..Len(actions)), S # {}
  PROVE  \E t \in S : \A u \in S \ {t} : RagIndex!Before(u, t)
<1> DEFINE P(t) == RagIndex!Priority[actions[t]]
           Q == {P(t) : t \in S}
<1>a. \A t \in S : P(t) \in 1..5
  BY Comparable
<1>1. Q \in SUBSET (1..5) /\ Q # {}
  BY <1>a
<1>2. PICK q \in Q : \A p \in Q : q >= p
  BY <1>1, GreatestIn
<1> DEFINE R == {t \in S : P(t) = q}
<1>b. Len(actions) \in Nat
  OBVIOUS
<1>c. \E t \in S : P(t) = q
  BY <1>2
<1>3. R \in SUBSET (1..Len(actions)) /\ R # {} /\ Len(actions) \in Nat
  BY <1>b, <1>c
<1>4. PICK t \in R : \A u \in R : t >= u
  BY <1>3, GreatestIn
<1>5. ASSUME NEW u \in S \ {t} PROVE RagIndex!Before(u, t)
  <2>1. P(u) \in Q /\ P(u) \in 1..5 /\ P(t) = q /\ q >= P(u) /\ q \in 1..5
    BY <1>1, <1>2, <1>4, Comparable
  <2>2. P(u) = q => t >= u
    BY <1>4
  <2>3. P(u) < P(t) \/ (P(u) = P(t) /\ u < t)
    <3>1. u \in Nat /\ t \in Nat /\ u # t
      BY <1>3, <1>4
    <3> HIDE DEF P, Q
    <3> QED
      BY <2>1, <2>2, <3>1
  <2> QED
    BY <1>4, <2>3, Comparable
<1> QED
  BY <1>4, <1>5

LEMMA OrderExists ==
  ASSUME actions \in Seq(Kinds), NEW S \in SUBSET (1..Len(actions))
  PROVE  /\ Cardinality(S) \in Nat
         /\ \E s \in [1..Cardinality(S) -> S] :
               \A i, j \in 1..Cardinality(S) : i < j => RagIndex!Before(s[i], s[j])
<1> DEFINE Fits(s, n) == \A i, j \in 1..n : i < j => RagIndex!Before(s[i], s[j])
           Bad == {n \in Nat : \E T \in SUBSET S : Cardinality(T) = n /\ ~\E s \in [1..n -> T] : Fits(s, n)}
<1>0. IsFiniteSet(S) /\ \A T \in SUBSET S : IsFiniteSet(T) /\ Cardinality(T) \in Nat
  <2>1. IsFiniteSet(1..Len(actions))
    BY FS_Interval
  <2> QED
    BY <2>1, FS_Subset, FS_CardinalityType
<1>1. Bad = {}
  <2> SUFFICES ASSUME Bad # {} PROVE FALSE
    OBVIOUS
  <2>1. PICK n \in Bad : \A k \in Bad : n <= k
    BY LeastIn
  <2>2. PICK T \in SUBSET S : Cardinality(T) = n /\ ~\E s \in [1..n -> T] : Fits(s, n)
    BY <2>1
  <2>3. n \in Nat
    BY <2>1
  <2>4. T # {}
    <3> SUFFICES ASSUME T = {} PROVE FALSE
      OBVIOUS
    <3>1. n = 0
      BY <2>2, FS_EmptySet
    <3>2. [i \in 1..0 |-> 0] \in [1..0 -> T] /\ Fits([i \in 1..0 |-> 0], 0)
      OBVIOUS
    <3> QED
      BY <2>2, <3>1, <3>2
  <2>5. PICK t \in T : \A u \in T \ {t} : RagIndex!Before(u, t)
    BY <2>4, LastOf
  <2>6. Cardinality(T \ {t}) = n - 1 /\ n - 1 \in Nat /\ T \ {t} \in SUBSET S
    <3>1. Cardinality(T \ {t}) = n - 1 /\ T \ {t} \in SUBSET S
      BY <1>0, <2>2, FS_RemoveElement
    <3> QED
      BY <1>0, <3>1
  <2>7. n - 1 \notin Bad
    BY <2>1, <2>6
  <2>8. PICK s \in [1..(n - 1) -> T \ {t}] : Fits(s, n - 1)
    BY <2>6, <2>7
  <2> DEFINE r == [i \in 1..n |-> IF i = n THEN t ELSE s[i]]
  <2>9. \A i \in 1..n : i # n => i \in 1..(n - 1) /\ s[i] \in T \ {t}
    BY <2>3, <2>8
  <2>10. r \in [1..n -> T]
    BY <2>9
  <2>11. Fits(r, n)
    <3> SUFFICES ASSUME NEW i \in 1..n, NEW j \in 1..n, i < j PROVE RagIndex!Before(r[i], r[j])
      OBVIOUS
    <3>1. i # n /\ r[i] = s[i]
      BY <2>3
    <3>2. CASE j = n
      BY <2>5, <2>9, <3>1, <3>2
    <3>3. CASE j # n
      BY <2>8, <2>9, <3>1, <3>3
    <3> QED
      BY <3>2, <3>3
  <2> QED
    BY <2>2, <2>10, <2>11
<1>2. Cardinality(S) \in Nat
  BY <1>0
<1> QED
  BY <1>1, <1>2

(* Tasks that wait in the queue or in a batch wait there once.             *)
Members(s) == {s[i] : i \in 1..Len(s)}
Distinct(s) == \A i, j \in 1..Len(s) : s[i] = s[j] => i = j
Apart(q, b) ==
  /\ Distinct(q)
  /\ \A c \in Callers :
        /\ Distinct(b[c]) /\ Ordered(b[c])
        /\ Members(b[c]) \cap Members(q) = {}
        /\ \A d \in Callers \ {c} : Members(b[c]) \cap Members(b[d]) = {}

Lengths(b) == [c \in Callers |-> Len(b[c])]

TasksIInv ==
  /\ RagIndex!TasksAssumption
  /\ actions \in Seq(Kinds) /\ attempts \in Seq(Nat) /\ Len(attempts) = Len(actions)
  /\ queue \in Seq(1..Len(actions)) /\ batches \in [Callers -> Seq(1..Len(actions))]
  /\ Apart(queue, batches)
  /\ \A t \in 1..Len(actions) : attempts[t] <= MaxRetries + 1
  /\ \A t \in Members(queue) : attempts[t] <= MaxRetries
  /\ \A c \in Callers : /\ Len(batches[c]) <= BatchSize
                        /\ \A t \in Members(batches[c]) : attempts[t] <= MaxRetries
  /\ Len(queue) + RagIndex!InBatches <= MaxQueue + BatchSize * Cardinality(Callers)

LEMMA FiniteCallers == RagIndex!TasksAssumption => IsFiniteSet(Callers)
BY DEF RagIndex!TasksAssumption, RagIndex!IsFiniteSet, IsFiniteSet

(* What the batches hold is a sum, before and after a step.                *)
LEMMA InBatchesSum ==
  ASSUME RagIndex!TasksAssumption
  PROVE  /\ \E f : Sums(f, Lengths(batches), SUBSET Callers) /\ RagIndex!InBatches = f[Callers]
         /\ \E f : Sums(f, Lengths(batches'), SUBSET Callers) /\ RagIndex!InBatches' = f[Callers]
<1>1. IsFiniteSet(Callers)
  BY FiniteCallers
<1> DEFINE Adds(g, b) == g = [s \in SUBSET Callers |->
                 IF s = {} THEN 0 ELSE Len(b[CHOOSE x \in s : TRUE]) + g[s \ {CHOOSE x \in s : TRUE}]]
<1>2. \A b : \A g : Adds(g, b) <=> Sums(g, Lengths(b), SUBSET Callers)
  <2> SUFFICES ASSUME NEW b, NEW g PROVE Adds(g, b) <=> Sums(g, Lengths(b), SUBSET Callers)
    OBVIOUS
  <2>1. \A s \in SUBSET Callers : s # {} => Lengths(b)[FirstOf(s)] = Len(b[CHOOSE x \in s : TRUE])
    BY DEF Lengths, FirstOf
  <2> QED
    BY <2>1 DEF Sums, FirstOf
<1>3. RagIndex!InBatches = (CHOOSE g : Adds(g, batches))[Callers]
  BY DEF RagIndex!InBatches, RagIndex!MapThenSumSet, RagIndex!MapThenFoldSet
<1>4. RagIndex!InBatches' = (CHOOSE g : Adds(g, batches'))[Callers]
  BY DEF RagIndex!InBatches, RagIndex!MapThenSumSet, RagIndex!MapThenFoldSet
<1>a. \A v : \E f : Sums(f, v, SUBSET Callers)
  BY <1>1, SumsExist
<1> HIDE DEF Adds
<1>5. \A b : \E g : Adds(g, b)
  BY <1>2, <1>a
<1>6. \A b : Adds(CHOOSE g : Adds(g, b), b)
  BY <1>5
<1> QED
  BY <1>2, <1>3, <1>4, <1>6

LEMMA CallersSums ==
  ASSUME IsFiniteSet(Callers), NEW c \in Callers
  PROVE  \A v, w \in [Callers -> Nat] : (\A x \in Callers \ {c} : w[x] = v[x]) =>
            \A f, g : Sums(f, v, SUBSET Callers) /\ Sums(g, w, SUBSET Callers) =>
               f[Callers] \in Nat /\ g[Callers] \in Nat /\ g[Callers] + v[c] = f[Callers] + w[c]
<1> TAKE v, w \in [Callers -> Nat]
<1> HAVE \A x \in Callers \ {c} : w[x] = v[x]
<1> TAKE f, g
<1> HAVE Sums(f, v, SUBSET Callers) /\ Sums(g, w, SUBSET Callers)
<1> QED
  BY SumChanges

LEMMA InBatchesChanges ==
  ASSUME TasksIInv, NEW c \in Callers, NEW s \in Seq(Nat), batches' = [batches EXCEPT ![c] = s]
  PROVE  /\ RagIndex!InBatches \in Nat /\ RagIndex!InBatches' \in Nat
         /\ RagIndex!InBatches' + Len(batches[c]) = RagIndex!InBatches + Len(s)
<1>0. RagIndex!TasksAssumption /\ IsFiniteSet(Callers) /\ batches \in [Callers -> Seq(1..Len(actions))]
  BY FiniteCallers DEF TasksIInv
<1>1. Lengths(batches) \in [Callers -> Nat] /\ Lengths(batches') \in [Callers -> Nat]
      /\ Lengths(batches)[c] = Len(batches[c]) /\ Lengths(batches')[c] = Len(s)
      /\ \A x \in Callers \ {c} : Lengths(batches')[x] = Lengths(batches)[x]
  BY <1>0 DEF Lengths
<1>2. PICK f : Sums(f, Lengths(batches), SUBSET Callers) /\ RagIndex!InBatches = f[Callers]
  BY <1>0, InBatchesSum
<1>3. PICK g : Sums(g, Lengths(batches'), SUBSET Callers) /\ RagIndex!InBatches' = g[Callers]
  BY <1>0, InBatchesSum
<1>4. f[Callers] \in Nat /\ g[Callers] \in Nat
      /\ g[Callers] + Lengths(batches)[c] = f[Callers] + Lengths(batches')[c]
  <2>1. PICK v \in [Callers -> Nat], w \in [Callers -> Nat] : v = Lengths(batches) /\ w = Lengths(batches')
    BY <1>1
  <2>2. \A x \in Callers \ {c} : w[x] = v[x]
    BY <1>1, <2>1
  <2>3. Sums(f, v, SUBSET Callers) /\ Sums(g, w, SUBSET Callers)
    BY <1>2, <1>3, <2>1
  <2>4. f[Callers] \in Nat /\ g[Callers] \in Nat /\ g[Callers] + v[c] = f[Callers] + w[c]
    <3>1. IsFiniteSet(Callers)
      BY <1>0
    <3>2. \A f1, g1 : Sums(f1, v, SUBSET Callers) /\ Sums(g1, w, SUBSET Callers) =>
               f1[Callers] \in Nat /\ g1[Callers] \in Nat /\ g1[Callers] + v[c] = f1[Callers] + w[c]
      BY <2>2, <3>1, CallersSums
    <3> QED
      BY <2>3, <3>2
  <2> QED
    BY <2>1, <2>4
<1> QED
  BY <1>1, <1>2, <1>3, <1>4

LEMMA InBatchesBounded ==
  ASSUME TasksIInv
  PROVE  RagIndex!InBatches \in Nat /\ RagIndex!InBatches <= BatchSize * Cardinality(Callers)
<1>0. RagIndex!TasksAssumption /\ IsFiniteSet(Callers) /\ batches \in [Callers -> Seq(1..Len(actions))]
  BY FiniteCallers DEF TasksIInv
<1>1. Lengths(batches) \in [Callers -> Nat] /\ \A x \in Callers : Lengths(batches)[x] <= BatchSize
  BY <1>0 DEF Lengths, TasksIInv
<1>2. BatchSize \in Nat
  BY <1>0 DEF RagIndex!TasksAssumption
<1>3. PICK f : Sums(f, Lengths(batches), SUBSET Callers) /\ RagIndex!InBatches = f[Callers]
  BY <1>0, InBatchesSum
<1> QED
  BY <1>0, <1>1, <1>2, <1>3, SumBounded

LEMMA TasksStart == RagIndex!TasksAssumption /\ RagIndex!Init => TasksIInv
<1> SUFFICES ASSUME RagIndex!TasksAssumption, RagIndex!Init PROVE TasksIInv
  OBVIOUS
<1>1. /\ queue = <<>> /\ actions = <<>> /\ attempts = <<>> /\ Len(<<>>) = 0
      /\ batches = [c \in Callers |-> <<>>]
  BY EmptySeq DEF RagIndex!Init
<1>2. /\ actions \in Seq(Kinds) /\ attempts \in Seq(Nat) /\ queue \in Seq(1..Len(actions))
      /\ batches \in [Callers -> Seq(1..Len(actions))]
  BY <1>1, EmptySeq
<1>3. Apart(queue, batches) /\ Members(queue) = {} /\ \A c \in Callers : Members(batches[c]) = {}
  BY <1>1 DEF Apart, Distinct, Ordered, Members
<1>4. MaxQueue \in Nat /\ BatchSize \in Nat
  BY DEF RagIndex!TasksAssumption
<1>5. Cardinality(Callers) \in Nat /\ RagIndex!InBatches <= 0 * Cardinality(Callers) /\ RagIndex!InBatches \in Nat
  <2>1. IsFiniteSet(Callers)
    BY FiniteCallers
  <2>2. Lengths(batches) \in [Callers -> Nat] /\ \A x \in Callers : Lengths(batches)[x] <= 0
    BY <1>1 DEF Lengths
  <2>3. PICK f : Sums(f, Lengths(batches), SUBSET Callers) /\ RagIndex!InBatches = f[Callers]
    BY InBatchesSum
  <2> QED
    BY <2>1, <2>2, <2>3, SumBounded, FS_CardinalityType
<1>6. BatchSize * Cardinality(Callers) \in Nat /\ 0 * Cardinality(Callers) = 0
  BY <1>4, <1>5
<1>7. Len(queue) + RagIndex!InBatches <= MaxQueue + BatchSize * Cardinality(Callers)
  BY <1>1, <1>4, <1>5, <1>6
<1>8. \A c \in Callers : Len(batches[c]) <= BatchSize
  BY <1>1, <1>4
<1> QED
  BY <1>1, <1>2, <1>3, <1>7, <1>8 DEF TasksIInv

(* A part of tasks that are distinct and in order is distinct and in order. *)
LEMMA PartOf ==
  ASSUME NEW n \in Nat, NEW s \in Seq(1..n), NEW a \in Nat \ {0}, NEW b \in Nat, b <= Len(s)
  PROVE  /\ SubSeq(s, a, b) \in Seq(1..n)
         /\ Len(SubSeq(s, a, b)) = (IF a <= b THEN (b - a) + 1 ELSE 0)
         /\ \A i \in 1..Len(SubSeq(s, a, b)) :
               (a + i) - 1 \in a..b /\ SubSeq(s, a, b)[i] = s[(a + i) - 1]
         /\ Members(SubSeq(s, a, b)) \subseteq Members(s)
         /\ Distinct(s) => Distinct(SubSeq(s, a, b))
         /\ Ordered(s) => Ordered(SubSeq(s, a, b))
<1> DEFINE p == SubSeq(s, a, b)
<1>1. Len(s) \in Nat /\ \A i \in a..b : s[i] \in 1..n
  OBVIOUS
<1>2. p \in Seq(1..n) /\ Len(p) = (IF a <= b THEN (b - a) + 1 ELSE 0)
      /\ \A i \in 1..((b - a) + 1) : p[i] = s[(a + i) - 1]
  BY <1>1, SubSeqProperties
<1>3. Len(p) \in Nat /\ \A i \in 1..Len(p) : (a + i) - 1 \in a..b /\ (a + i) - 1 \in 1..Len(s) /\ p[i] = s[(a + i) - 1]
  BY <1>1, <1>2
<1> HIDE DEF p
<1>4. Members(p) \subseteq Members(s)
  BY <1>3 DEF Members
<1>5. ASSUME Distinct(s) PROVE Distinct(p)
  <2> SUFFICES ASSUME NEW i \in 1..Len(p), NEW j \in 1..Len(p), p[i] = p[j] PROVE i = j
    BY DEF Distinct
  <2>1. (a + i) - 1 = (a + j) - 1
    BY <1>3, <1>5 DEF Distinct
  <2> QED
    BY <1>3, <2>1
<1>6. ASSUME Ordered(s) PROVE Ordered(p)
  <2> SUFFICES ASSUME NEW i \in 1..Len(p), NEW j \in 1..Len(p), i < j PROVE RagIndex!Before(p[i], p[j])
    BY DEF Ordered
  <2>1. (a + i) - 1 < (a + j) - 1
    BY <1>3
  <2> QED
    BY <1>3, <1>6, <2>1 DEF Ordered
<1> QED
  BY <1>2, <1>3, <1>4, <1>5, <1>6 DEF p

(* The queue in order holds tasks of the queue, and no more of them.       *)
LEMMA QueueInOrder ==
  ASSUME TasksIInv
  PROVE  LET s == RagIndex!InOrder(RagIndex!ToSet(queue))
         IN  /\ s \in Seq(1..Len(actions)) /\ Len(s) <= Len(queue)
             /\ Members(s) \subseteq Members(queue) /\ Ordered(s) /\ Distinct(s)
<1> DEFINE S == RagIndex!ToSet(queue)
           s == RagIndex!InOrder(S)
           n == Len(actions)
<1>1. actions \in Seq(Kinds) /\ n \in Nat /\ queue \in Seq(1..n) /\ Len(queue) \in Nat
  BY DEF TasksIInv
<1>2. S = Members(queue) /\ S \in SUBSET (1..n)
  <2>1. DOMAIN queue = 1..Len(queue) /\ \A i \in 1..Len(queue) : queue[i] \in 1..n
    BY <1>1
  <2>2. S = Members(queue)
    BY <2>1 DEF RagIndex!ToSet, Members
  <2>3. \A t \in Members(queue) : t \in 1..n
    BY <2>1 DEF Members
  <2> QED
    BY <2>2, <2>3
<1>3. RagIndex!Cardinality(S) = Cardinality(S)
  BY DEF RagIndex!Cardinality, Cardinality
<1> DEFINE Fits(r) == r \in [1..Cardinality(S) -> S]
                        /\ \A i, j \in 1..Cardinality(S) : i < j => RagIndex!Before(r[i], r[j])
<1>4. Cardinality(S) \in Nat /\ \E r : Fits(r)
  <2> HIDE DEF S
  <2> QED
    BY <1>1, <1>2, OrderExists
<1>5. s = CHOOSE r \in [1..Cardinality(S) -> S] :
               \A i, j \in DOMAIN r : i < j => RagIndex!Before(r[i], r[j])
  BY <1>3 DEF RagIndex!InOrder
<1>6. Fits(s)
  <2> HIDE DEF S
  <2>1. \E r \in [1..Cardinality(S) -> S] : \A i, j \in DOMAIN r : i < j => RagIndex!Before(r[i], r[j])
    BY <1>4
  <2> HIDE DEF s
  <2>2. s \in [1..Cardinality(S) -> S] /\ \A i, j \in DOMAIN s : i < j => RagIndex!Before(s[i], s[j])
    BY <1>5, <2>1
  <2> QED
    BY <2>2
<1>7. Cardinality(S) <= Len(queue)
  <2> HIDE DEF S
  <2>1. PICK q : q = queue
    OBVIOUS
  <2>2. PICK l \in Nat : l = Len(q)
    BY <1>1, <2>1
  <2>3. q \in Surjection(1..l, S)
    BY <1>1, <1>2, <2>1, <2>2 DEF Members, Surjection
  <2>4. IsFiniteSet(1..l) /\ Cardinality(1..l) = l
    <3>1. 0 + 1 = 1 /\ 1 \in Int /\ l \in Int /\ (1 > l => l = 0) /\ (l - 1) + 1 = l
      BY <2>2
    <3>2. IsFiniteSet(1..l) /\ Cardinality(1..l) = (IF 1 > l THEN 0 ELSE (l - 1) + 1)
      BY <3>1, FS_Interval
    <3> QED
      BY <3>1, <3>2
  <2>5. Cardinality(S) <= Cardinality(1..l)
    BY <2>3, <2>4, FS_Surjection
  <2> QED
    BY <2>1, <2>2, <2>4, <2>5
<1> HIDE DEF S, s
<1>8. s \in Seq(1..n) /\ Len(s) = Cardinality(S) /\ Members(s) \subseteq S
  <2>1. PICK l \in Nat : l = Cardinality(S)
    BY <1>4
  <2>2. s \in [1..l -> S]
    BY <1>6, <2>1
  <2>3. s \in [1..l -> 1..n] /\ \A i \in 1..l : s[i] \in S
    BY <1>2, <2>2
  <2>4. s \in Seq(1..n) /\ Len(s) = l
    BY <2>1, <2>3, SeqDef, LenProperties
  <2> QED
    BY <2>1, <2>3, <2>4 DEF Members
<1>9. Ordered(s)
  BY <1>6, <1>8 DEF Ordered
<1>10. Distinct(s)
  <2> SUFFICES ASSUME NEW i \in 1..Len(s), NEW j \in 1..Len(s), s[i] = s[j], i < j PROVE FALSE
    BY <1>4, <1>8 DEF Distinct
  <2>1. RagIndex!Before(s[i], s[i]) /\ s[i] \in 1..n
    BY <1>8, <1>9 DEF Ordered
  <2> QED
    BY <1>1, <2>1, NotBeforeItself
<1> QED
  BY <1>2, <1>7, <1>8, <1>9, <1>10 DEF s, S

(* A cut takes the first tasks and leaves the others.                      *)
LEMMA Halves ==
  ASSUME NEW n \in Nat, NEW s \in Seq(1..n), Distinct(s), Ordered(s),
         NEW k \in 0..Len(s), NEW b \in Nat, b >= k, b = k \/ k = Len(s)
  PROVE  /\ SubSeq(s, 1, k) \in Seq(1..n) /\ SubSeq(s, b + 1, Len(s)) \in Seq(1..n)
         /\ Len(SubSeq(s, 1, k)) = k /\ Len(SubSeq(s, b + 1, Len(s))) = Len(s) - k
         /\ Distinct(SubSeq(s, 1, k)) /\ Ordered(SubSeq(s, 1, k))
         /\ Distinct(SubSeq(s, b + 1, Len(s)))
         /\ Members(SubSeq(s, 1, k)) \subseteq Members(s)
         /\ Members(SubSeq(s, b + 1, Len(s))) \subseteq Members(s)
         /\ Members(SubSeq(s, 1, k)) \cap Members(SubSeq(s, b + 1, Len(s))) = {}
<1> DEFINE front == SubSeq(s, 1, k)
<1>1. PICK l \in Nat : l = Len(s)
  OBVIOUS
<1>2. PICK a \in Nat \ {0} : a = b + 1
  OBVIOUS
<1>3. PICK back : back = SubSeq(s, a, l)
  OBVIOUS
<1>4. k \in Nat /\ k <= l
  BY <1>1
<1>5. /\ front \in Seq(1..n) /\ Len(front) = (IF 1 <= k THEN (k - 1) + 1 ELSE 0)
      /\ \A i \in 1..Len(front) : (1 + i) - 1 \in 1..k /\ front[i] = s[(1 + i) - 1]
      /\ Members(front) \subseteq Members(s) /\ Distinct(front) /\ Ordered(front)
  <2>1. 1 \in Nat \ {0} /\ k \in Nat /\ k <= Len(s)
    BY <1>1, <1>4
  <2> QED
    BY <2>1, PartOf
<1>6. /\ back \in Seq(1..n) /\ Len(back) = (IF a <= l THEN (l - a) + 1 ELSE 0)
      /\ \A i \in 1..Len(back) : (a + i) - 1 \in a..l /\ back[i] = s[(a + i) - 1]
      /\ Members(back) \subseteq Members(s) /\ Distinct(back)
  <2>1. l <= Len(s)
    BY <1>1
  <2> QED
    BY <1>3, <2>1, PartOf
<1> HIDE DEF front
<1>7. Len(front) = k /\ Len(back) = l - k
  <2>1. Len(front) = (IF 1 <= k THEN (k - 1) + 1 ELSE 0) /\ Len(back) = (IF a <= l THEN (l - a) + 1 ELSE 0)
    BY <1>5, <1>6
  <2>2. a = b + 1 /\ b \in Nat /\ k <= b /\ (b = k \/ k = l)
    BY <1>1, <1>2
  <2> QED
    BY <1>1, <1>4, <2>1, <2>2
<1>8. Members(front) \cap Members(back) = {}
  <2> SUFFICES ASSUME NEW i \in 1..Len(front), NEW j \in 1..Len(back), front[i] = back[j] PROVE FALSE
    BY DEF Members
  <2>1. i \in 1..l /\ i <= k /\ front[i] = s[i]
    <3>1. i \in 1..k /\ (1 + i) - 1 = i
      BY <1>7
    <3> QED
      BY <1>4, <1>5, <3>1
  <2>2. PICK m \in a..l : back[j] = s[m]
    BY <1>6
  <2>3. m \in 1..l /\ i # m
    BY <1>2, <1>4, <2>1, <2>2
  <2>4. s[i] = s[m]
    BY <2>1, <2>2
  <2> QED
    BY <1>1, <2>1, <2>3, <2>4 DEF Distinct
<1> QED
  BY <1>1, <1>2, <1>3, <1>5, <1>6, <1>7, <1>8 DEF front

(* A step that changes one batch, and no more tasks, keeps to the bound.   *)
LEMMA NoMoreTasks ==
  ASSUME TasksIInv, NEW c \in Callers, NEW s \in Seq(1..Len(actions)),
         batches' = [batches EXCEPT ![c] = s],
         NEW k \in Nat, Len(queue') = k, k + Len(s) <= Len(queue) + Len(batches[c])
  PROVE  Len(queue') + RagIndex!InBatches' <= MaxQueue + BatchSize * Cardinality(Callers)
<1>1. /\ RagIndex!TasksAssumption /\ BatchSize \in Nat \ {0} /\ MaxQueue \in Nat /\ Len(actions) \in Nat
      /\ Len(queue) \in Nat /\ batches[c] \in Seq(1..Len(actions))
  BY DEF TasksIInv, RagIndex!TasksAssumption
<1>2. Cardinality(Callers) \in Nat
  BY <1>1, FiniteCallers, FS_CardinalityType
<1>3. BatchSize * Cardinality(Callers) \in Nat
  BY <1>1, <1>2
<1>4. s \in Seq(Nat) /\ Len(s) \in Nat /\ Len(batches[c]) \in Nat
  BY <1>1
<1>5. RagIndex!InBatches \in Nat /\ RagIndex!InBatches' \in Nat
      /\ RagIndex!InBatches' + Len(batches[c]) = RagIndex!InBatches + Len(s)
  BY <1>4, InBatchesChanges
<1>6. Len(queue) + RagIndex!InBatches <= MaxQueue + BatchSize * Cardinality(Callers)
  BY DEF TasksIInv
<1> DEFINE held == Len(queue)
           out == RagIndex!InBatches
           next == RagIndex!InBatches'
           old == Len(batches[c])
           new == Len(s)
           most == BatchSize * Cardinality(Callers)
<1>7. /\ held \in Nat /\ out \in Nat /\ next \in Nat /\ old \in Nat /\ new \in Nat /\ most \in Nat
      /\ k \in Nat /\ MaxQueue \in Nat
      /\ k + new <= held + old /\ next + old = out + new /\ held + out <= MaxQueue + most
  BY <1>1, <1>3, <1>4, <1>5, <1>6
<1> HIDE DEF held, out, next, old, new, most
<1>8. k + next <= MaxQueue + most
  BY <1>7
<1> QED
  BY <1>8 DEF next, most

LEMMA Cutting ==
  ASSUME TasksIInv, NEW c \in Callers, RagIndex!Cut(c)
  PROVE  TasksIInv'
<1> DEFINE n == Len(actions)
<1>1. /\ RagIndex!TasksAssumption /\ BatchSize \in Nat \ {0} /\ MaxQueue \in Nat /\ n \in Nat
      /\ queue \in Seq(1..n) /\ batches \in [Callers -> Seq(1..n)] /\ Apart(queue, batches)
  BY DEF TasksIInv, RagIndex!TasksAssumption
<1>a. PICK s : s = RagIndex!InOrder(RagIndex!ToSet(queue))
  OBVIOUS
<1>2. /\ s \in Seq(1..n) /\ Len(s) <= Len(queue) /\ Len(s) \in Nat
      /\ Members(s) \subseteq Members(queue) /\ Ordered(s) /\ Distinct(s)
  BY <1>a, QueueInOrder
<1>b. PICK k \in 0..Len(s) : k = IF BatchSize <= Len(s) THEN BatchSize ELSE Len(s)
  BY <1>1, <1>2
<1>3. RagIndex!Min({BatchSize, Len(s)}) = k
  BY <1>1, <1>2, <1>b DEF RagIndex!Min
<1>c. PICK front, back : front = SubSeq(s, 1, k) /\ back = SubSeq(s, BatchSize + 1, Len(s))
  OBVIOUS
<1>4. /\ batches[c] = <<>> /\ batches' = [batches EXCEPT ![c] = front] /\ queue' = back
      /\ UNCHANGED <<actions, attempts>>
  BY <1>3, <1>a, <1>c DEF RagIndex!Cut
<1>5. k \in Nat /\ k <= Len(s) /\ k <= BatchSize /\ (BatchSize = k \/ k = Len(s))
  BY <1>1, <1>2, <1>b
<1>6. /\ front \in Seq(1..n) /\ back \in Seq(1..n) /\ Len(front) = k /\ Len(back) = Len(s) - k
      /\ Distinct(front) /\ Ordered(front) /\ Distinct(back)
      /\ Members(front) \subseteq Members(s) /\ Members(back) \subseteq Members(s)
      /\ Members(front) \cap Members(back) = {}
  <2>1. BatchSize \in Nat /\ BatchSize >= k
    BY <1>1, <1>5
  <2>2. PICK b \in Nat : b = BatchSize /\ b >= k /\ (b = k \/ k = Len(s))
    BY <1>5, <2>1
  <2>3. /\ SubSeq(s, 1, k) \in Seq(1..n) /\ SubSeq(s, b + 1, Len(s)) \in Seq(1..n)
        /\ Len(SubSeq(s, 1, k)) = k /\ Len(SubSeq(s, b + 1, Len(s))) = Len(s) - k
        /\ Distinct(SubSeq(s, 1, k)) /\ Ordered(SubSeq(s, 1, k))
        /\ Distinct(SubSeq(s, b + 1, Len(s)))
        /\ Members(SubSeq(s, 1, k)) \subseteq Members(s)
        /\ Members(SubSeq(s, b + 1, Len(s))) \subseteq Members(s)
        /\ Members(SubSeq(s, 1, k)) \cap Members(SubSeq(s, b + 1, Len(s))) = {}
    <3>1. PICK m \in Nat : m = n
      BY <1>1
    <3>2. s \in Seq(1..m) /\ Distinct(s) /\ Ordered(s) /\ k \in 0..Len(s)
      BY <1>2, <3>1
    <3>3. b \in Nat /\ b >= k /\ (b = k \/ k = Len(s))
      BY <2>2
    <3> HIDE DEF n
    <3>4. /\ SubSeq(s, 1, k) \in Seq(1..m) /\ SubSeq(s, b + 1, Len(s)) \in Seq(1..m)
          /\ Len(SubSeq(s, 1, k)) = k /\ Len(SubSeq(s, b + 1, Len(s))) = Len(s) - k
          /\ Distinct(SubSeq(s, 1, k)) /\ Ordered(SubSeq(s, 1, k))
          /\ Distinct(SubSeq(s, b + 1, Len(s)))
          /\ Members(SubSeq(s, 1, k)) \subseteq Members(s)
          /\ Members(SubSeq(s, b + 1, Len(s))) \subseteq Members(s)
          /\ Members(SubSeq(s, 1, k)) \cap Members(SubSeq(s, b + 1, Len(s))) = {}
      BY <3>2, <3>3, Halves
    <3> QED
      BY <3>1, <3>4
  <2>4. front = SubSeq(s, 1, k) /\ back = SubSeq(s, b + 1, Len(s))
    BY <1>c, <2>2
  <2> QED
    BY <2>3, <2>4
<1>9. Members(front) \subseteq Members(queue) /\ Members(back) \subseteq Members(queue)
  BY <1>2, <1>6
<1>10. batches'[c] = front /\ \A d \in Callers \ {c} : batches'[d] = batches[d]
  BY <1>1, <1>4
<1>11. Apart(queue', batches')
  BY <1>1, <1>4, <1>6, <1>9, <1>10 DEF Apart
<1>12. Apart(queue, batches)'
  <2>1. \A z : Ordered(z) => Ordered(z)'
    BY <1>4 DEF Ordered, RagIndex!Before, RagIndex!Priority
  <2> QED
    BY <1>11, <2>1 DEF Apart, Distinct, Members
<1>13. Len(queue') + RagIndex!InBatches' <= MaxQueue + BatchSize * Cardinality(Callers)
  <2>1. PICK m \in Nat : m = Len(back)
    BY <1>6
  <2>2. Len(batches[c]) = 0 /\ Len(queue) \in Nat
    BY <1>1, <1>4
  <2>3. m + Len(front) <= Len(queue) + Len(batches[c]) /\ Len(queue') = m
    BY <1>2, <1>4, <1>5, <1>6, <2>1, <2>2
  <2> QED
    BY <1>4, <1>6, <2>3, NoMoreTasks
<1>14. \A t \in Members(queue') : attempts'[t] <= MaxRetries
  BY <1>4, <1>9 DEF TasksIInv
<1>15. \A d \in Callers : Len(batches'[d]) <= BatchSize /\ \A t \in Members(batches'[d]) : attempts'[t] <= MaxRetries
  <2> SUFFICES ASSUME NEW d \in Callers
               PROVE  Len(batches'[d]) <= BatchSize /\ \A t \in Members(batches'[d]) : attempts'[t] <= MaxRetries
    OBVIOUS
  <2>1. CASE d = c
    BY <1>4, <1>5, <1>6, <1>9, <1>10, <2>1 DEF TasksIInv
  <2>2. CASE d # c
    BY <1>4, <1>10, <2>2 DEF TasksIInv
  <2> QED
    BY <2>1, <2>2
<1>16. queue' \in Seq(1..n) /\ batches' \in [Callers -> Seq(1..n)]
  BY <1>1, <1>4, <1>6
<1>18. actions' \in Seq(Kinds) /\ attempts' \in Seq(Nat) /\ Len(attempts') = Len(actions') /\ Len(actions') = n
       /\ \A t \in 1..Len(actions') : attempts'[t] <= MaxRetries + 1
  BY <1>4 DEF TasksIInv, Kinds
<1>19. RagIndex!TasksAssumption' /\ queue' \in Seq(1..Len(actions')) /\ batches' \in [Callers -> Seq(1..Len(actions'))]
  BY <1>1, <1>16, <1>18 DEF RagIndex!TasksAssumption
<1> QED
  BY <1>12, <1>13, <1>14, <1>15, <1>18, <1>19 DEF TasksIInv

(* What batches hold is the same as long as they are.                      *)
LEMMA BatchesKept == UNCHANGED batches => RagIndex!InBatches' = RagIndex!InBatches
<1> DEFINE Total(b) == (CHOOSE g : g = [s \in SUBSET Callers |->
                 IF s = {} THEN 0 ELSE Len(b[CHOOSE x \in s : TRUE]) + g[s \ {CHOOSE x \in s : TRUE}]])[Callers]
<1>1. RagIndex!InBatches = Total(batches)
  BY DEF RagIndex!InBatches, RagIndex!MapThenSumSet, RagIndex!MapThenFoldSet
<1>2. RagIndex!InBatches' = Total(batches')
  BY DEF RagIndex!InBatches, RagIndex!MapThenSumSet, RagIndex!MapThenFoldSet
<1> HIDE DEF Total
<1> QED
  BY <1>1, <1>2

LEMMA StillApart ==
  ASSUME NEW q, NEW b, queue' = q, batches' = b, Distinct(q),
         \A c \in Callers : /\ Distinct(b[c]) /\ Members(b[c]) \cap Members(q) = {}
                            /\ \A d \in Callers \ {c} : Members(b[c]) \cap Members(b[d]) = {},
         \A c \in Callers : \A z : z = b[c] => Ordered(z)'
  PROVE  Apart(queue, batches)'
<1>1. \A c \in Callers : Ordered(b[c])'
  OBVIOUS
<1>2. \A c \in Callers : Ordered(batches[c])'
  BY <1>1 DEF Ordered
<1>3. Distinct(queue)' /\ \A c \in Callers : Distinct(batches[c])'
  BY DEF Distinct
<1>4. \A c \in Callers : /\ Members(batches[c])' \cap Members(queue)' = {}
                         /\ \A d \in Callers \ {c} : Members(batches[c])' \cap Members(batches[d])' = {}
  <2>1. Members(queue)' = Members(q) /\ \A c \in Callers : Members(batches[c])' = Members(b[c])
    BY DEF Members
  <2> QED
    BY <2>1
<1> QED
  BY <1>2, <1>3, <1>4 DEF Apart

LEMMA TasksKept ==
  ASSUME TasksIInv, UNCHANGED <<queue, actions, attempts, batches>>
  PROVE  TasksIInv'
<1>1. RagIndex!TasksAssumption' /\ RagIndex!InBatches' = RagIndex!InBatches
  BY BatchesKept DEF TasksIInv, RagIndex!TasksAssumption
<1>2. Apart(queue, batches)'
  <2>1. PICK q, b : q = queue /\ b = batches
    OBVIOUS
  <2>2. Apart(q, b)
    BY <2>1 DEF TasksIInv
  <2>3. \A c \in Callers : \A z : z = b[c] => Ordered(z)'
    BY <2>2 DEF Apart, Ordered, RagIndex!Before, RagIndex!Priority
  <2> QED
    BY <2>1, <2>2, <2>3, StillApart DEF Apart
<1>3. /\ \A t \in Members(queue') : attempts'[t] <= MaxRetries
      /\ \A c \in Callers : Len(batches'[c]) <= BatchSize /\ \A t \in Members(batches'[c]) : attempts'[t] <= MaxRetries
      /\ Len(queue') + RagIndex!InBatches' <= MaxQueue + BatchSize * Cardinality(Callers)
  BY <1>1 DEF TasksIInv
<1>4. /\ actions' \in Seq(Kinds) /\ attempts' \in Seq(Nat) /\ Len(attempts') = Len(actions')
      /\ queue' \in Seq(1..Len(actions')) /\ batches' \in [Callers -> Seq(1..Len(actions'))]
      /\ \A t \in 1..Len(actions') : attempts'[t] <= MaxRetries + 1
  BY DEF TasksIInv
<1> QED
  BY <1>1, <1>2, <1>3, <1>4 DEF TasksIInv, Kinds

LEMMA OrderKept ==
  ASSUME NEW s \in Seq(1..Len(actions)), \A t \in 1..Len(actions) : actions'[t] = actions[t], Ordered(s)
  PROVE  Ordered(s)'
<1>1. \A i \in 1..Len(s) : s[i] \in 1..Len(actions)
  OBVIOUS
<1> QED
  BY <1>1 DEF Ordered, RagIndex!Before, RagIndex!Priority

LEMMA Scheduling ==
  ASSUME TasksIInv, NEW action \in Kinds, RagIndex!Schedule(action)
  PROVE  TasksIInv'
<1>1. PICK n \in Nat : n = Len(actions)
  BY DEF TasksIInv
<1>2. /\ RagIndex!TasksAssumption /\ BatchSize \in Nat \ {0} /\ MaxQueue \in Nat /\ MaxRetries \in Nat
      /\ actions \in Seq(Kinds) /\ attempts \in Seq(Nat) /\ Len(attempts) = n
      /\ queue \in Seq(1..n) /\ batches \in [Callers -> Seq(1..n)] /\ Apart(queue, batches)
      /\ \A t \in 1..n : attempts[t] <= MaxRetries + 1
      /\ \A t \in Members(queue) : attempts[t] <= MaxRetries
      /\ \A c \in Callers : Len(batches[c]) <= BatchSize /\ \A t \in Members(batches[c]) : attempts[t] <= MaxRetries
  BY <1>1 DEF TasksIInv, RagIndex!TasksAssumption
<1>3. /\ actions' = Append(actions, action) /\ attempts' = Append(attempts, 0)
      /\ queue' = (IF Len(queue) < MaxQueue THEN Append(queue, n + 1) ELSE queue) /\ UNCHANGED batches
  BY <1>1 DEF RagIndex!Schedule
<1>4. /\ actions' \in Seq(Kinds) /\ Len(actions') = n + 1
      /\ \A t \in 1..n : actions'[t] = actions[t]
  BY <1>1, <1>2, <1>3
<1>5. /\ attempts' \in Seq(Nat) /\ Len(attempts') = n + 1 /\ attempts'[n + 1] = 0
      /\ \A t \in 1..n : attempts'[t] = attempts[t]
  BY <1>2, <1>3
<1>6. /\ \A t \in Members(queue) : t \in 1..n
      /\ \A c \in Callers : \A t \in Members(batches[c]) : t \in 1..n
  <2>1. \A s \in Seq(1..n) : \A t \in Members(s) : t \in 1..n
    BY DEF Members
  <2> QED
    BY <1>2, <2>1
<1>7. /\ queue' \in Seq(1..(n + 1)) /\ Distinct(queue')
      /\ \A t \in Members(queue') : t \in Members(queue) \/ t = n + 1
  <2>1. PICK l \in Nat : l = Len(queue)
    BY <1>2
  <2>2. queue \in Seq(1..(n + 1)) /\ \A i \in 1..l : queue[i] \in 1..n
    <3> DEFINE S == 1..n
               T == 1..(n + 1)
    <3>1. queue \in Seq(S) /\ S \subseteq T
      BY <1>2
    <3> HIDE DEF S, T
    <3>2. queue \in Seq(T) /\ \A i \in 1..Len(queue) : queue[i] \in S
      BY <3>1
    <3> QED
      BY <2>1, <3>2 DEF S, T
  <2>3. CASE Len(queue) < MaxQueue
    <3>1. queue' = Append(queue, n + 1)
      BY <1>3, <2>3
    <3>2. queue' \in Seq(1..(n + 1)) /\ Len(queue') = l + 1 /\ queue'[l + 1] = n + 1
          /\ \A i \in 1..l : queue'[i] = queue[i]
      BY <2>1, <2>2, <3>1, AppendProperties
    <3>3. \A i \in 1..Len(queue') : i # l + 1 => i \in 1..l /\ queue'[i] = queue[i] /\ queue'[i] # n + 1
      BY <2>1, <2>2, <3>2
    <3>4. \A t \in Members(queue') : t \in Members(queue) \/ t = n + 1
      BY <2>1, <3>2, <3>3 DEF Members
    <3>5. Distinct(queue')
      <4>1. Distinct(queue)
        BY <1>2 DEF Apart
      <4> SUFFICES ASSUME NEW i \in 1..Len(queue'), NEW j \in 1..Len(queue'), queue'[i] = queue'[j]
                   PROVE  i = j
        BY DEF Distinct
      <4>2. CASE i # l + 1 /\ j # l + 1
        BY <2>1, <3>3, <4>1, <4>2 DEF Distinct
      <4>3. CASE i = l + 1 \/ j = l + 1
        BY <3>2, <3>3, <4>3
      <4> QED
        BY <4>2, <4>3
    <3> QED
      BY <3>2, <3>4, <3>5
  <2>4. CASE ~(Len(queue) < MaxQueue)
    BY <1>2, <1>3, <2>2, <2>4 DEF Apart
  <2> QED
    BY <2>3, <2>4
<1>8. \A c \in Callers : \A s : s = batches[c] => Ordered(s)'
  <2> SUFFICES ASSUME NEW c \in Callers, NEW s, s = batches[c] PROVE Ordered(s)'
    OBVIOUS
  <2>1. s \in Seq(1..Len(actions)) /\ Ordered(s)
    BY <1>1, <1>2 DEF Apart
  <2> QED
    BY <1>1, <1>4, <2>1, OrderKept
<1>9. Apart(queue, batches)'
  <2>1. \A c \in Callers : Members(batches[c]) \cap Members(queue') = {}
    BY <1>2, <1>6, <1>7 DEF Apart
  <2>2. \A c \in Callers : /\ Distinct(batches[c])
                           /\ \A d \in Callers \ {c} : Members(batches[c]) \cap Members(batches[d]) = {}
    BY <1>2 DEF Apart
  <2>3. PICK q, b : q = queue' /\ b = batches
    OBVIOUS
  <2>4. batches' = b /\ queue' = q /\ Distinct(q)
    BY <1>3, <1>7, <2>3
  <2>5. \A c \in Callers : \A z : z = b[c] => Ordered(z)'
    BY <1>8, <2>3
  <2>6. \A c \in Callers : /\ Distinct(b[c]) /\ Members(b[c]) \cap Members(q) = {}
                           /\ \A d \in Callers \ {c} : Members(b[c]) \cap Members(b[d]) = {}
    BY <2>1, <2>2, <2>3
  <2> QED
    BY <2>4, <2>5, <2>6, StillApart
<1>10. Len(queue') + RagIndex!InBatches' <= MaxQueue + BatchSize * Cardinality(Callers)
  <2>1. PICK a \in Nat : a = RagIndex!InBatches
    BY InBatchesBounded
  <2>2. PICK b : b = BatchSize * Cardinality(Callers)
    OBVIOUS
  <2>3. b \in Nat /\ a <= b
    <3>1. Cardinality(Callers) \in Nat
      BY <1>2, FiniteCallers, FS_CardinalityType
    <3> QED
      BY <1>2, <2>1, <2>2, <3>1, InBatchesBounded
  <2>4. Len(queue) + a <= MaxQueue + b /\ RagIndex!InBatches' = a
    BY <1>3, <2>1, <2>2, BatchesKept DEF TasksIInv
  <2>5. PICK l \in Nat : l = Len(queue)
    BY <1>2
  <2>6. Len(queue') = IF l < MaxQueue THEN l + 1 ELSE l
    BY <1>2, <1>3, <2>5, AppendProperties
  <2>7. (IF l < MaxQueue THEN l + 1 ELSE l) + a <= MaxQueue + b
    BY <1>2, <2>1, <2>3, <2>4, <2>5
  <2> QED
    BY <2>2, <2>4, <2>6, <2>7
<1>11. \A t \in 1..(n + 1) : attempts'[t] <= MaxRetries + 1
  BY <1>2, <1>5
<1>12. /\ \A t \in Members(queue') : attempts'[t] <= MaxRetries
       /\ \A c \in Callers : Len(batches'[c]) <= BatchSize /\ \A t \in Members(batches'[c]) : attempts'[t] <= MaxRetries
  <2>1. \A t \in Members(queue') : attempts'[t] <= MaxRetries
    <3> SUFFICES ASSUME NEW t \in Members(queue') PROVE attempts'[t] <= MaxRetries
      OBVIOUS
    <3>1. CASE t \in Members(queue)
      BY <1>2, <1>5, <1>6, <3>1
    <3>2. CASE t = n + 1
      <4>1. attempts'[n + 1] = 0 /\ MaxRetries \in Nat
        BY <1>2, <1>5
      <4> QED
        BY <3>2, <4>1
    <3> QED
      BY <1>7, <3>1, <3>2
  <2>2. \A c \in Callers : \A t \in Members(batches[c]) : attempts'[t] <= MaxRetries
    BY <1>2, <1>5, <1>6
  <2> QED
    BY <1>2, <1>3, <2>1, <2>2
<1>13. batches' \in [Callers -> Seq(1..(n + 1))]
  <2>1. \A s \in Seq(1..n) : s \in Seq(1..(n + 1))
    <3> SUFFICES ASSUME NEW s \in Seq(1..n) PROVE s \in Seq(1..(n + 1))
      OBVIOUS
    <3>1. s \in [1..Len(s) -> 1..(n + 1)] /\ Len(s) \in Nat
      OBVIOUS
    <3> QED
      BY <3>1
  <2> QED
    BY <1>2, <1>3, <2>1
<1>14. RagIndex!TasksAssumption' /\ Len(attempts') = Len(actions') /\ queue' \in Seq(1..Len(actions'))
       /\ batches' \in [Callers -> Seq(1..Len(actions'))] /\ \A t \in 1..Len(actions') : attempts'[t] <= MaxRetries + 1
  BY <1>2, <1>4, <1>5, <1>7, <1>11, <1>13 DEF RagIndex!TasksAssumption
<1> QED
  BY <1>4, <1>5, <1>9, <1>10, <1>12, <1>14 DEF TasksIInv, Kinds

(* A step that takes tasks out of one batch, and may put some of them back *)
(* in the queue.                                                           *)
LEMMA Shortened ==
  ASSUME TasksIInv, NEW c \in Callers, NEW s \in Seq(1..Len(actions)), NEW q \in Seq(1..Len(actions)),
         UNCHANGED actions, batches' = [batches EXCEPT ![c] = s], queue' = q,
         Distinct(s), Ordered(s), Members(s) \subseteq Members(batches[c]), Len(s) <= Len(batches[c]),
         Distinct(q), Members(q) \cap Members(s) = {},
         Members(q) \subseteq Members(queue) \cup Members(batches[c]),
         Len(q) + Len(s) <= Len(queue) + Len(batches[c]),
         attempts' \in Seq(Nat), Len(attempts') = Len(actions),
         \A t \in 1..Len(actions) : attempts'[t] <= MaxRetries + 1,
         \A t \in 1..Len(actions) : t \notin Members(batches[c]) => attempts'[t] = attempts[t],
         \A t \in Members(s) \cup Members(q) : t \in Members(batches[c]) => attempts'[t] <= MaxRetries
  PROVE  TasksIInv'
<1>1. PICK n \in Nat : n = Len(actions)
  BY DEF TasksIInv
<1>2. /\ RagIndex!TasksAssumption /\ BatchSize \in Nat /\ actions \in Seq(Kinds)
      /\ queue \in Seq(1..n) /\ batches \in [Callers -> Seq(1..n)] /\ Apart(queue, batches)
      /\ \A t \in Members(queue) : attempts[t] <= MaxRetries
      /\ \A d \in Callers : Len(batches[d]) <= BatchSize /\ \A t \in Members(batches[d]) : attempts[t] <= MaxRetries
  BY <1>1 DEF TasksIInv, RagIndex!TasksAssumption
<1>3. \A z \in Seq(1..n) : \A t \in Members(z) : t \in 1..n
  BY DEF Members
<1>4. batches'[c] = s /\ \A d \in Callers \ {c} : batches'[d] = batches[d]
  BY <1>2
<1>5. \A z : Ordered(z) => Ordered(z)'
  BY DEF Ordered, RagIndex!Before, RagIndex!Priority
<1>6. Apart(queue, batches)'
  <2>1. PICK b : b = batches'
    OBVIOUS
  <2>2. /\ Members(batches[c]) \cap Members(queue) = {}
        /\ \A d \in Callers \ {c} : /\ Members(batches[d]) \cap Members(queue) = {}
                                    /\ Members(batches[d]) \cap Members(batches[c]) = {}
    BY <1>2 DEF Apart
  <2>3. ASSUME NEW d \in Callers
        PROVE  /\ Distinct(b[d]) /\ Members(b[d]) \cap Members(q) = {}
               /\ \A e \in Callers \ {d} : Members(b[d]) \cap Members(b[e]) = {}
    <3>1. CASE d = c
      BY <1>4, <2>1, <2>2, <3>1
    <3>2. CASE d # c
      <4>1. b[d] = batches[d] /\ Distinct(b[d]) /\ Members(b[d]) \cap Members(q) = {}
        BY <1>2, <1>4, <2>1, <2>2, <3>2 DEF Apart
      <4>2. ASSUME NEW e \in Callers \ {d} PROVE Members(b[d]) \cap Members(b[e]) = {}
        <5>1. CASE e = c
          BY <1>4, <2>1, <2>2, <3>2, <4>1, <5>1
        <5>2. CASE e # c
          BY <1>2, <1>4, <2>1, <4>1, <5>2 DEF Apart
        <5> QED
          BY <5>1, <5>2
      <4> QED
        BY <4>1, <4>2
    <3> QED
      BY <3>1, <3>2
  <2>4. ASSUME NEW d \in Callers, NEW z, z = b[d] PROVE Ordered(z)'
    <3>1. Ordered(z)
      BY <1>2, <1>4, <2>1, <2>4 DEF Apart
    <3> QED
      BY <1>5, <3>1
  <2>5. batches' = b /\ queue' = q
    BY <2>1
  <2> QED
    BY <2>3, <2>4, <2>5, StillApart
<1>7. Len(queue') + RagIndex!InBatches' <= MaxQueue + BatchSize * Cardinality(Callers)
  <2>1. PICK m \in Nat : m = Len(q)
    OBVIOUS
  <2> QED
    BY <2>1, NoMoreTasks
<1>8. \A t \in Members(queue') : attempts'[t] <= MaxRetries
  <2> SUFFICES ASSUME NEW t \in Members(q) PROVE attempts'[t] <= MaxRetries
    OBVIOUS
  <2>1. CASE t \in Members(batches[c])
    BY <2>1
  <2>2. CASE t \notin Members(batches[c])
    <3>1. t \in Members(queue) /\ t \in 1..n
      BY <1>2, <1>3, <2>2
    <3> QED
      BY <1>1, <1>2, <2>2, <3>1
  <2> QED
    BY <2>1, <2>2
<1>9. ASSUME NEW d \in Callers
      PROVE  Len(batches'[d]) <= BatchSize /\ \A t \in Members(batches'[d]) : attempts'[t] <= MaxRetries
  <2>1. CASE d = c
    <3>1. PICK l \in Nat, k \in Nat : l = Len(s) /\ k = Len(batches[c])
      BY <1>2
    <3>2. l <= BatchSize
      BY <1>2, <3>1
    <3> QED
      BY <1>4, <2>1, <3>1, <3>2
  <2>2. CASE d # c
    <3>1. \A t \in Members(batches[d]) : t \in 1..n /\ t \notin Members(batches[c])
      BY <1>2, <1>3, <2>2 DEF Apart
    <3> QED
      BY <1>1, <1>2, <1>4, <2>2, <3>1
  <2> QED
    BY <2>1, <2>2
<1>10. /\ RagIndex!TasksAssumption' /\ actions' \in Seq(Kinds) /\ Len(attempts') = Len(actions')
       /\ queue' \in Seq(1..Len(actions')) /\ batches' \in [Callers -> Seq(1..Len(actions'))]
       /\ \A t \in 1..Len(actions') : attempts'[t] <= MaxRetries + 1
  BY <1>1, <1>2 DEF RagIndex!TasksAssumption
<1> QED
  BY <1>6, <1>7, <1>8, <1>9, <1>10 DEF TasksIInv, Kinds

(* The deletions of a batch come first: as many places as there are.       *)
LEMMA DeletionsFirst ==
  ASSUME actions \in Seq(Kinds), NEW s \in Seq(1..Len(actions)), Ordered(s), Distinct(s),
         NEW m \in 1..Len(s), actions[s[m]] = "delete"
  PROVE  m <= Cardinality({t \in Members(s) : actions[t] = "delete"})
<1> DEFINE D == {t \in Members(s) : actions[t] = "delete"}
           f == [i \in 1..m |-> s[i]]
<1>1. m \in Nat /\ Len(s) \in Nat /\ m <= Len(s) /\ \A i \in 1..Len(s) : s[i] \in 1..Len(actions)
  OBVIOUS
<1>2. ASSUME NEW i \in 1..m PROVE i \in 1..Len(s) /\ s[i] \in D
  <2>1. i \in 1..Len(s)
    BY <1>1
  <2>2. CASE i = m
    BY <2>1, <2>2 DEF Members
  <2>3. CASE i # m
    <3>1. i < m
      BY <1>1, <2>3
    <3>2. RagIndex!Before(s[i], s[m])
      BY <2>1, <3>1 DEF Ordered
    <3>3. RagIndex!Priority[actions[s[m]]] = 1
      BY DEF RagIndex!Priority
    <3>4. RagIndex!Priority[actions[s[i]]] \in 1..5 /\ RagIndex!Priority[actions[s[i]]] <= 1
      <4> DEFINE t == s[i]
                 u == s[m]
      <4>1. t \in 1..Len(actions) /\ u \in 1..Len(actions)
        BY <1>1, <2>1
      <4>2. RagIndex!Before(t, u) /\ RagIndex!Priority[actions[u]] = 1
        BY <3>2, <3>3
      <4> HIDE DEF t, u
      <4>3. /\ RagIndex!Priority[actions[t]] \in 1..5
            /\ \/ RagIndex!Priority[actions[t]] < RagIndex!Priority[actions[u]]
               \/ RagIndex!Priority[actions[t]] = RagIndex!Priority[actions[u]]
        BY <4>1, <4>2, Comparable
      <4>4. RagIndex!Priority[actions[t]] <= 1
        BY <4>2, <4>3
      <4> QED
        BY <4>3, <4>4 DEF t
    <3>5. actions[s[i]] \in Kinds
      BY <1>1, <2>1
    <3>6. actions[s[i]] = "delete"
      BY <3>4, <3>5 DEF Kinds, RagIndex!Priority
    <3> QED
      BY <2>1, <3>6 DEF Members
  <2> QED
    BY <2>2, <2>3
<1>3. f \in Injection(1..m, D)
  <2>1. f \in [1..m -> D]
    BY <1>2
  <2>2. ASSUME NEW i \in 1..m, NEW k \in 1..m, f[i] = f[k] PROVE i = k
    <3>1. s[i] = s[k] /\ i \in 1..Len(s) /\ k \in 1..Len(s)
      BY <1>2, <2>2
    <3> QED
      BY <3>1 DEF Distinct
  <2> HIDE DEF f, D
  <2> QED
    BY <2>1, <2>2 DEF Injection, IsInjective
<1>4. IsFiniteSet(D)
  <2>1. IsFiniteSet(1..Len(actions))
    <3>1. 1 \in Int /\ Len(actions) \in Int
      OBVIOUS
    <3> QED
      BY <3>1, FS_Interval
  <2>2. D \subseteq 1..Len(actions)
    BY <1>1 DEF Members
  <2> QED
    BY <2>1, <2>2, FS_Subset
<1>5. Cardinality(1..m) = m
  <2>1. 1 \in Int /\ m \in Int /\ ~(1 > m) /\ (m - 1) + 1 = m
    BY <1>1
  <2> QED
    BY <2>1, FS_Interval
<1> HIDE DEF D, f
<1>6. Cardinality(1..m) <= Cardinality(D)
  BY <1>3, <1>4, FS_Injection
<1> QED
  BY <1>5, <1>6 DEF D

LEMMA Deleting ==
  ASSUME TasksIInv, NEW c \in Callers, RagIndex!Deletions(c)
  PROVE  TasksIInv'
<1>1. PICK n \in Nat : n = Len(actions)
  BY DEF TasksIInv
<1>2. /\ RagIndex!TasksAssumption /\ BatchSize \in Nat /\ MaxRetries \in Nat /\ actions \in Seq(Kinds)
      /\ attempts \in Seq(Nat) /\ Len(attempts) = n
      /\ queue \in Seq(1..n) /\ batches \in [Callers -> Seq(1..n)] /\ Apart(queue, batches)
      /\ \A t \in 1..n : attempts[t] <= MaxRetries + 1
      /\ \A t \in Members(queue) : attempts[t] <= MaxRetries
      /\ \A d \in Callers : Len(batches[d]) <= BatchSize /\ \A t \in Members(batches[d]) : attempts[t] <= MaxRetries
  BY <1>1 DEF TasksIInv, RagIndex!TasksAssumption
<1>3. PICK b \in Seq(1..n) : b = batches[c]
  BY <1>2
<1>4. /\ Distinct(b) /\ Ordered(b) /\ Members(b) \cap Members(queue) = {}
      /\ Distinct(queue) /\ \A t \in Members(b) : t \in 1..n /\ attempts[t] <= MaxRetries
  <2>1. Distinct(b) /\ Ordered(b) /\ Members(b) \cap Members(queue) = {} /\ Distinct(queue)
    BY <1>2, <1>3 DEF Apart
  <2>2. \A t \in Members(b) : t \in 1..n
    BY DEF Members
  <2> QED
    BY <1>2, <1>3, <2>1, <2>2
<1>5. PICK D : D = {t \in Members(b) : actions[t] = "delete"}
  OBVIOUS
<1>6. RagIndex!ToSet(b) = Members(b)
  <2>1. DOMAIN b = 1..Len(b)
    OBVIOUS
  <2> QED
    BY <2>1 DEF RagIndex!ToSet, Members
<1>7. RagIndex!Cardinality(D) = Cardinality(D)
  BY DEF RagIndex!Cardinality, Cardinality
<1>8. PICK j \in Nat : j = Cardinality(D)
  <2>1. IsFiniteSet(1..n)
    BY FS_Interval
  <2>2. D \subseteq 1..n
    BY <1>4, <1>5
  <2> QED
    BY <2>1, <2>2, FS_Subset, FS_CardinalityType
<1>9. PICK a \in Nat \ {0} : a = j + 1
  OBVIOUS
<1>10. PICK s : s = SubSeq(b, a, Len(b))
  OBVIOUS
<1>11. /\ attempts' = RagIndex!Tried(D) /\ batches' = [batches EXCEPT ![c] = s]
       /\ UNCHANGED <<queue, actions, dropped>>
  BY <1>3, <1>5, <1>6, <1>7, <1>8, <1>9, <1>10 DEF RagIndex!Deletions
<1>12. /\ s \in Seq(1..n) /\ Len(s) <= Len(b) /\ Members(s) \subseteq Members(b) /\ Distinct(s) /\ Ordered(s)
       /\ \A i \in 1..Len(s) : (a + i) - 1 \in a..Len(b) /\ s[i] = b[(a + i) - 1]
  <2>1. PICK l \in Nat : l = Len(b)
    OBVIOUS
  <2>2. l <= Len(b)
    BY <2>1
  <2>3. /\ s \in Seq(1..n) /\ Len(s) = (IF a <= l THEN (l - a) + 1 ELSE 0)
        /\ \A i \in 1..Len(s) : (a + i) - 1 \in a..l /\ s[i] = b[(a + i) - 1]
        /\ Members(s) \subseteq Members(b) /\ Distinct(s) /\ Ordered(s)
    BY <1>4, <1>10, <2>1, <2>2, PartOf
  <2>4. Len(s) <= l
    BY <2>3
  <2> QED
    BY <2>1, <2>3, <2>4
<1>13. \A t \in Members(s) : t \notin D
  <2> SUFFICES ASSUME NEW i \in 1..Len(s), s[i] \in D PROVE FALSE
    BY DEF Members
  <2>1. PICK m \in a..Len(b) : s[i] = b[m]
    BY <1>12
  <2>2. m \in 1..Len(b) /\ m > j
    BY <1>8, <1>9
  <2>3. actions[b[m]] = "delete"
    BY <1>5, <2>1
  <2>4. m <= Cardinality(D)
    BY <1>1, <1>2, <1>4, <1>5, <2>2, <2>3, DeletionsFirst
  <2> QED
    BY <1>8, <2>2, <2>4
<1>14. /\ attempts' \in Seq(Nat) /\ Len(attempts') = n
       /\ \A t \in 1..n : attempts'[t] = IF t \in D THEN attempts[t] + 1 ELSE attempts[t]
  BY <1>2, <1>11 DEF RagIndex!Tried
<1>15. \A t \in 1..n : attempts'[t] <= MaxRetries + 1
  <2> SUFFICES ASSUME NEW t \in 1..n PROVE attempts'[t] <= MaxRetries + 1
    OBVIOUS
  <2>1. attempts[t] \in Nat /\ attempts[t] <= MaxRetries + 1 /\ MaxRetries \in Nat
    BY <1>2
  <2>2. t \in D => attempts[t] <= MaxRetries
    BY <1>4, <1>5
  <2>3. attempts'[t] = IF t \in D THEN attempts[t] + 1 ELSE attempts[t]
    BY <1>14
  <2> QED
    BY <2>1, <2>2, <2>3
<1>16. \A t \in 1..n : t \notin Members(b) => attempts'[t] = attempts[t]
  BY <1>5, <1>14
<1>17. \A t \in Members(s) \cup Members(queue) : t \in Members(b) => attempts'[t] <= MaxRetries
  BY <1>4, <1>12, <1>13, <1>14
<1>18. Members(queue) \cap Members(s) = {}
  BY <1>4, <1>12
<1>19. Len(queue) + Len(s) <= Len(queue) + Len(b)
  <2>1. PICK k \in Nat, l \in Nat, m \in Nat : k = Len(queue) /\ l = Len(s) /\ m = Len(b)
    BY <1>2, <1>12
  <2> QED
    BY <1>12, <2>1
<1>20. PICK q : q = queue
  OBVIOUS
<1> QED
  BY <1>1, <1>2, <1>3, <1>4, <1>11, <1>12, <1>14, <1>15, <1>16, <1>17, <1>18, <1>19, <1>20, Shortened

LEMMA Processing ==
  ASSUME TasksIInv, NEW c \in Callers, RagIndex!Process(c)
  PROVE  TasksIInv'
<1>1. PICK n \in Nat : n = Len(actions)
  BY DEF TasksIInv
<1>2. /\ RagIndex!TasksAssumption /\ BatchSize \in Nat /\ MaxRetries \in Nat /\ actions \in Seq(Kinds)
      /\ attempts \in Seq(Nat) /\ Len(attempts) = n
      /\ queue \in Seq(1..n) /\ batches \in [Callers -> Seq(1..n)] /\ Apart(queue, batches)
      /\ \A t \in 1..n : attempts[t] <= MaxRetries + 1
      /\ \A t \in Members(queue) : attempts[t] <= MaxRetries
      /\ \A d \in Callers : Len(batches[d]) <= BatchSize /\ \A t \in Members(batches[d]) : attempts[t] <= MaxRetries
  BY <1>1 DEF TasksIInv, RagIndex!TasksAssumption
<1>3. PICK b \in Seq(1..n) : b = batches[c]
  BY <1>2
<1>4. /\ Distinct(b) /\ Ordered(b) /\ Members(b) \cap Members(queue) = {}
      /\ Distinct(queue) /\ \A t \in Members(b) : t \in 1..n /\ attempts[t] <= MaxRetries
  <2>1. Distinct(b) /\ Ordered(b) /\ Members(b) \cap Members(queue) = {} /\ Distinct(queue)
    BY <1>2, <1>3 DEF Apart
  <2>2. \A t \in Members(b) : t \in 1..n
    BY DEF Members
  <2> QED
    BY <1>2, <1>3, <2>1, <2>2
<1>5. PICK t, s : t = Head(b) /\ s = Tail(b)
  OBVIOUS
<1>6. /\ b # <<>> /\ attempts' = RagIndex!Tried({t}) /\ batches' = [batches EXCEPT ![c] = s]
      /\ queue' = queue \/ queue' = IF attempts[t] < MaxRetries THEN Append(queue, t) ELSE queue
      /\ UNCHANGED <<actions, dropped>>
  BY <1>3, <1>5 DEF RagIndex!Process, RagIndex!Retries
<1>7. PICK l \in Nat \ {0} : l = Len(b)
  BY <1>6
<1>8. /\ s \in Seq(1..n) /\ Len(s) = l - 1 /\ t = b[1]
      /\ \A i \in 1..Len(s) : i + 1 \in 1..l /\ s[i] = b[i + 1]
  BY <1>5, <1>6, <1>7
<1>9. t \in Members(b) /\ t \in 1..n /\ attempts[t] \in Nat /\ attempts[t] <= MaxRetries
  <2>1. 1 \in 1..Len(b)
    BY <1>7
  <2>2. t \in Members(b)
    BY <1>8, <2>1 DEF Members
  <2> QED
    BY <1>2, <1>4, <2>2
<1>10. Members(s) \subseteq Members(b) /\ t \notin Members(s)
  <2>1. ASSUME NEW i \in 1..Len(s) PROVE s[i] \in Members(b) /\ s[i] # t
    <3>1. PICK m \in 1..Len(b) : s[i] = b[m] /\ m # 1
      <4>1. i + 1 \in 1..Len(b) /\ s[i] = b[i + 1] /\ i + 1 # 1
        BY <1>7, <1>8
      <4> QED
        BY <4>1
    <3>2. 1 \in 1..Len(b)
      BY <1>7
    <3> QED
      BY <1>4, <1>8, <3>1, <3>2 DEF Members, Distinct
  <2> QED
    BY <2>1 DEF Members
<1>11. Distinct(s) /\ Ordered(s)
  <2>1. ASSUME NEW i \in 1..Len(s) PROVE i + 1 \in 1..Len(b) /\ s[i] = b[i + 1] /\ i \in Nat
    BY <1>7, <1>8
  <2>2. ASSUME NEW i \in 1..Len(s), NEW k \in 1..Len(s), s[i] = s[k] PROVE i = k
    <3>1. i + 1 = k + 1
      BY <1>4, <2>1, <2>2 DEF Distinct
    <3> QED
      BY <2>1, <3>1
  <2>3. ASSUME NEW i \in 1..Len(s), NEW k \in 1..Len(s), i < k PROVE RagIndex!Before(s[i], s[k])
    <3>1. i + 1 < k + 1
      BY <2>1, <2>3
    <3> QED
      BY <1>4, <2>1, <3>1 DEF Ordered
  <2> QED
    BY <2>2, <2>3 DEF Distinct, Ordered
<1>12. /\ attempts' \in Seq(Nat) /\ Len(attempts') = n
       /\ \A u \in 1..n : attempts'[u] = IF u = t THEN attempts[u] + 1 ELSE attempts[u]
  BY <1>2, <1>6 DEF RagIndex!Tried
<1>13. \A u \in 1..n : attempts'[u] <= MaxRetries + 1
  <2> SUFFICES ASSUME NEW u \in 1..n PROVE attempts'[u] <= MaxRetries + 1
    OBVIOUS
  <2>1. attempts[u] \in Nat /\ attempts[u] <= MaxRetries + 1
    BY <1>2
  <2>2. attempts'[u] = IF u = t THEN attempts[u] + 1 ELSE attempts[u]
    BY <1>12
  <2> QED
    BY <1>2, <1>9, <2>1, <2>2
<1>14. \A u \in 1..n : u \notin Members(b) => attempts'[u] = attempts[u]
  BY <1>9, <1>12
<1>a. PICK m \in Nat : m = Len(queue)
  BY <1>2
<1>15. PICK q : q = queue'
  OBVIOUS
<1>16. CASE q = queue
  <2>1. \A u \in Members(s) \cup Members(q) : u \in Members(b) => attempts'[u] <= MaxRetries
    BY <1>4, <1>10, <1>12, <1>16
  <2>2. q \in Seq(1..n) /\ Distinct(q) /\ Members(q) \cap Members(s) = {} /\ Members(q) \subseteq Members(queue)
    BY <1>2, <1>4, <1>10, <1>16
  <2>3. Len(s) <= Len(b) /\ Len(q) + Len(s) <= Len(queue) + Len(b)
    BY <1>7, <1>8, <1>a, <1>15, <1>16
  <2> QED
    BY <1>1, <1>3, <1>6, <1>8, <1>10, <1>11, <1>12, <1>13, <1>14, <1>15, <2>1, <2>2, <2>3, Shortened
<1>17. CASE attempts[t] < MaxRetries /\ q = Append(queue, t)
  <2>1. /\ q \in Seq(1..n) /\ Len(q) = m + 1 /\ q[m + 1] = t /\ \A i \in 1..m : q[i] = queue[i]
    BY <1>2, <1>9, <1>a, <1>15, <1>17, AppendProperties
  <2>2. \A i \in 1..Len(q) : i # m + 1 => i \in 1..Len(queue) /\ q[i] = queue[i]
    BY <1>a, <2>1
  <2>3. Members(q) \subseteq Members(queue) \cup {t}
    BY <2>1, <2>2 DEF Members
  <2>4. \A i \in 1..Len(queue) : queue[i] # t
    BY <1>4, <1>9 DEF Members
  <2>5. Distinct(q)
    <3> SUFFICES ASSUME NEW i \in 1..Len(q), NEW k \in 1..Len(q), q[i] = q[k] PROVE i = k
      BY DEF Distinct
    <3>1. CASE i = m + 1 \/ k = m + 1
      BY <2>1, <2>2, <2>4, <3>1
    <3>2. CASE i # m + 1 /\ k # m + 1
      BY <1>4, <2>2, <3>2 DEF Distinct
    <3> QED
      BY <3>1, <3>2
  <2>6. Members(q) \cap Members(s) = {} /\ Members(q) \subseteq Members(queue) \cup Members(b)
    BY <1>4, <1>9, <1>10, <2>3
  <2>7. attempts'[t] <= MaxRetries
    <3>1. attempts'[t] = attempts[t] + 1
      BY <1>9, <1>12
    <3> QED
      BY <1>2, <1>9, <1>17, <3>1
  <2>8. \A u \in Members(s) \cup Members(q) : u \in Members(b) => attempts'[u] <= MaxRetries
    BY <1>4, <1>10, <1>12, <2>3, <2>7
  <2>9. Len(s) <= Len(b) /\ Len(q) + Len(s) <= Len(queue) + Len(b)
    BY <1>7, <1>8, <1>a, <1>15, <2>1
  <2> QED
    BY <1>1, <1>3, <1>6, <1>8, <1>10, <1>11, <1>12, <1>13, <1>14, <1>15, <2>1, <2>5, <2>6, <2>8, <2>9, Shortened
<1> QED
  BY <1>6, <1>15, <1>16, <1>17

LEMMA Losing ==
  ASSUME TasksIInv, RagIndex!Lose
  PROVE  TasksIInv'
<1>1. PICK n \in Nat : n = Len(actions)
  BY DEF TasksIInv
<1>2. /\ RagIndex!TasksAssumption /\ BatchSize \in Nat /\ MaxRetries \in Nat /\ MaxQueue \in Nat
      /\ actions \in Seq(Kinds) /\ attempts \in Seq(Nat) /\ Len(attempts) = n
      /\ queue \in Seq(1..n) /\ batches \in [Callers -> Seq(1..n)] /\ Apart(queue, batches)
      /\ \A t \in 1..n : attempts[t] <= MaxRetries + 1
      /\ \A d \in Callers : Len(batches[d]) <= BatchSize /\ \A t \in Members(batches[d]) : attempts[t] <= MaxRetries
  BY <1>1 DEF TasksIInv, RagIndex!TasksAssumption
<1>3. PICK s : s = <<>>
  OBVIOUS
<1>4. /\ s \in Seq(1..n) /\ Len(s) = 0 /\ Distinct(s) /\ Ordered(s) /\ Members(s) = {}
  BY <1>3 DEF Distinct, Ordered, Members
<1>5. ASSUME NEW c \in Callers, batches' = [batches EXCEPT ![c] = <<>>], UNCHANGED <<queue, actions, attempts>>
      PROVE  TasksIInv'
  <2>1. PICK q \in Seq(1..n), l \in Nat, m \in Nat : q = queue /\ l = Len(q) /\ m = Len(batches[c])
    BY <1>2
  <2>2. Distinct(q) /\ Members(q) \cap Members(batches[c]) = {}
    BY <1>2, <2>1 DEF Apart
  <2>3. batches' = [batches EXCEPT ![c] = s] /\ queue' = q /\ UNCHANGED actions /\ attempts' = attempts
    BY <1>3, <1>5, <2>1
  <2>4. Len(s) <= Len(batches[c]) /\ Len(q) + Len(s) <= Len(queue) + Len(batches[c])
    BY <1>4, <2>1
  <2>5. \A t \in Members(s) \cup Members(q) : t \in Members(batches[c]) => attempts'[t] <= MaxRetries
    BY <1>4, <2>2
  <2> QED
    BY <1>1, <1>2, <1>4, <2>1, <2>2, <2>3, <2>4, <2>5, Shortened
<1>6. ASSUME queue' = <<>>, UNCHANGED <<actions, attempts, batches>>
      PROVE  TasksIInv'
  <2>1. PICK b : b = batches
    OBVIOUS
  <2>2. \A c \in Callers : \A z : z = b[c] => Ordered(z)'
    <3>1. \A z : Ordered(z) => Ordered(z)'
      BY <1>6 DEF Ordered, RagIndex!Before, RagIndex!Priority
    <3>2. \A c \in Callers : Ordered(b[c])
      BY <1>2, <2>1 DEF Apart
    <3> QED
      BY <3>1, <3>2
  <2>3. \A c \in Callers : /\ Distinct(b[c]) /\ Members(b[c]) \cap Members(s) = {}
                           /\ \A d \in Callers \ {c} : Members(b[c]) \cap Members(b[d]) = {}
    BY <1>2, <1>4, <2>1 DEF Apart
  <2>4. queue' = s /\ batches' = b
    BY <1>3, <1>6, <2>1
  <2>5. Apart(queue, batches)'
    BY <1>4, <2>2, <2>3, <2>4, StillApart
  <2>6. Len(queue') + RagIndex!InBatches' <= MaxQueue + BatchSize * Cardinality(Callers)
    <3>1. PICK a \in Nat, p \in Nat : a = RagIndex!InBatches /\ p = BatchSize * Cardinality(Callers) /\ a <= p
      <4>1. Cardinality(Callers) \in Nat
        BY <1>2, FiniteCallers, FS_CardinalityType
      <4> QED
        BY <1>2, <4>1, InBatchesBounded
    <3>2. RagIndex!InBatches' = a /\ Len(queue') = 0
      BY <1>4, <1>6, <2>4, <3>1, BatchesKept
    <3> QED
      BY <1>2, <3>1, <3>2
  <2>7. \A t \in Members(queue') : attempts'[t] <= MaxRetries
    BY <1>4, <2>4
  <2>8. /\ RagIndex!TasksAssumption' /\ actions' \in Seq(Kinds) /\ attempts' \in Seq(Nat)
        /\ Len(attempts') = Len(actions')
        /\ queue' \in Seq(1..Len(actions')) /\ batches' \in [Callers -> Seq(1..Len(actions'))]
        /\ \A t \in 1..Len(actions') : attempts'[t] <= MaxRetries + 1
        /\ \A d \in Callers : Len(batches'[d]) <= BatchSize /\ \A t \in Members(batches'[d]) : attempts'[t] <= MaxRetries
    BY <1>1, <1>2, <1>4, <1>6, <2>4 DEF RagIndex!TasksAssumption
  <2> QED
    BY <2>5, <2>6, <2>7, <2>8 DEF TasksIInv, Kinds
<1> QED
  BY <1>5, <1>6 DEF RagIndex!Lose

-----------------------------------------------------------------------------
LEMMA TasksStep == TasksIInv /\ [RagIndex!Next]_(RagIndex!vars) => TasksIInv'
<1> SUFFICES ASSUME TasksIInv, [RagIndex!Next]_(RagIndex!vars) PROVE TasksIInv'
  OBVIOUS
<1>1. CASE RagIndex!TaskNext
  <2>1. DOMAIN RagIndex!Priority = Kinds
    BY DEF RagIndex!Priority, Kinds
  <2> QED
    BY <1>1, <2>1, Scheduling, Cutting, Deleting, Processing, Losing DEF RagIndex!TaskNext
<1>2. CASE UNCHANGED <<queue, actions, attempts, batches>>
  BY <1>2, TasksKept
<1> QED
  BY <1>1, <1>2 DEF RagIndex!Next, RagIndex!vars, RagIndex!taskVars

LEMMA TasksHold == TasksIInv => RagIndex!TasksAccounted
<1> SUFFICES ASSUME TasksIInv PROVE RagIndex!TasksAccounted
  OBVIOUS
<1>1. PICK n \in Nat : n = Len(actions)
  BY DEF TasksIInv
<1>2. /\ queue \in Seq(1..n) /\ batches \in [Callers -> Seq(1..n)] /\ Apart(queue, batches)
      /\ attempts \in Seq(Nat) /\ actions \in Seq(Kinds)
  BY <1>1 DEF TasksIInv
<1>3. \A s \in Seq(1..n) : RagIndex!ToSet(s) = Members(s) /\ (Distinct(s) => RagIndex!IsInjective(s))
  <2> SUFFICES ASSUME NEW s \in Seq(1..n)
               PROVE  RagIndex!ToSet(s) = Members(s) /\ (Distinct(s) => RagIndex!IsInjective(s))
    OBVIOUS
  <2>1. DOMAIN s = 1..Len(s)
    OBVIOUS
  <2>2. RagIndex!ToSet(s) = Members(s)
    BY <2>1 DEF RagIndex!ToSet, Members
  <2>3. Distinct(s) => RagIndex!IsInjective(s)
    BY <2>1 DEF Distinct, RagIndex!IsInjective
  <2> QED
    BY <2>2, <2>3
<1>4. /\ RagIndex!IsInjective(queue)
      /\ \A c \in Callers :
            /\ RagIndex!IsInjective(batches[c])
            /\ RagIndex!ToSet(batches[c]) \cap RagIndex!ToSet(queue) = {}
            /\ \A d \in Callers \ {c} : RagIndex!ToSet(batches[c]) \cap RagIndex!ToSet(batches[d]) = {}
  BY <1>2, <1>3 DEF Apart
<1>5. \A t \in RagIndex!Tasks : attempts[t] <= MaxRetries + 1
  BY <1>1, <1>2 DEF TasksIInv, RagIndex!Tasks
<1>6. RagIndex!Cardinality(Callers) = Cardinality(Callers)
  BY DEF RagIndex!Cardinality, Cardinality
<1> QED
  BY <1>4, <1>5, <1>6 DEF TasksIInv, RagIndex!TasksAccounted

(* RagIndex.TasksAccounted: a task of the index waits at one place, in the *)
(* queue or in one batch, is tried at most once more than it may be        *)
(* retried, and the queue and the batches together hold no more than the   *)
(* queue and one batch for each caller have room for, for every number of  *)
(* callers and of tasks.                                                   *)
THEOREM TasksSafe == RagIndex!TasksAssumption => (RagIndex!Spec => []RagIndex!TasksAccounted)
<1> SUFFICES ASSUME RagIndex!TasksAssumption PROVE RagIndex!Spec => []RagIndex!TasksAccounted
  OBVIOUS
<1> QED
  BY TasksStart, TasksStep, TasksHold, PTL DEF RagIndex!Spec

-----------------------------------------------------------------------------
(***************************************************************************)
(* A conversation: the machine of its states, its slots and its history.   *)
(***************************************************************************)
CONSTANTS Reactions, MaxPath, DialogueSlots, SlotOrder, Values, Entities,
          Topics, MaxTurns, MaxCounter
VARIABLES dialogueUses, dialogueState, path, slotValues, fills, dialogueTurns,
          turnCounter, nameIndex

Dialogue == INSTANCE Dialogue WITH
    Slots <- DialogueSlots, uses <- dialogueUses, state <- dialogueState,
    values <- slotValues, index <- nameIndex, turns <- dialogueTurns,
    counter <- turnCounter

States == {"IDLE", "GREETING", "COLLECTING_INFO", "CONFIRMING", "EXECUTING",
           "WAITING_APPROVAL", "HANDLING_ERROR", "CLOSING"}

(* What has gone through its states as it should: steps of the table only, *)
(* and nobody executes or waits for an approval who did not confirm or     *)
(* handle an error before.                                                 *)
Legal(p) ==
  /\ p \in Seq(States) /\ Len(p) >= 1
  /\ \A i \in 1..(Len(p) - 1) : \E t \in Dialogue!Transitions : t[1] = p[i] /\ t[3] = p[i + 1]
  /\ \A i \in 1..Len(p) : p[i] \in {"EXECUTING", "WAITING_APPROVAL"} =>
        \E j \in 1..i : p[j] = "CONFIRMING" \/ p[j] = "HANDLING_ERROR"

(* A state in which events are left to be handled.                         *)
InOrder(r) == Legal(r.path) /\ r.path[Len(r.path)] = r.state

Into(from, to) ==
  /\ from \in States /\ to \in States
  /\ to \in {"EXECUTING", "WAITING_APPROVAL"} =>
        from \in {"EXECUTING", "WAITING_APPROVAL", "CONFIRMING", "HANDLING_ERROR"}

LEMMA TableSteps == \A t \in Dialogue!Transitions : Into(t[1], t[3])
<1>1. \A from \in States : \A to \in {"CLOSING", "CONFIRMING", "COLLECTING_INFO", "HANDLING_ERROR", "GREETING"} :
         Into(from, to)
  BY DEF Into, States
<1>2. \A from \in {"CONFIRMING", "HANDLING_ERROR", "WAITING_APPROVAL"} : Into(from, "EXECUTING")
  BY DEF Into, States
<1>3. Into("EXECUTING", "WAITING_APPROVAL")
  BY DEF Into, States
<1>4. \A from \in {"IDLE", "GREETING", "COLLECTING_INFO", "CONFIRMING", "EXECUTING",
                    "WAITING_APPROVAL", "HANDLING_ERROR"} : from \in States
  BY DEF States
<1> QED
  BY <1>1, <1>2, <1>3, <1>4 DEF Dialogue!Transitions

LEMMA OneEvent ==
  ASSUME NEW r, InOrder(r)
  PROVE  InOrder(Dialogue!Reacted(r))
<1> DEFINE next == {t \in Dialogue!Transitions : t[1] = r.state /\ t[2] = r.event}
           t == CHOOSE t \in next : TRUE
           p == r.path
           n == Len(p)
<1>1. CASE next = {}
  <2>1. Dialogue!Reacted(r).path = r.path /\ Dialogue!Reacted(r).state = r.state
    BY <1>1 DEF Dialogue!Reacted
  <2> QED
    BY <2>1 DEF InOrder
<1>2. CASE next # {}
  <2>1. t \in Dialogue!Transitions /\ t[1] = r.state
    BY <1>2
  <2>2. Dialogue!Reacted(r).path = Append(p, t[3]) /\ Dialogue!Reacted(r).state = t[3]
    BY <1>2 DEF Dialogue!Reacted
  <2> HIDE DEF t
  <2>3. t[1] \in States /\ t[3] \in States
        /\ (t[3] \in {"EXECUTING", "WAITING_APPROVAL"} =>
              t[1] \in {"EXECUTING", "WAITING_APPROVAL", "CONFIRMING", "HANDLING_ERROR"})
    BY <2>1, TableSteps DEF Into
  <2>4. p \in Seq(States) /\ n \in Nat /\ n >= 1 /\ p[n] = t[1]
    BY <2>1 DEF InOrder, Legal
  <2> DEFINE q == Append(p, t[3])
  <2>5. q \in Seq(States) /\ Len(q) = n + 1 /\ q[n + 1] = t[3] /\ \A i \in 1..n : q[i] = p[i]
    BY <2>3, <2>4, AppendProperties
  <2> HIDE DEF q
  <2>6. \A i \in 1..n : \E u \in Dialogue!Transitions : u[1] = q[i] /\ u[3] = q[i + 1]
    <3> SUFFICES ASSUME NEW i \in 1..n PROVE \E u \in Dialogue!Transitions : u[1] = q[i] /\ u[3] = q[i + 1]
      OBVIOUS
    <3>1. CASE i = n
      BY <2>1, <2>4, <2>5, <3>1
    <3>2. CASE i # n
      <4>1. i \in 1..(n - 1) /\ i + 1 \in 1..n
        BY <2>4, <3>2
      <4> QED
        BY <2>5, <4>1 DEF InOrder, Legal
    <3> QED
      BY <3>1, <3>2
  <2>7. \A i \in 1..n : p[i] \in {"EXECUTING", "WAITING_APPROVAL"} =>
            \E j \in 1..i : p[j] = "CONFIRMING" \/ p[j] = "HANDLING_ERROR"
    BY DEF InOrder, Legal
  <2>8. \A i \in 1..(n + 1) : q[i] \in {"EXECUTING", "WAITING_APPROVAL"} =>
            \E j \in 1..i : q[j] = "CONFIRMING" \/ q[j] = "HANDLING_ERROR"
    <3> SUFFICES ASSUME NEW i \in 1..(n + 1), q[i] \in {"EXECUTING", "WAITING_APPROVAL"}
                 PROVE  \E j \in 1..i : q[j] = "CONFIRMING" \/ q[j] = "HANDLING_ERROR"
      OBVIOUS
    <3>1. CASE i # n + 1
      <4>1. i \in 1..n /\ \A j \in 1..i : j \in 1..n
        BY <2>4, <3>1
      <4>2. p[i] \in {"EXECUTING", "WAITING_APPROVAL"}
        BY <2>5, <4>1
      <4>3. PICK j \in 1..i : p[j] = "CONFIRMING" \/ p[j] = "HANDLING_ERROR"
        BY <2>7, <4>1, <4>2
      <4>4. q[j] = p[j]
        BY <2>5, <4>1
      <4> QED
        BY <4>3, <4>4
    <3>2. CASE i = n + 1
      <4>1. p[n] \in {"EXECUTING", "WAITING_APPROVAL", "CONFIRMING", "HANDLING_ERROR"}
        BY <2>3, <2>4, <2>5, <3>2
      <4>2. \E j \in 1..n : p[j] = "CONFIRMING" \/ p[j] = "HANDLING_ERROR"
        BY <2>4, <2>7, <4>1
      <4>3. \A j \in 1..n : j \in 1..i /\ q[j] = p[j]
        BY <2>4, <2>5, <3>2
      <4> QED
        BY <4>2, <4>3
    <3> QED
      BY <3>1, <3>2
  <2>9. Legal(q)
    BY <2>4, <2>5, <2>6, <2>8 DEF Legal
  <2> QED
    BY <2>2, <2>4, <2>5, <2>9 DEF InOrder, q
<1> QED
  BY <1>1, <1>2

(* f is what there is after each of the first n events.                    *)
Traces(f, r, n) ==
  f = [i \in 0..n |-> IF i = 0 THEN r ELSE Dialogue!Reacted(f[i - 1])]

LEMMA TraceExists ==
  ASSUME NEW n \in Nat, NEW r
  PROVE  \E f : Traces(f, r, n)
<1> DEFINE Bad == {m \in 0..n : ~\E f : Traces(f, r, m)}
<1> SUFFICES ASSUME Bad # {} PROVE FALSE
  BY DEF Bad
<1>1. Bad \in SUBSET Nat
  OBVIOUS
<1>2. PICK m \in Bad : \A y \in Bad : m <= y
  BY <1>1, LeastIn
<1>3. m \in 0..n /\ ~\E f : Traces(f, r, m)
  BY <1>2
<1>4. CASE m = 0
  <2> DEFINE f == [i \in 0..0 |-> r]
  <2>1. Traces(f, r, 0)
    BY DEF Traces
  <2> QED
    BY <1>3, <1>4, <2>1
<1>5. CASE m # 0
  <2>1. m - 1 \in 0..n /\ ~(m <= m - 1)
    BY <1>3, <1>5
  <2>2. PICK f : Traces(f, r, m - 1)
    BY <1>2, <2>1
  <2> DEFINE g == [i \in 0..m |-> IF i = m THEN Dialogue!Reacted(f[m - 1]) ELSE f[i]]
  <2>3. \A i \in 0..(m - 1) : f[i] = IF i = 0 THEN r ELSE Dialogue!Reacted(f[i - 1])
    BY <2>2 DEF Traces
  <2>4. ASSUME NEW i \in 0..m PROVE g[i] = IF i = 0 THEN r ELSE Dialogue!Reacted(g[i - 1])
    <3>1. CASE i = m
      <4>1. m \in Nat /\ i - 1 \in 0..m /\ i - 1 # m /\ i - 1 = m - 1
        BY <1>3, <1>5, <3>1
      <4>2. g[i] = Dialogue!Reacted(f[m - 1]) /\ g[i - 1] = f[m - 1]
        BY <3>1, <4>1
      <4> QED
        BY <1>5, <3>1, <4>2
    <3>2. CASE i # m
      <4>1. i \in 0..(m - 1) /\ g[i] = f[i]
        BY <1>3, <3>2
      <4>2. i # 0 => g[i - 1] = f[i - 1]
        BY <1>3, <3>2
      <4> QED
        BY <2>3, <4>1, <4>2
    <3> QED
      BY <3>1, <3>2
  <2>5. Traces(g, r, m)
    <3> HIDE DEF g
    <3>1. g = [i \in 0..m |-> g[i]]
      BY DEF g
    <3> QED
      BY <2>4, <3>1 DEF Traces
  <2> QED
    BY <1>3, <2>5
<1> QED
  BY <1>4, <1>5

LEMMA AllInOrder ==
  ASSUME NEW n \in Nat, NEW r, InOrder(r), NEW f, Traces(f, r, n)
  PROVE  InOrder(f[n])
<1> DEFINE Bad == {m \in 0..n : ~InOrder(f[m])}
<1> SUFFICES ASSUME Bad # {} PROVE FALSE
  BY DEF Bad
<1>1. Bad \in SUBSET Nat
  OBVIOUS
<1>2. PICK m \in Bad : \A y \in Bad : m <= y
  BY <1>1, LeastIn
<1>3. m \in 0..n /\ ~InOrder(f[m]) /\ f[m] = IF m = 0 THEN r ELSE Dialogue!Reacted(f[m - 1])
  BY <1>2 DEF Traces
<1>4. m # 0
  BY <1>3
<1>5. m - 1 \in 0..n /\ ~(m <= m - 1)
  BY <1>3, <1>4
<1>6. InOrder(f[m - 1])
  BY <1>2, <1>5
<1> QED
  BY <1>3, <1>4, <1>6, OneEvent

LEMMA TriggeredInOrder ==
  ASSUME MaxPath \in Nat, Legal(path), path[Len(path)] = dialogueState, NEW event
  PROVE  InOrder(Dialogue!Triggered(event))
<1> DEFINE r == [state |-> dialogueState, path |-> path, event |-> event]
           Fits(g) == g = [n \in 0..MaxPath |-> IF n = 0 THEN [state |-> dialogueState, path |-> path, event |-> event]
                                                ELSE Dialogue!Reacted(g[n - 1])]
<1>1. \E f : Fits(f)
  <2>1. \E f : Traces(f, r, MaxPath)
    BY TraceExists
  <2> QED
    BY <2>1 DEF Traces
<1>2. Dialogue!Triggered(event) = (CHOOSE g : Fits(g))[MaxPath]
  BY DEF Dialogue!Triggered
<1> DEFINE f == CHOOSE g : Fits(g)
<1>3. Fits(f)
  <2> HIDE DEF Fits
  <2> QED
    BY <1>1
<1> HIDE DEF f
<1>4. Traces(f, r, MaxPath)
  BY <1>3 DEF Traces
<1>5. InOrder(r)
  BY DEF InOrder
<1>6. InOrder(f[MaxPath])
  BY <1>4, <1>5, AllInOrder
<1> QED
  BY <1>2, <1>6 DEF f

(* The history: turns are numbered as they come, and a name stands for a   *)
(* turn that is there and that named it.                                   *)
Turn == [id : Nat, entities : Seq(Entities), topics : Seq(Topics)]
Remembers(ts, n, known) ==
  /\ ts \in Seq(Turn) /\ n \in Nat
  /\ \A i \in 1..Len(ts) : ts[i].id <= n
  /\ \A i, j \in 1..Len(ts) : i < j => ts[i].id < ts[j].id
  /\ \A x \in DOMAIN known : \E i \in 1..Len(ts) : ts[i].id = known[x] /\ x \in Dialogue!Names(ts[i])

LEMMA TurnAdded ==
  ASSUME NEW ts, NEW n, NEW known, Remembers(ts, n, known), NEW turn \in Turn, turn.id = n + 1,
         NEW more, DOMAIN more = (DOMAIN known) \cup Dialogue!Names(turn),
         \A x \in DOMAIN more : more[x] = IF x \in DOMAIN known THEN known[x] ELSE turn.id
  PROVE  Remembers(Append(ts, turn), n + 1, more)
<1> DEFINE all == Append(ts, turn)
           l == Len(ts)
<1>1. ts \in Seq(Turn) /\ n \in Nat /\ l \in Nat
  BY DEF Remembers
<1>2. all \in Seq(Turn) /\ Len(all) = l + 1 /\ all[l + 1] = turn /\ \A i \in 1..l : all[i] = ts[i]
  BY <1>1, AppendProperties
<1>a. \A i \in 1..l : ts[i] \in Turn
  BY <1>1, ElementOfSeq
<1>3. \A i \in 1..l : ts[i] \in Turn /\ ts[i].id \in Nat /\ ts[i].id <= n
  BY <1>a DEF Remembers, Turn
<1> HIDE DEF all
<1>4. \A i \in 1..(l + 1) : all[i].id <= n + 1
  BY <1>1, <1>2, <1>3
<1>5. \A i, j \in 1..(l + 1) : i < j => all[i].id < all[j].id
  <2> SUFFICES ASSUME NEW i \in 1..(l + 1), NEW j \in 1..(l + 1), i < j PROVE all[i].id < all[j].id
    OBVIOUS
  <2>1. i \in 1..l
    BY <1>1
  <2>2. CASE j = l + 1
    BY <1>1, <1>2, <1>3, <2>1, <2>2
  <2>3. CASE j # l + 1
    <3>1. j \in 1..l
      BY <1>1, <2>3
    <3> QED
      BY <1>2, <2>1, <3>1 DEF Remembers
  <2> QED
    BY <2>2, <2>3
<1>6. ASSUME NEW x \in DOMAIN more
      PROVE  \E i \in 1..(l + 1) : all[i].id = more[x] /\ x \in Dialogue!Names(all[i])
  <2>1. CASE x \in DOMAIN known
    <3>1. PICK i \in 1..l : ts[i].id = known[x] /\ x \in Dialogue!Names(ts[i])
      BY <2>1 DEF Remembers
    <3> QED
      BY <1>1, <1>2, <2>1, <3>1
  <2>2. CASE x \notin DOMAIN known
    <3>1. x \in Dialogue!Names(turn) /\ more[x] = turn.id
      BY <2>2
    <3>2. l + 1 \in 1..(l + 1)
      BY <1>1
    <3> QED
      BY <1>2, <3>1, <3>2
  <2> QED
    BY <2>1, <2>2
<1>7. Remembers(all, n + 1, more)
  BY <1>1, <1>2, <1>4, <1>5, <1>6 DEF Remembers
<1> QED
  BY <1>7 DEF all

LEMMA TurnForgotten ==
  ASSUME NEW ts, NEW n, NEW known, Remembers(ts, n, known), ts # <<>>
  PROVE  Remembers(Tail(ts), n, Dialogue!Forgotten(known, Head(ts)))
<1> DEFINE rest == Tail(ts)
           l == Len(ts)
           left == Dialogue!Forgotten(known, Head(ts))
           kept == {x \in DOMAIN known : ~(x \in Dialogue!Names(Head(ts)) /\ known[x] = Head(ts).id)}
<1>1. ts \in Seq(Turn) /\ n \in Nat /\ l \in Nat /\ l # 0 /\ Head(ts) = ts[1]
  BY EmptySeq DEF Remembers
<1>2. rest \in Seq(Turn) /\ Len(rest) = l - 1 /\ \A i \in 1..(l - 1) : rest[i] = ts[i + 1]
  BY <1>1, HeadTailProperties
<1>3. left = [x \in kept |-> known[x]]
  BY DEF Dialogue!Forgotten, Dialogue!Restrict
<1>4. \A i \in 1..(l - 1) : i + 1 \in 1..l
  BY <1>1
<1>5. \A i \in 1..(l - 1) : rest[i].id <= n
  BY <1>2, <1>4 DEF Remembers
<1>6. \A i, j \in 1..(l - 1) : i < j => rest[i].id < rest[j].id
  <2>1. \A i, j \in 1..(l - 1) : i < j => i + 1 < j + 1
    BY <1>1
  <2> QED
    BY <1>2, <1>4, <2>1 DEF Remembers
<1>7. ASSUME NEW x \in kept
      PROVE  \E i \in 1..(l - 1) : rest[i].id = known[x] /\ x \in Dialogue!Names(rest[i])
  <2>1. PICK i \in 1..l : ts[i].id = known[x] /\ x \in Dialogue!Names(ts[i])
    BY <1>7 DEF Remembers
  <2>2. i # 1
    BY <1>1, <1>7, <2>1
  <2>3. i - 1 \in 1..(l - 1) /\ (i - 1) + 1 = i
    BY <1>1, <2>2
  <2>4. rest[i - 1] = ts[i]
    BY <1>2, <2>3
  <2> QED
    BY <2>1, <2>3, <2>4
<1> HIDE DEF rest, kept
<1>8. DOMAIN left = kept /\ \A x \in kept : left[x] = known[x]
  BY <1>3
<1> HIDE DEF left
<1>9. Remembers(rest, n, left)
  BY <1>1, <1>2, <1>5, <1>6, <1>7, <1>8 DEF Remembers
<1> QED
  BY <1>9 DEF rest, left

LEMMA SeqNarrower ==
  ASSUME NEW S, NEW T, NEW s \in Seq(S), \A i \in 1..Len(s) : s[i] \in T
  PROVE  s \in Seq(T)
<1>1. Len(s) \in Nat /\ s \in [1..Len(s) -> T]
  OBVIOUS
<1> QED
  BY <1>1

(* What a mention stands for is named by a turn that is kept.              *)
KeptNames == UNION {Dialogue!Names(dialogueTurns[i]) : i \in DOMAIN dialogueTurns}

LEMMA SaidByKept ==
  ASSUME Remembers(dialogueTurns, turnCounter, nameIndex), NEW n \in Nat, NEW what
  PROVE  Dialogue!LastNaming(n, what) \in Seq(KeptNames)
<1> DEFINE ts == dialogueTurns
           m == IF n < Len(ts) THEN (Len(ts) - n) + 1 ELSE 1
           recent == Dialogue!Recent(n)
           naming == {i \in DOMAIN recent : Dialogue!Named(recent[i], what) # <<>>}
<1>1. ts \in Seq(Turn) /\ Len(ts) \in Nat /\ DOMAIN ts = 1..Len(ts) /\ m \in 1..(Len(ts) + 1)
  BY DEF Remembers
<1>2. recent = SubSeq(ts, m, Len(ts))
  BY DEF Dialogue!Recent
<1>3. \A i \in m..Len(ts) : ts[i] \in Turn
  BY <1>1
<1>4. recent \in Seq(Turn) /\ Len(recent) \in Nat /\ \A i \in 1..Len(recent) : \E j \in 1..Len(ts) : recent[i] = ts[j]
  <2> HIDE DEF m
  <2>1. recent \in Seq(Turn) /\ Len(recent) = (IF m <= Len(ts) THEN (Len(ts) - m) + 1 ELSE 0)
        /\ \A i \in 1..Len(recent) : recent[i] = ts[(m + i) - 1]
    BY <1>1, <1>2, <1>3, SubSeqProperties
  <2>2. \A i \in 1..Len(recent) : (m + i) - 1 \in 1..Len(ts)
    BY <1>1, <2>1
  <2> QED
    BY <1>1, <2>1, <2>2
<1>5. DOMAIN recent = 1..Len(recent)
  BY <1>4
<1>6. Dialogue!LastNaming(n, what) = IF naming = {} THEN <<>> ELSE Dialogue!Named(recent[Dialogue!Max(naming)], what)
  BY DEF Dialogue!LastNaming
<1>7. CASE naming = {}
  BY <1>6, <1>7, EmptySeq
<1>8. CASE naming # {}
  <2>1. naming \in SUBSET (1..Len(recent))
    BY <1>5
  <2> DEFINE i == Dialogue!Max(naming)
  <2>2. i \in naming
    <3> HIDE DEF naming, recent
    <3>1. \E x \in naming : \A y \in naming : x >= y
      BY <1>4, <1>8, <2>1, GreatestIn
    <3> QED
      BY <3>1 DEF Dialogue!Max
  <2> HIDE DEF i
  <2>3. PICK j \in 1..Len(ts) : recent[i] = ts[j]
    BY <1>4, <2>1, <2>2
  <2>4. ts[j] \in Turn /\ Dialogue!Names(ts[j]) \subseteq KeptNames
    BY <1>1 DEF KeptNames
  <2>5. ts[j].entities \in Seq(KeptNames) /\ ts[j].topics \in Seq(KeptNames)
    <3>1. ts[j].entities \in Seq(Entities) /\ ts[j].topics \in Seq(Topics)
      BY <2>4 DEF Turn
    <3>2. /\ \A k \in 1..Len(ts[j].entities) : ts[j].entities[k] \in KeptNames
          /\ \A k \in 1..Len(ts[j].topics) : ts[j].topics[k] \in KeptNames
      BY <2>4, <3>1 DEF Dialogue!Names, Dialogue!ToSet
    <3> QED
      BY <3>1, <3>2, SeqNarrower
  <2>6. Dialogue!Named(ts[j], what) \in {ts[j].entities, ts[j].topics}
    BY DEF Dialogue!Named
  <2> QED
    BY <1>6, <1>8, <2>3, <2>5, <2>6 DEF i
<1> QED
  BY <1>7, <1>8

LEMMA MentionsKept ==
  ASSUME Remembers(dialogueTurns, turnCounter, nameIndex)
  PROVE  \A mention : Dialogue!Antecedents(mention) \subseteq KeptNames \cup {None}
<1> DEFINE K == KeptNames \cup {None}
<1>1. Dialogue!AllEntities \subseteq KeptNames
  <2>1. dialogueTurns \in Seq(Turn) /\ DOMAIN dialogueTurns = 1..Len(dialogueTurns)
    BY DEF Remembers
  <2> QED
    BY <2>1 DEF Remembers, Dialogue!AllEntities, KeptNames
<1>2. Dialogue!Latest \subseteq KeptNames
  BY <1>1 DEF Dialogue!Latest
<1>3. \A s \in Seq(KeptNames) : s # <<>> => /\ Head(s) \in KeptNames /\ Dialogue!Last(s) \in KeptNames
                                            /\ Len(s) >= 2 => s[2] \in KeptNames
  <2> SUFFICES ASSUME NEW s \in Seq(KeptNames), s # <<>>
               PROVE  /\ Head(s) \in KeptNames /\ s[Len(s)] \in KeptNames
                      /\ Len(s) >= 2 => s[2] \in KeptNames
    BY DEF Dialogue!Last
  <2>1. Len(s) \in Nat /\ Len(s) # 0 /\ Head(s) = s[1]
    BY EmptySeq
  <2> QED
    BY <2>1, ElementOfSeq
<1>4. \A s \in Seq(KeptNames) : Dialogue!OrLatest(s) \subseteq K
  BY <1>2, <1>3 DEF Dialogue!OrLatest
<1> DEFINE two == Dialogue!LastNaming(2, "entities")
           three == Dialogue!LastNaming(3, "entities")
           topics == Dialogue!LastNaming(5, "topics")
           either == Dialogue!LastNaming(5, "either")
<1>5. two \in Seq(KeptNames) /\ three \in Seq(KeptNames) /\ topics \in Seq(KeptNames) /\ either \in Seq(KeptNames)
  BY SaidByKept
<1> HIDE DEF two, three, topics, either
<1>6. Len(two) >= 2 => two # <<>>
  OBVIOUS
<1>7. \A mention : Dialogue!EntityMatches(mention) \subseteq K
  BY <1>1, <1>3, <1>4, <1>5, <1>6 DEF Dialogue!EntityMatches, two, three
<1>8. \A mention : Dialogue!TopicMatch(mention) \in K
  BY <1>3, <1>5 DEF Dialogue!TopicMatch, topics
<1>9. Dialogue!PreviousSubject \in K
  BY <1>3, <1>5 DEF Dialogue!PreviousSubject, either
<1> QED
  BY <1>7, <1>8, <1>9 DEF Dialogue!Antecedents

(* The slots: what was filled has a value, and it was accepted.            *)
Filled ==
  /\ fills \in Seq(DOMAIN DialogueSlots)
  /\ \A i \in 1..Len(fills) : fills[i] \in DOMAIN slotValues
  /\ DOMAIN Dialogue!Defaults \subseteq DOMAIN slotValues
  /\ \A s \in DOMAIN slotValues :
        \/ slotValues[s] \in DialogueSlots[s].accepted
        \/ slotValues[s] = DialogueSlots[s].default /\ \A i \in 1..Len(fills) : fills[i] # s

Machine == Legal(path) /\ path[Len(path)] = dialogueState
DialogueIInv ==
  Dialogue!DialogueAssumption /\ Machine /\ Filled
    /\ Remembers(dialogueTurns, turnCounter, nameIndex)

LEMMA Begins == Legal(<<"IDLE">>) /\ <<"IDLE">>[Len(<<"IDLE">>)] = "IDLE"
<1>1. <<"IDLE">> \in Seq(States) /\ Len(<<"IDLE">>) = 1 /\ <<"IDLE">>[1] = "IDLE"
  BY DEF States
<1> QED
  BY <1>1 DEF Legal

LEMMA Unfilled == slotValues = Dialogue!Defaults /\ fills = <<>> => Filled
<1> SUFFICES ASSUME slotValues = Dialogue!Defaults, fills = <<>> PROVE Filled
  OBVIOUS
<1>1. fills \in Seq(DOMAIN DialogueSlots) /\ Len(fills) = 0
  BY EmptySeq
<1>2. \A s \in DOMAIN slotValues : slotValues[s] = DialogueSlots[s].default
  BY DEF Dialogue!Defaults
<1> QED
  BY <1>1, <1>2 DEF Filled

LEMMA Unspoken == Remembers(<<>>, 0, Dialogue!NoIndex)
<1>1. <<>> \in Seq(Turn) /\ Len(<<>>) = 0
  BY EmptySeq
<1>2. DOMAIN Dialogue!NoIndex = {}
  BY DEF Dialogue!NoIndex
<1> QED
  BY <1>1, <1>2 DEF Remembers

LEMMA DialogueStarts == Dialogue!DialogueAssumption /\ Dialogue!Init => DialogueIInv
BY Begins, Unfilled, Unspoken DEF Dialogue!Init, DialogueIInv, Machine

LEMMA FillsAccepted ==
  ASSUME Filled, NEW s, NEW v, Dialogue!Fill(s, v)
  PROVE  Filled'
<1>1. CASE UNCHANGED <<slotValues, fills>>
  BY <1>1 DEF Filled, Dialogue!Defaults
<1>2. CASE ~UNCHANGED <<slotValues, fills>>
  <2>1. /\ s \in DOMAIN DialogueSlots /\ v \in DialogueSlots[s].accepted
        /\ slotValues' = [x \in DOMAIN slotValues \cup {s} |-> IF x = s THEN v ELSE slotValues[x]]
        /\ fills' = Append(fills, s)
    BY <1>2 DEF Dialogue!Fill, Dialogue!slotVars
  <2>2. fills \in Seq(DOMAIN DialogueSlots) /\ Len(fills) \in Nat
    BY DEF Filled
  <2>3. /\ fills' \in Seq(DOMAIN DialogueSlots) /\ Len(fills') = Len(fills) + 1
        /\ fills'[Len(fills) + 1] = s /\ \A i \in 1..Len(fills) : fills'[i] = fills[i]
    BY <2>1, <2>2, AppendProperties
  <2>4. /\ DOMAIN slotValues' = DOMAIN slotValues \cup {s} /\ slotValues'[s] = v
        /\ \A x \in DOMAIN slotValues : x # s => slotValues'[x] = slotValues[x]
    BY <2>1
  <2>5. \A i \in 1..Len(fills') : (i \in 1..Len(fills) /\ fills'[i] = fills[i]) \/ fills'[i] = s
    BY <2>2, <2>3
  <2>6. \A i \in 1..Len(fills') : fills'[i] \in DOMAIN slotValues'
    BY <2>4, <2>5 DEF Filled
  <2>7. DOMAIN Dialogue!Defaults \subseteq DOMAIN slotValues'
    BY <2>4 DEF Filled
  <2>8. ASSUME NEW x \in DOMAIN slotValues'
        PROVE  \/ slotValues'[x] \in DialogueSlots[x].accepted
               \/ slotValues'[x] = DialogueSlots[x].default /\ \A i \in 1..Len(fills') : fills'[i] # x
    <3>1. CASE x = s
      BY <2>1, <2>4, <3>1
    <3>2. CASE x # s
      <4>1. x \in DOMAIN slotValues /\ slotValues'[x] = slotValues[x]
        BY <2>4, <3>2
      <4> QED
        BY <2>5, <3>2, <4>1 DEF Filled
    <3> QED
      BY <3>1, <3>2
  <2>9. UNCHANGED Dialogue!Defaults
    BY DEF Dialogue!Defaults
  <2> QED
    BY <2>3, <2>6, <2>7, <2>8 DEF Filled, Dialogue!Defaults
<1> QED
  BY <1>1, <1>2

LEMMA TurnsRemembered ==
  ASSUME Remembers(dialogueTurns, turnCounter, nameIndex),
         NEW entities \in Seq(Entities), NEW topics \in Seq(Topics), Dialogue!AddTurn(entities, topics)
  PROVE  Remembers(dialogueTurns', turnCounter', nameIndex')
<1> DEFINE turn == [id |-> turnCounter + 1, entities |-> entities, topics |-> topics]
           all == Append(dialogueTurns, turn)
           known == [x \in DOMAIN nameIndex \cup Dialogue!Names(turn) |->
                        IF x \in DOMAIN nameIndex THEN nameIndex[x] ELSE turn.id]
<1>1. turnCounter \in Nat /\ dialogueTurns \in Seq(Turn)
  BY DEF Remembers
<1>2. turn \in Turn /\ turn.id = turnCounter + 1
  BY <1>1 DEF Turn
<1>3. /\ turnCounter' = turnCounter + 1
      /\ \/ dialogueTurns' = Tail(all) /\ nameIndex' = Dialogue!Forgotten(known, Head(all))
         \/ dialogueTurns' = all /\ nameIndex' = known
  BY DEF Dialogue!AddTurn
<1>a. DOMAIN known = (DOMAIN nameIndex) \cup Dialogue!Names(turn)
      /\ \A x \in DOMAIN known : known[x] = IF x \in DOMAIN nameIndex THEN nameIndex[x] ELSE turn.id
  OBVIOUS
<1> HIDE DEF turn, known
<1>4. Remembers(all, turnCounter + 1, known)
  BY <1>2, <1>a, TurnAdded
<1>5. all # <<>>
  BY <1>1, <1>2, AppendProperties
<1> HIDE DEF all
<1>6. Remembers(Tail(all), turnCounter + 1, Dialogue!Forgotten(known, Head(all)))
  BY <1>4, <1>5, TurnForgotten
<1> QED
  BY <1>3, <1>4, <1>6

LEMMA ListsAreSequences == \A S : \A s \in Dialogue!Lists(S) : s \in Seq(S)
<1> SUFFICES ASSUME NEW S, NEW s \in Dialogue!Lists(S) PROVE s \in Seq(S)
  OBVIOUS
<1>1. \/ s = <<>>
      \/ \E x \in S : s = <<x>>
      \/ \E x, y \in S : s = <<x, y>>
  BY DEF Dialogue!Lists
<1>2. CASE s = <<>>
  BY <1>2, EmptySeq
<1>3. ASSUME NEW x \in S, s = <<x>> PROVE s \in Seq(S)
  BY <1>3
<1>4. ASSUME NEW x \in S, NEW y \in S, s = <<x, y>> PROVE s \in Seq(S)
  BY <1>4
<1> QED
  BY <1>1, <1>2, <1>3, <1>4

LEMMA DialogueSteps == DialogueIInv /\ [Dialogue!Next]_(Dialogue!vars) => DialogueIInv'
<1> SUFFICES ASSUME DialogueIInv, [Dialogue!Next]_(Dialogue!vars) PROVE DialogueIInv'
  OBVIOUS
<1>0. Dialogue!DialogueAssumption /\ Machine /\ Filled /\ Remembers(dialogueTurns, turnCounter, nameIndex)
  BY DEF DialogueIInv
<1>a. UNCHANGED <<dialogueState, path>> => Machine'
  BY <1>0 DEF Machine, Legal
<1>b. UNCHANGED <<slotValues, fills>> => Filled'
  BY <1>0 DEF Filled, Dialogue!Defaults
<1>c. UNCHANGED <<dialogueTurns, turnCounter, nameIndex>> => Remembers(dialogueTurns', turnCounter', nameIndex')
  BY <1>0
<1>d. Machine' /\ Filled' /\ Remembers(dialogueTurns', turnCounter', nameIndex') => DialogueIInv'
  BY <1>0 DEF DialogueIInv
<1>1. ASSUME NEW event, Dialogue!Trigger(event) PROVE DialogueIInv'
  <2>1. InOrder(Dialogue!Triggered(event))
    BY <1>0, TriggeredInOrder DEF Machine, Dialogue!DialogueAssumption
  <2>2. Machine'
    BY <1>1, <2>1 DEF Machine, InOrder, Dialogue!Trigger, Legal
  <2> QED
    BY <1>1, <1>b, <1>c, <1>d, <2>2 DEF Dialogue!Trigger, Dialogue!slotVars, Dialogue!historyVars
<1>2. CASE Dialogue!ResetMachine
  <2>1. Machine'
    <3>1. Legal(path') /\ path'[Len(path')] = dialogueState'
      BY Begins, <1>2 DEF Dialogue!ResetMachine
    <3> QED
      BY <3>1 DEF Machine, Legal
  <2> QED
    BY <1>2, <1>b, <1>c, <1>d, <2>1 DEF Dialogue!ResetMachine, Dialogue!slotVars, Dialogue!historyVars
<1>3. ASSUME NEW s, NEW v, Dialogue!Fill(s, v) PROVE DialogueIInv'
  BY <1>0, <1>3, <1>a, <1>c, <1>d, FillsAccepted
  DEF Dialogue!Fill, Dialogue!machineVars, Dialogue!historyVars
<1>4. CASE Dialogue!ResetSlots
  <2>1. Filled'
    BY <1>4, EmptySeq DEF Dialogue!ResetSlots, Filled, Dialogue!Defaults
  <2> QED
    BY <1>4, <1>a, <1>c, <1>d, <2>1 DEF Dialogue!ResetSlots, Dialogue!machineVars, Dialogue!historyVars
<1>5. ASSUME NEW entities \in Seq(Entities), NEW topics \in Seq(Topics), Dialogue!AddTurn(entities, topics)
      PROVE  DialogueIInv'
  BY <1>0, <1>5, <1>a, <1>b, <1>d, TurnsRemembered
  DEF Dialogue!AddTurn, Dialogue!machineVars, Dialogue!slotVars
<1>6. CASE Dialogue!ClearHistory
  BY <1>6, <1>a, <1>b, <1>d, Unspoken DEF Dialogue!ClearHistory, Dialogue!machineVars, Dialogue!slotVars
<1>7. CASE UNCHANGED Dialogue!vars
  BY <1>7, <1>a, <1>b, <1>c, <1>d
  DEF Dialogue!vars, Dialogue!machineVars, Dialogue!slotVars, Dialogue!historyVars
<1>8. \A t \in Topics : <<t>> \in Seq(Topics)
  OBVIOUS
<1>9. <<>> \in Seq(Topics)
  BY EmptySeq
<1> QED
  BY <1>1, <1>2, <1>3, <1>4, <1>5, <1>6, <1>7, <1>8, <1>9, ListsAreSequences DEF Dialogue!Next

LEMMA DialogueHolds == DialogueIInv => Dialogue!DialogueInv
<1> SUFFICES ASSUME DialogueIInv PROVE Dialogue!DialogueInv
  OBVIOUS
<1>0. Dialogue!DialogueAssumption /\ Machine /\ Filled /\ Remembers(dialogueTurns, turnCounter, nameIndex)
  BY DEF DialogueIInv
<1>1. Dialogue!ConfirmedFirst
  <2>1. DOMAIN path = 1..Len(path)
    BY <1>0 DEF Machine, Legal
  <2> QED
    BY <1>0, <2>1 DEF Dialogue!ConfirmedFirst, Dialogue!Last, Machine, Legal
<1>2. Dialogue!SlotsAccepted
  <2>1. DOMAIN fills = 1..Len(fills)
    BY <1>0 DEF Filled
  <2>2. Dialogue!ToSet(fills) = {fills[i] : i \in 1..Len(fills)}
    BY <2>1 DEF Dialogue!ToSet
  <2>3. \A s \in DOMAIN slotValues :
            \/ slotValues[s] \in DialogueSlots[s].accepted
            \/ (slotValues[s] = DialogueSlots[s].default /\ s \notin Dialogue!ToSet(fills))
    BY <1>0, <2>2 DEF Filled
  <2>4. Dialogue!NextPrompt # None =>
            Dialogue!NextPrompt \notin Dialogue!ToSet(fills) \cup DOMAIN Dialogue!Defaults
    <3> SUFFICES ASSUME Dialogue!NextPrompt # None
                 PROVE  Dialogue!NextPrompt \notin Dialogue!ToSet(fills) \cup DOMAIN Dialogue!Defaults
      OBVIOUS
    <3> DEFINE m == Dialogue!Missing
    <3>1. m # {} /\ Dialogue!NextPrompt = SlotOrder[Dialogue!Min(m)]
      BY DEF Dialogue!NextPrompt, Dialogue!IsComplete
    <3>2. m \in SUBSET Nat /\ \A i \in m : SlotOrder[i] \notin DOMAIN slotValues
      BY <1>0 DEF Dialogue!Missing, Dialogue!DialogueAssumption
    <3>3. \E x \in m : \A y \in m : x <= y
      BY <3>1, <3>2, LeastIn
    <3>4. Dialogue!Min(m) \in m
      <4> HIDE DEF m
      <4> QED
        BY <3>3 DEF Dialogue!Min
    <3>5. Dialogue!NextPrompt \notin DOMAIN slotValues
      BY <3>1, <3>2, <3>4
    <3> QED
      BY <1>0, <2>2, <3>5 DEF Filled
  <2> QED
    BY <2>3, <2>4 DEF Dialogue!SlotsAccepted
<1>3. Dialogue!MentionsAreKept
  <2>1. DOMAIN dialogueTurns = 1..Len(dialogueTurns)
    BY <1>0 DEF Remembers
  <2>2. \A mention : Dialogue!Antecedents(mention) \subseteq KeptNames \cup {None}
    BY <1>0, MentionsKept
  <2> QED
    BY <1>0, <2>1, <2>2 DEF Remembers, KeptNames, Dialogue!MentionsAreKept
<1> QED
  BY <1>1, <1>2, <1>3 DEF Dialogue!DialogueInv

(* In any conversation, however callbacks trigger events from within each  *)
(* other: the history of the states is a path of the table, and nothing is *)
(* executed that was not confirmed, except after an error; a slot holds    *)
(* what was accepted or its default, and is asked for only while nothing   *)
(* filled it; and a mention stands for a name that a turn which is still   *)
(* kept has named, or for nothing.                                         *)
THEOREM DialogueSafe ==
  Dialogue!DialogueAssumption => (Dialogue!Spec => []Dialogue!DialogueInv)
BY DialogueStarts, DialogueSteps, DialogueHolds, PTL DEF Dialogue!Spec
-----------------------------------------------------------------------------
(***************************************************************************)
(* The versions of a prompt, which stand in a database that several        *)
(* sessions write to.  Here the component is taken by itself, not as a     *)
(* part of a run: its constants and variables follow.                      *)
(***************************************************************************)
CONSTANTS Sessions, Contents, MaxVersions, Tenants, PromptInputs, Alike, Diversity,
          MaxExamples, Paragraphs, MaxParagraphs, Budgets, Meaningful, Watched,
          MinBaseline, MinCurrent, MaxScores, MaxUses, MaxInput, Back, MaxText
VARIABLES prepares, versions, current, session, examples, found, template,
          scores, picked, compiled, cleaned, uses

Prompts == INSTANCE Prompts WITH cut <- template, shown <- picked, Inputs <- PromptInputs

(* The versions are numbered from 1 to the current one.                    *)
Row == [number : Nat, content : Contents \cup {Prompts!Idle.row.content}, of : Nat]
VersionsNumbered ==
  /\ versions \subseteq Row
  /\ current \in Nat
  /\ \A v \in versions : v.number \in 1..current /\ v.of = v.number - 1
  /\ \A n \in 1..current : \E v \in versions : v.number = n
  /\ IsFiniteSet(versions) /\ Cardinality(versions) = current

(* What a session has read may be old.  The row it writes has the number   *)
(* after that; if this is a new number the session has seen the version    *)
(* before.  Once its row is in the table no other can be.                  *)
Working == [step : Prompts!Steps, seen : Nat, row : Row]
Follows(w, latest) ==
  /\ w.step # "idle" => w.seen <= latest
  /\ w.step \in {"decided", "flushed"} =>
       /\ w.row.number = w.seen + 1
       /\ w.row.number > latest => w.row.of = w.row.number - 1
  /\ w.step = "flushed" => w.row.number = latest + 1
SessionsFollow ==
  /\ session \in [Sessions -> Working]
  /\ \A s \in Sessions : Follows(session[s], current)
  /\ \A s, t \in Sessions : session[s].step = "flushed" /\ session[t].step = "flushed" => s = t

VersionsIInv == VersionsNumbered /\ SessionsFollow

LEMMA IdleFollows ==
  /\ Prompts!Idle \in Working
  /\ Prompts!Idle.step = "idle"
  /\ \A n \in Nat : Follows(Prompts!Idle, n)
<1>1. Prompts!Idle.step = "idle" /\ Prompts!Idle.seen = 0 /\ Prompts!Idle.row \in Row
  BY DEF Prompts!Idle, Row
<1>2. Prompts!Idle \in Working
  BY <1>1 DEF Prompts!Idle, Prompts!Steps, Working
<1> QED
  BY <1>1, <1>2 DEF Follows

LEMMA VersionsStart == Prompts!Init => VersionsIInv
<1> SUFFICES ASSUME Prompts!Init PROVE VersionsIInv
  OBVIOUS
<1>1. VersionsNumbered
  BY FS_EmptySet DEF Prompts!Init, VersionsNumbered
<1>2. session = [s \in Sessions |-> Prompts!Idle] /\ current = 0
  BY DEF Prompts!Init
<1> QED
  BY <1>1, <1>2, IdleFollows DEF VersionsIInv, SessionsFollow

(* The latest version is the current one. *)
LEMMA LatestIsCurrent ==
  ASSUME VersionsNumbered, current # 0
  PROVE  Prompts!Latest \in versions /\ Prompts!Latest.number = current
<1>1. PICK v \in versions : v.number = current
  BY DEF VersionsNumbered
<1>2. \A w \in versions : w.number <= v.number
  BY <1>1 DEF VersionsNumbered
<1>3. Prompts!Latest \in versions /\ \A w \in versions : w.number <= Prompts!Latest.number
  BY <1>1, <1>2 DEF Prompts!Latest
<1> QED
  BY <1>1, <1>3 DEF VersionsNumbered

(* A step of one session that commits nothing. *)
LEMMA SessionKeeps ==
  ASSUME VersionsIInv, NEW s \in Sessions, NEW w \in Working, Follows(w, current),
         w.step = "flushed" => \A t \in Sessions \ {s} : session[t].step # "flushed",
         session' = [session EXCEPT ![s] = w], UNCHANGED <<versions, current>>
  PROVE  VersionsIInv'
<1>1. VersionsNumbered'
  BY DEF VersionsIInv, VersionsNumbered
<1>2. session' \in [Sessions -> Working] /\ session'[s] = w
      /\ \A t \in Sessions \ {s} : session'[t] = session[t]
  BY DEF VersionsIInv, SessionsFollow
<1>3. \A t \in Sessions : Follows(session'[t], current')
  BY <1>2 DEF VersionsIInv, SessionsFollow
<1> QED
  BY <1>1, <1>2, <1>3 DEF VersionsIInv, SessionsFollow

(* What a session decides to write. *)
LEMMA DecisionFollows ==
  ASSUME VersionsIInv, NEW s \in Sessions, NEW row \in Row, Prompts!Decides(s, row),
         session[s].step = "read", UNCHANGED <<versions, current>>,
         row.number = session[s].seen + 1, row.number > current => row.of = row.number - 1
  PROVE  VersionsIInv'
<1> DEFINE old == session[s]
           new == [old EXCEPT !.step = "decided", !.row = row]
<1>1. old \in Working /\ Follows(old, current) /\ old.step = "read"
  BY DEF VersionsIInv, SessionsFollow
<1>2. session' = [session EXCEPT ![s] = new]
  BY DEF Prompts!Decides, VersionsIInv, SessionsFollow
<1>3. row.number = old.seen + 1
  OBVIOUS
<1>4. new = [old EXCEPT !.step = "decided", !.row = row]
  OBVIOUS
<1> HIDE DEF old, new
<1>5. "decided" \in Prompts!Steps
  BY DEF Prompts!Steps
<1>6. new \in Working /\ new.step = "decided" /\ new.seen = old.seen /\ new.row = row
  BY ONLY row \in Row, <1>1, <1>4, <1>5 DEF Working
<1>7. Follows(new, current)
  BY <1>1, <1>3, <1>6 DEF Follows
<1> QED
  BY <1>2, <1>6, <1>7, SessionKeeps

LEMMA VersionsStep ==
  ASSUME VersionsIInv, NEW s \in Sessions
  PROVE  /\ Prompts!Read(s) => VersionsIInv'
         /\ \A content \in Contents : Prompts!Create(s, content) => VersionsIInv'
         /\ \A content \in Contents : Prompts!Update(s, content) => VersionsIInv'
         /\ \A target \in 1..MaxVersions : Prompts!Rollback(s, target) => VersionsIInv'
         /\ Prompts!Flush(s) => VersionsIInv'
         /\ Prompts!Commit(s) => VersionsIInv'
         /\ Prompts!Abort(s) => VersionsIInv'
<1>0. /\ VersionsNumbered /\ SessionsFollow /\ current \in Nat
      /\ session[s] \in Working /\ Follows(session[s], current)
  BY DEF VersionsIInv, VersionsNumbered, SessionsFollow
<1>1. ASSUME Prompts!Read(s) PROVE VersionsIInv'
  <2> DEFINE new == [Prompts!Idle EXCEPT !.step = "read", !.seen = current]
  <2>1. session' = [session EXCEPT ![s] = new] /\ UNCHANGED <<versions, current>>
    BY <1>1 DEF Prompts!Read
  <2>2. new = [Prompts!Idle EXCEPT !.step = "read", !.seen = current]
    OBVIOUS
  <2> HIDE DEF new
  <2>3. "read" \in Prompts!Steps /\ Prompts!Idle \in Working /\ current \in Nat
    BY <1>0, IdleFollows DEF Prompts!Steps
  <2>4. new \in Working /\ new.step = "read" /\ new.seen = current
    BY ONLY <2>2, <2>3 DEF Working
  <2>5. Follows(new, current)
    BY <1>0, <2>4 DEF Follows
  <2> QED
    BY <2>1, <2>4, <2>5, SessionKeeps
<1>2. ASSUME NEW content \in Contents, Prompts!Create(s, content) PROVE VersionsIInv'
  <2> DEFINE row == Prompts!Numbered(s, content, 0)
  <2>1. row.number = session[s].seen + 1 /\ session[s].seen = 0 /\ row.of = 0
    BY <1>2 DEF Prompts!Numbered, Prompts!Create
  <2>2. row \in Row
    BY <1>0, <2>1 DEF Prompts!Numbered, Row, Working
  <2>3. Prompts!Decides(s, row) /\ session[s].step = "read" /\ UNCHANGED <<versions, current>>
    BY <1>2 DEF Prompts!Create
  <2> HIDE DEF row
  <2> QED
    BY <2>1, <2>2, <2>3, DecisionFollows
<1>3. ASSUME NEW content \in Contents, Prompts!Update(s, content) PROVE VersionsIInv'
  <2> DEFINE row == Prompts!Numbered(s, content, Prompts!Latest.number)
  <2>1. session[s].step = "read" /\ session[s].seen # 0 /\ UNCHANGED <<versions, current>>
    BY <1>3 DEF Prompts!Update
  <2>2. session[s].seen <= current /\ session[s].seen \in Nat /\ current # 0
    BY <1>0, <2>1 DEF Follows, Working
  <2>3. Prompts!Latest.number = current
    BY <1>0, <2>2, LatestIsCurrent
  <2>4. CASE session' = [session EXCEPT ![s] = Prompts!Idle]
    BY <1>0, <2>1, <2>4, IdleFollows, SessionKeeps
  <2>5. CASE Prompts!Decides(s, row)
    <3>1. row.number = session[s].seen + 1 /\ row.of = current /\ row.content = content
      BY <2>3 DEF Prompts!Numbered
    <3>2. row \in Row
      BY <1>0, <2>2, <2>3 DEF Prompts!Numbered, Row
    <3>3. row.number > current => row.of = row.number - 1
      BY <1>0, <2>2, <3>1
    <3> HIDE DEF row
    <3> QED
      BY <2>1, <2>5, <3>1, <3>2, <3>3, DecisionFollows
  <2> QED
    BY <1>3, <2>4, <2>5 DEF Prompts!Update
<1>4. ASSUME NEW target \in 1..MaxVersions, Prompts!Rollback(s, target) PROVE VersionsIInv'
  <2>1. PICK v \in versions : Prompts!Decides(s, Prompts!Numbered(s, v.content, session[s].seen))
    BY <1>4 DEF Prompts!Rollback
  <2>2. session[s].step = "read" /\ UNCHANGED <<versions, current>>
    BY <1>4 DEF Prompts!Rollback
  <2> DEFINE row == Prompts!Numbered(s, v.content, session[s].seen)
  <2>3. row.number = session[s].seen + 1 /\ row.of = session[s].seen /\ session[s].seen \in Nat
    BY <1>0 DEF Prompts!Numbered, Working
  <2>4. row \in Row
    BY <1>0, <2>3 DEF Prompts!Numbered, Row, VersionsNumbered
  <2>5. Prompts!Decides(s, row) /\ row.of = row.number - 1
    BY <2>1, <2>3
  <2> HIDE DEF row
  <2> QED
    BY <2>2, <2>3, <2>4, <2>5, DecisionFollows
<1>5. ASSUME Prompts!Flush(s) PROVE VersionsIInv'
  <2> DEFINE old == session[s]
             new == [old EXCEPT !.step = "flushed"]
  <2>1. old.step = "decided" /\ UNCHANGED <<versions, current>>
        /\ \A t \in Sessions : session[t].step = "flushed" => session[t].row.number # old.row.number
    BY <1>5 DEF Prompts!Flush
  <2>2. CASE \E v \in versions : v.number = session[s].row.number
    <3>1. session' = [session EXCEPT ![s] = Prompts!Idle]
      BY <1>5, <2>2 DEF Prompts!Flush
    <3> QED
      BY <1>0, <2>1, <3>1, IdleFollows, SessionKeeps
  <2>3. CASE ~\E v \in versions : v.number = session[s].row.number
    <3>1. session' = [session EXCEPT ![s] = new]
      BY <1>0, <1>5, <2>3 DEF Prompts!Flush, SessionsFollow
    <3>2. old.row.number = old.seen + 1 /\ old.seen <= current /\ old.seen \in Nat
          /\ (old.row.number > current => old.row.of = old.row.number - 1)
      BY <1>0, <2>1 DEF Follows, Working
    <3>3. old.row.number \notin 1..current
      BY <1>0, <2>3 DEF VersionsNumbered
    <3>4. old.row.number = current + 1
      BY <1>0, <3>2, <3>3
    <3>5. \A t \in Sessions \ {s} : session[t].step # "flushed"
      BY <1>0, <2>1, <3>4 DEF SessionsFollow, Follows
    <3>6. new = [old EXCEPT !.step = "flushed"] /\ old \in Working
      BY <1>0
    <3>7. "flushed" \in Prompts!Steps
      BY DEF Prompts!Steps
    <3> HIDE DEF old, new
    <3>8. new \in Working /\ new.step = "flushed" /\ new.seen = old.seen /\ new.row = old.row
      BY ONLY <3>6, <3>7 DEF Working
    <3>9. Follows(new, current)
      BY <1>0, <3>2, <3>4, <3>8 DEF Follows
    <3> QED
      BY <2>1, <3>1, <3>5, <3>8, <3>9, SessionKeeps
  <2> QED
    BY <2>2, <2>3
<1>6. ASSUME Prompts!Commit(s) PROVE VersionsIInv'
  <2> DEFINE row == session[s].row
  <2>1. /\ session[s].step = "flushed" /\ versions' = versions \cup {row} /\ current' = row.number
        /\ session' = [session EXCEPT ![s] = Prompts!Idle]
    BY <1>6 DEF Prompts!Commit
  <2>2. row \in Row /\ row.number = current + 1 /\ row.of = row.number - 1
    BY <1>0, <2>1 DEF Follows, Working
  <2>3. row \notin versions
    BY <1>0, <2>2 DEF VersionsNumbered
  <2>4. VersionsNumbered'
    <3>1. IsFiniteSet(versions') /\ Cardinality(versions') = current'
      <4>1. IsFiniteSet(versions) /\ Cardinality(versions) = current /\ current \in Nat
        BY <1>0 DEF VersionsNumbered
      <4> HIDE DEF row
      <4>2. IsFiniteSet(versions \cup {row}) /\ Cardinality(versions \cup {row}) = current + 1
        BY <2>3, <4>1, FS_AddElement
      <4> QED
        BY <2>1, <2>2, <4>2
    <3>2. current' = current + 1 /\ versions' \subseteq Row
      BY <1>0, <2>1, <2>2 DEF VersionsNumbered
    <3>3. \A v \in versions' : v.number \in 1..current' /\ v.of = v.number - 1
      BY <1>0, <2>1, <2>2, <3>2 DEF VersionsNumbered
    <3>4. \A n \in 1..current' : \E v \in versions' : v.number = n
      <4> TAKE n \in 1..current'
      <4>1. CASE n = current + 1
        BY <2>1, <2>2, <4>1
      <4>2. CASE n # current + 1
        BY <1>0, <2>1, <3>2, <4>2 DEF VersionsNumbered
      <4> QED
        BY <4>1, <4>2
    <3> QED
      BY <1>0, <3>1, <3>2, <3>3, <3>4 DEF VersionsNumbered
  <2>5. SessionsFollow'
    <3>1. session' \in [Sessions -> Working] /\ session'[s] = Prompts!Idle
          /\ \A t \in Sessions \ {s} : session'[t] = session[t]
      BY <1>0, <2>1, IdleFollows DEF SessionsFollow
    <3>2. \A t \in Sessions \ {s} : session[t].step # "flushed"
      BY <1>0, <2>1 DEF SessionsFollow
    <3>3. current' = current + 1
      BY <2>1, <2>2
    <3>4. ASSUME NEW t \in Sessions \ {s} PROVE Follows(session'[t], current')
      BY <1>0, <3>1, <3>2, <3>3, <3>4 DEF SessionsFollow, Follows, Working, Row
    <3>5. Follows(session'[s], current')
      BY <1>0, <3>1, <3>3, IdleFollows
    <3> QED
      BY <3>1, <3>2, <3>4, <3>5, IdleFollows DEF SessionsFollow
  <2> QED
    BY <2>4, <2>5 DEF VersionsIInv
<1>7. ASSUME Prompts!Abort(s) PROVE VersionsIInv'
  BY <1>0, <1>7, IdleFollows, SessionKeeps DEF Prompts!Abort
<1> QED
  BY <1>1, <1>2, <1>3, <1>4, <1>5, <1>6, <1>7

LEMMA VersionsSteps == VersionsIInv /\ [Prompts!Next]_(Prompts!vars) => VersionsIInv'
<1> SUFFICES ASSUME VersionsIInv, [Prompts!Next]_(Prompts!vars) PROVE VersionsIInv'
  OBVIOUS
<1>1. CASE UNCHANGED <<versions, current, session>>
  BY <1>1 DEF VersionsIInv, VersionsNumbered, SessionsFollow
<1>2. CASE \E s \in Sessions :
              \/ Prompts!Read(s) \/ Prompts!Flush(s) \/ Prompts!Commit(s) \/ Prompts!Abort(s)
              \/ \E content \in Contents : Prompts!Create(s, content) \/ Prompts!Update(s, content)
              \/ \E target \in 1..MaxVersions : Prompts!Rollback(s, target)
  BY <1>2, VersionsStep
<1> QED
  BY <1>1, <1>2 DEF Prompts!Next, Prompts!vars, Prompts!versionVars

(* However updates and rollbacks of a prompt overlap, its versions are      *)
(* numbered without a gap, and none is written over one that its author has *)
(* not seen.                                                                *)
THEOREM VersionsSafe == Prompts!Spec => []Prompts!NoLostVersion
<1>1. VersionsIInv => Prompts!NoLostVersion
  <2> SUFFICES ASSUME VersionsIInv PROVE Prompts!NoLostVersion
    OBVIOUS
  <2>1. {v.number : v \in versions} = 1..current
    BY DEF VersionsIInv, VersionsNumbered
  <2>2. Prompts!Cardinality(versions) = current
    BY DEF VersionsIInv, VersionsNumbered, Prompts!Cardinality, Cardinality
  <2> QED
    BY <2>1, <2>2 DEF VersionsIInv, VersionsNumbered, Prompts!NoLostVersion
<1> QED
  BY <1>1, VersionsStart, VersionsSteps, PTL DEF Prompts!Spec
=============================================================================
