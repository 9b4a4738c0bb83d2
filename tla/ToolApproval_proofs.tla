------------------------ MODULE ToolApproval_proofs ------------------------
(***************************************************************************)
(* For any number of experts, tools, steps and calls: a gated tool is      *)
(* executed under an approval of its own, requests that are pending are    *)
(* awaited, and decisions are final.                                       *)
(***************************************************************************)
EXTENDS ToolApproval, TLAPS

(* The call i of run r is still to come. *)
Ahead(r, i) ==
  /\ i[1] = r /\ run[r].pc \notin Ended
  /\ \/ i[2] > run[r].step
     \/ i[2] = run[r].step /\ (\/ run[r].pc \in {"idle", "thinking"}
                               \/ i[3] > run[r].at)

(* Nothing was asked or executed for a call that is still to come, and     *)
(* nothing was executed for one that waits.                                *)
Unasked ==
  \A r \in Runs : \A i \in Ids : Ahead(r, i) => status[i] = "none" /\ begun[i] = 0

WaitsUnbegun == \A r \in Runs : run[r].pc = "waiting" => begun[Id(r)] = 0

(* The inductive invariant. *)
IInv == TypeOK /\ OwnApproval /\ PendingIsAwaited /\ Unasked /\ WaitsUnbegun

Statuses == {"none", "pending"} \cup Decided
RunType == [pc : {"idle"} \cup Awaiting \cup Ended, step : 1..MaxSteps,
            calls : {c \in Seq(STRING) : Len(c) <= MaxCalls},
            at : 1..MaxCalls, left : 0..Timeout]

Kept == \A i \in Ids : status[i] \in Decided => status'[i] = status[i]

USE ToolApprovalAssumption

-----------------------------------------------------------------------------
LEMMA InitIInv == Init => IInv
<1> SUFFICES ASSUME Init PROVE IInv
  OBVIOUS
<1>1. <<>> \in {c \in Seq(STRING) : Len(c) <= MaxCalls}
  OBVIOUS
<1>2. TypeOK
  BY <1>1 DEF Init, TypeOK
<1>3. OwnApproval /\ PendingIsAwaited /\ Unasked /\ WaitsUnbegun
  BY DEF Init, OwnApproval, PendingIsAwaited, Unasked, WaitsUnbegun
<1> QED BY <1>2, <1>3 DEF IInv

(* The call a run is at is one of the calls that have a request. *)
LEMMA IdTyped == ASSUME TypeOK, NEW r \in Runs PROVE Id(r) \in Ids
BY DEF TypeOK, Ids, Id

(* Requests st that differ from the present ones only in that the run's    *)
(* own is not pending any more.                                            *)
Resolved(r, st) ==
  /\ st \in [Ids -> Statuses]
  /\ \A i \in Ids : st[i] # status[i] =>
       i = Id(r) /\ status[i] = "pending" /\ st[i] \in Decided \ {"approved"}
  /\ \A i \in Ids : i[1] = r => st[i] # "pending"

(* Where a synchronous stretch of a run may begin: with the first call of  *)
(* an answer, or with the one after the call that the run is at.           *)
Begins(r, calls, k) ==
  /\ calls \in Seq(STRING) /\ Len(calls) <= MaxCalls
  /\ \/ run[r].pc = "thinking" /\ k = 1
     \/ run[r].pc \in {"waiting", "running"} /\ k = run[r].at + 1

LEMMA StepEndsKeeps ==
  ASSUME IInv, NEW r \in Runs, NEW st, Resolved(r, st),
         run[r].pc \in Awaiting, StepEnds(r, st)
  PROVE  IInv' /\ Kept
<1> DEFINE n == IF run[r].step = MaxSteps THEN MaxSteps ELSE run[r].step + 1
<1>0. TypeOK /\ OwnApproval /\ PendingIsAwaited /\ Unasked /\ WaitsUnbegun
  BY DEF IInv
<1>1. run[r] \in RunType /\ n \in 1..MaxSteps
  BY <1>0 DEF TypeOK, RunType
<1>2. run' = [run EXCEPT ![r] =
                [pc |-> IF run[r].step = MaxSteps THEN "failed" ELSE "thinking",
                 step |-> n, calls |-> <<>>, at |-> 1, left |-> 0]]
  BY DEF StepEnds
<1>3. /\ run'[r].pc = IF run[r].step = MaxSteps THEN "failed" ELSE "thinking"
      /\ run'[r].step = n
      /\ \A q \in Runs : q # r => run'[q] = run[q]
  BY <1>0, <1>2 DEF TypeOK
<1>4. status' = st /\ begun' = begun /\ free' = free
  BY DEF StepEnds
<1>5. TypeOK'
  <2>1. run'[r] \in RunType
    BY <1>1, <1>0, <1>2 DEF TypeOK, RunType, Awaiting, Ended
  <2>2. run' \in [Runs -> RunType]
    BY <1>0, <1>2, <2>1 DEF TypeOK, RunType
  <2> QED BY <2>2, <1>4, <1>0 DEF TypeOK, Resolved, RunType, Statuses
<1>6. OwnApproval'
  BY <1>0, <1>4 DEF OwnApproval, Resolved, Decided
<1>7. PendingIsAwaited'
  BY <1>0, <1>3, <1>4 DEF PendingIsAwaited, Resolved, Decided, Id, Ids
<1>8. Unasked'
  <2> SUFFICES ASSUME NEW q \in Runs, NEW i \in Ids, Ahead(q, i)'
               PROVE  status'[i] = "none" /\ begun'[i] = 0
    BY DEF Unasked
  <2>1. CASE q # r
    BY <2>1, <1>0, <1>3, <1>4 DEF Unasked, Resolved, Ahead
  <2>2. CASE q = r
    <3>1. i[1] = r /\ i[2] \in Int /\ run'[r].pc # "failed" /\ i[2] >= n
      BY <2>2, <1>1, <1>3 DEF Ahead, Ended, Ids
    <3>2. n = run[r].step + 1
      BY <3>1, <1>3
    <3>3. Ahead(r, i)
      BY <3>1, <3>2, <1>1 DEF Ahead, Awaiting, Ended, RunType
    <3> QED BY <2>2, <3>3, <1>0, <1>4 DEF Unasked, Resolved
  <2> QED BY <2>1, <2>2
<1>9. WaitsUnbegun'
  BY <1>0, <1>3, <1>4 DEF WaitsUnbegun, Id
<1>10. Kept
  BY <1>4 DEF Kept, Resolved, Decided
<1> QED BY <1>5, <1>6, <1>7, <1>8, <1>9, <1>10 DEF IInv

LEMMA RunToolKeeps ==
  ASSUME IInv, NEW r \in Runs, NEW st, Resolved(r, st),
         NEW calls, NEW k, Begins(r, calls, k),
         NEW j \in k..Len(calls), calls[j] \in Bound(r),
         RunTool(r, calls, j, st)
  PROVE  IInv' /\ Kept
<1> DEFINE i == <<r, run[r].step, j>>
<1>0. TypeOK /\ OwnApproval /\ PendingIsAwaited /\ Unasked /\ WaitsUnbegun
  BY DEF IInv
<1>1. /\ run[r] \in RunType /\ run[r].pc \in Awaiting
      /\ j \in 1..MaxCalls /\ j >= k
      /\ calls \in {c \in Seq(STRING) : Len(c) <= MaxCalls}
  BY <1>0 DEF TypeOK, RunType, Begins, Awaiting
<1>2. i \in Ids /\ Ahead(r, i)
  <2>1. i \in Ids /\ i[1] = r /\ i[2] = run[r].step /\ i[3] = j
    BY <1>1 DEF Ids, RunType
  <2>2. run[r].pc \notin Ended
    BY <1>1 DEF Awaiting, Ended
  <2>3. run[r].pc = "thinking" \/ j > run[r].at
    BY <1>1 DEF RunType, Begins
  <2> HIDE DEF i
  <2> QED BY <2>1, <2>2, <2>3 DEF Ahead
<1>3. status[i] = "none" /\ begun[i] = 0 /\ st[i] = "none"
  BY <1>0, <1>2 DEF Unasked, Resolved
<1>4. ASSUME NEW pc \in {"waiting", "running"}, NEW left \in 0..Timeout,
             run' = [run EXCEPT ![r] = [pc |-> pc, step |-> run[r].step,
                                        calls |-> calls, at |-> j, left |-> left]]
      PROVE  /\ run' \in [Runs -> RunType]
             /\ run'[r].pc = pc /\ Id(r)' = i
             /\ \A q \in Runs : q # r => run'[q] = run[q]
             /\ \A q \in Runs : \A m \in Ids : Ahead(q, m)' => Ahead(q, m) /\ m # i
  <2>1. /\ run'[r] = [pc |-> pc, step |-> run[r].step,
                      calls |-> calls, at |-> j, left |-> left]
        /\ \A q \in Runs : q # r => run'[q] = run[q]
    BY <1>0, <1>4 DEF TypeOK
  <2>2. run'[r] \in RunType
    BY <2>1, <1>1 DEF RunType, Awaiting
  <2>3. run' \in [Runs -> RunType]
    BY <1>0, <1>4, <2>1, <2>2 DEF TypeOK, RunType
  <2>4. run'[r].pc = pc /\ run'[r].step = run[r].step /\ run'[r].at = j
    BY <2>1
  <2>5. Id(r)' = i
    BY <2>4 DEF Id
  <2>6. ASSUME NEW q \in Runs, NEW m \in Ids, Ahead(q, m)'
        PROVE  Ahead(q, m) /\ m # i
    <3>1. CASE q # r
      BY <2>1, <2>6, <3>1 DEF Ahead
    <3>2. CASE q = r
      <4>1. m[1] = r /\ (m[2] > run[r].step \/ (m[2] = run[r].step /\ m[3] > j))
        BY <2>4, <2>6, <3>2 DEF Ahead
      <4>2. m # i
        BY <4>1, <1>1 DEF RunType
      <4>3. k = run[r].at + 1 \/ run[r].pc = "thinking"
        BY DEF Begins
      <4>4. m[3] \in Int /\ run[r].at \in Int
        BY <1>1 DEF RunType, Ids
      <4>5. m[3] > j /\ k = run[r].at + 1 => m[3] > run[r].at
        BY <1>1, <4>4
      <4> QED BY <4>1, <4>2, <4>3, <4>5, <1>1, <3>2 DEF Ahead, Awaiting, Ended
    <3> QED BY <3>1, <3>2
  <2> QED BY <2>1, <2>3, <2>4, <2>5, <2>6
<1> HIDE DEF i
<1>5. CASE Asks(r, calls[j])
  <2>1. /\ run' = [run EXCEPT ![r] = [pc |-> "waiting", step |-> run[r].step,
                                      calls |-> calls, at |-> j, left |-> Timeout]]
        /\ status' = [st EXCEPT ![i] = "pending"]
        /\ begun' = begun /\ free' = free
    BY <1>5 DEF RunTool, i
  <2>2. /\ run' \in [Runs -> RunType]
        /\ run'[r].pc = "waiting" /\ Id(r)' = i
        /\ \A q \in Runs : q # r => run'[q] = run[q]
        /\ \A q \in Runs : \A m \in Ids : Ahead(q, m)' => Ahead(q, m) /\ m # i
    <3>1. Timeout \in 0..Timeout /\ "waiting" \in {"waiting", "running"}
      OBVIOUS
    <3> QED BY <1>4, <2>1, <3>1
  <2>3. /\ status' \in [Ids -> Statuses] /\ status'[i] = "pending"
        /\ \A m \in Ids : m # i => status'[m] = st[m]
    BY <1>2, <2>1 DEF Resolved, Statuses
  <2>4. TypeOK'
    BY <1>0, <2>1, <2>2, <2>3 DEF TypeOK, RunType, Statuses
  <2>5. OwnApproval'
    BY <1>0, <1>3, <2>1, <2>3 DEF OwnApproval, Resolved, Decided
  <2>6. PendingIsAwaited'
    <3> SUFFICES ASSUME NEW m \in Ids, status'[m] = "pending"
                 PROVE  \/ run'[m[1]].pc = "waiting" /\ m = Id(m[1])'
                        \/ run'[m[1]].pc = "cancelled"
      BY DEF PendingIsAwaited
    <3>1. CASE m = i
      <4>1. i[1] = r
        BY DEF i
      <4> QED BY <4>1, <3>1, <2>2
    <3>2. CASE m # i
      <4>1. st[m] = "pending" /\ status[m] = "pending"
        BY <2>3, <3>2 DEF Resolved, Decided
      <4>2. m[1] # r /\ m[1] \in Runs
        BY <4>1 DEF Resolved, Ids
      <4>3. run'[m[1]] = run[m[1]] /\ Id(m[1])' = Id(m[1])
        BY <4>2, <2>2 DEF Id
      <4> QED BY <4>1, <4>3, <1>0 DEF PendingIsAwaited
    <3> QED BY <3>1, <3>2
  <2>7. Unasked'
    BY <1>0, <2>1, <2>2, <2>3 DEF Unasked, Resolved
  <2>8. WaitsUnbegun'
    <3> SUFFICES ASSUME NEW q \in Runs, run'[q].pc = "waiting"
                 PROVE  begun[Id(q)'] = 0
      BY <2>1 DEF WaitsUnbegun
    <3>1. CASE q = r
      BY <3>1, <2>2, <1>3
    <3>2. CASE q # r
      BY <3>2, <2>2, <1>0 DEF WaitsUnbegun, Id
    <3> QED BY <3>1, <3>2
  <2>9. Kept
    BY <1>3, <2>3 DEF Kept, Resolved, Decided
  <2> QED BY <2>4, <2>5, <2>6, <2>7, <2>8, <2>9 DEF IInv
<1>6. CASE ~Asks(r, calls[j])
  <2>1. /\ run' = [run EXCEPT ![r] = [pc |-> "running", step |-> run[r].step,
                                      calls |-> calls, at |-> j, left |-> 0]]
        /\ status' = st /\ begun' = begun /\ free' = free \cup {calls[j]}
    BY <1>6 DEF RunTool
  <2>2. /\ run' \in [Runs -> RunType]
        /\ run'[r].pc = "running"
        /\ \A q \in Runs : q # r => run'[q] = run[q]
        /\ \A q \in Runs : \A m \in Ids : Ahead(q, m)' => Ahead(q, m)
    <3>1. 0 \in 0..Timeout /\ "running" \in {"waiting", "running"}
      OBVIOUS
    <3> QED BY <1>4, <2>1, <3>1
  <2>3. calls[j] \in Tools \ Gated
    BY <1>6 DEF Asks, Bound
  <2>4. TypeOK'
    BY <1>0, <2>1, <2>2, <2>3 DEF TypeOK, RunType, Statuses, Resolved
  <2>5. OwnApproval'
    BY <1>0, <2>1, <2>3 DEF OwnApproval, Resolved, Decided
  <2>6. PendingIsAwaited'
    BY <1>0, <2>1, <2>2 DEF PendingIsAwaited, Resolved, Decided, Id, Ids
  <2>7. Unasked'
    BY <1>0, <2>1, <2>2 DEF Unasked, Resolved
  <2>8. WaitsUnbegun'
    BY <1>0, <2>1, <2>2 DEF WaitsUnbegun, Id
  <2>9. Kept
    BY <2>1 DEF Kept, Resolved, Decided
  <2> QED BY <2>4, <2>5, <2>6, <2>7, <2>8, <2>9 DEF IInv
<1> QED BY <1>5, <1>6

LEMMA CallFromKeeps ==
  ASSUME IInv, NEW r \in Runs, NEW st, Resolved(r, st),
         NEW calls, NEW k, Begins(r, calls, k), CallFrom(r, calls, k, st)
  PROVE  IInv' /\ Kept
<1>1. CASE StepEnds(r, st)
  BY <1>1, StepEndsKeeps DEF Begins, Awaiting
<1>2. ASSUME NEW j \in k..Len(calls), calls[j] \in Bound(r), RunTool(r, calls, j, st)
      PROVE  IInv' /\ Kept
  BY <1>2, RunToolKeeps
<1> QED BY <1>1, <1>2 DEF CallFrom

-----------------------------------------------------------------------------
(* The steps that are not the beginning of a stretch. *)

(* Moving a run to another pc, with the same step and call. *)
Moved(r, pc) ==
  /\ run' \in [Runs -> RunType]
  /\ run'[r].pc = pc /\ run'[r].step = run[r].step /\ run'[r].at = run[r].at
  /\ \A q \in Runs : q # r => run'[q] = run[q]

LEMMA Moving ==
  ASSUME TypeOK, NEW r \in Runs, NEW pc \in {"running"} \cup Ended,
         run' = [run EXCEPT ![r].pc = pc, ![r].left = 0]
  PROVE  Moved(r, pc)
<1>1. run[r] \in RunType
  BY DEF TypeOK, RunType
<1>2. [run[r] EXCEPT !.pc = pc] \in RunType
  BY <1>1 DEF RunType, Awaiting
<1> DEFINE mid == [run[r] EXCEPT !.pc = pc]
           to == [mid EXCEPT !.left = 0]
<1>3. /\ to \in RunType
      /\ to.pc = pc /\ to.step = run[r].step /\ to.at = run[r].at
  <2>1. mid.pc = pc /\ mid.step = run[r].step /\ mid.at = run[r].at
    BY <1>1 DEF RunType
  <2>2. mid \in RunType
    BY <1>2
  <2> HIDE DEF mid
  <2> QED BY <2>1, <2>2 DEF RunType
<1>4. run'[r] = to /\ \A q \in Runs : q # r => run'[q] = run[q]
  BY <1>1 DEF TypeOK
<1> HIDE DEF to
<1>5. run' \in [Runs -> RunType]
  BY <1>3, <1>4 DEF TypeOK, RunType
<1> QED BY <1>3, <1>4, <1>5 DEF Moved

LEMMA StartKeeps ==
  ASSUME IInv, NEW r \in Runs, Start(r)
  PROVE  IInv' /\ Kept
<1>0. TypeOK /\ OwnApproval /\ PendingIsAwaited /\ Unasked /\ WaitsUnbegun
  BY DEF IInv
<1>1. Moved(r, "thinking") /\ run[r].pc = "idle" /\ UNCHANGED <<status, begun, free>>
  BY <1>0 DEF Start, Moved, TypeOK, RunType, Awaiting, Ended
<1>2. TypeOK' /\ OwnApproval' /\ Kept
  BY <1>0, <1>1 DEF TypeOK, OwnApproval, Kept, Moved, RunType
<1>3. PendingIsAwaited'
  BY <1>0, <1>1 DEF PendingIsAwaited, Moved, Id, Ids
<1>4. Unasked'
  BY <1>0, <1>1 DEF Unasked, Ahead, Moved, Ended
<1>5. WaitsUnbegun'
  BY <1>0, <1>1 DEF WaitsUnbegun, Moved, Id
<1> QED BY <1>2, <1>3, <1>4, <1>5 DEF IInv

(* A run that waits for no request ends, or a waiting one is cancelled. *)
LEMMA EndKeeps ==
  ASSUME IInv, NEW r \in Runs, NEW pc \in Ended, Moved(r, pc),
         pc = "cancelled" \/ run[r].pc = "thinking",
         UNCHANGED <<status, begun, free>>
  PROVE  IInv' /\ Kept
<1>0. TypeOK /\ OwnApproval /\ PendingIsAwaited /\ Unasked /\ WaitsUnbegun
  BY DEF IInv
<1>2. TypeOK' /\ OwnApproval' /\ Kept
  BY <1>0 DEF TypeOK, OwnApproval, Kept, Moved, RunType
<1>3. PendingIsAwaited'
  <2> SUFFICES ASSUME NEW i \in Ids, status[i] = "pending"
               PROVE  \/ run'[i[1]].pc = "waiting" /\ i = Id(i[1])'
                      \/ run'[i[1]].pc = "cancelled"
    BY DEF PendingIsAwaited
  <2>1. i[1] \in Runs /\ \/ run[i[1]].pc = "waiting" /\ i = Id(i[1])
                         \/ run[i[1]].pc = "cancelled"
    BY <1>0 DEF PendingIsAwaited, Ids
  <2>2. CASE i[1] = r
    BY <2>1, <2>2 DEF Moved
  <2>3. CASE i[1] # r
    BY <2>1, <2>3 DEF Moved, Id
  <2> QED BY <2>2, <2>3
<1>4. Unasked'
  BY <1>0 DEF Unasked, Ahead, Moved, Ended
<1>5. WaitsUnbegun'
  BY <1>0 DEF WaitsUnbegun, Moved, Id, Ended
<1> QED BY <1>2, <1>3, <1>4, <1>5 DEF IInv

LEMMA PollApprovedKeeps ==
  ASSUME IInv, NEW r \in Runs, PollApproved(r)
  PROVE  IInv' /\ Kept
<1>0. TypeOK /\ OwnApproval /\ PendingIsAwaited /\ Unasked /\ WaitsUnbegun
  BY DEF IInv
<1>1. Moved(r, "running") /\ UNCHANGED <<status, free>>
  BY <1>0, Moving DEF PollApproved
<1>2. run[r].pc = "waiting" /\ status[Id(r)] = "approved" /\ begun[Id(r)] = 0
  BY <1>0 DEF PollApproved, WaitsUnbegun
<1>3. /\ Id(r) \in Ids /\ begun' \in [Ids -> Nat] /\ begun'[Id(r)] = 1
      /\ \A i \in Ids : i # Id(r) => begun'[i] = begun[i]
  BY <1>0, <1>2, IdTyped DEF PollApproved, TypeOK
<1>4. TypeOK' /\ Kept
  BY <1>0, <1>1, <1>3 DEF TypeOK, Moved, RunType, Kept
<1>5. OwnApproval'
  BY <1>0, <1>1, <1>2, <1>3 DEF OwnApproval
<1>6. PendingIsAwaited'
  <2> SUFFICES ASSUME NEW i \in Ids, status[i] = "pending"
               PROVE  \/ run'[i[1]].pc = "waiting" /\ i = Id(i[1])'
                      \/ run'[i[1]].pc = "cancelled"
    BY <1>1 DEF PendingIsAwaited
  <2>1. i[1] \in Runs /\ \/ run[i[1]].pc = "waiting" /\ i = Id(i[1])
                         \/ run[i[1]].pc = "cancelled"
    BY <1>0 DEF PendingIsAwaited, Ids
  <2>2. i[1] # r
    BY <2>1, <1>2
  <2> QED BY <2>1, <2>2, <1>1 DEF Moved, Id
<1>7. Unasked'
  <2> SUFFICES ASSUME NEW q \in Runs, NEW i \in Ids, Ahead(q, i)'
               PROVE  status'[i] = "none" /\ begun'[i] = 0
    BY DEF Unasked
  <2>1. Ahead(q, i)
    BY <1>0, <1>1, <1>2 DEF Ahead, Moved, Ended, Ids, TypeOK
  <2>2. status[i] = "none" /\ begun[i] = 0 /\ i # Id(r)
    BY <2>1, <1>0, <1>2 DEF Unasked
  <2> QED BY <2>2, <1>1, <1>3
<1>8. WaitsUnbegun'
  <2> SUFFICES ASSUME NEW q \in Runs, run'[q].pc = "waiting"
               PROVE  begun'[Id(q)'] = 0
    BY DEF WaitsUnbegun
  <2>1. q # r
    BY <1>1 DEF Moved
  <2>2. run[q].pc = "waiting" /\ Id(q)' = Id(q) /\ Id(q) # Id(r)
    BY <2>1, <1>1 DEF Moved, Id
  <2>3. Id(q) \in Ids
    BY <1>0, IdTyped
  <2> QED BY <2>2, <2>3, <1>0, <1>3 DEF WaitsUnbegun
<1> QED BY <1>4, <1>5, <1>6, <1>7, <1>8 DEF IInv

LEMMA DecideKeeps ==
  ASSUME IInv, NEW i \in Ids, Decide(i)
  PROVE  IInv' /\ Kept
<1>0. TypeOK /\ OwnApproval /\ PendingIsAwaited /\ Unasked /\ WaitsUnbegun
  BY DEF IInv
<1>1. /\ status[i] = "pending" /\ UNCHANGED <<run, begun, free>>
      /\ status' \in [Ids -> Statuses] /\ status'[i] \in Decided
      /\ \A m \in Ids : m # i => status'[m] = status[m]
  BY <1>0 DEF Decide, TypeOK, Statuses, Decided
<1>2. TypeOK' /\ Kept
  BY <1>0, <1>1 DEF TypeOK, Statuses, Kept, Decided
<1>3. OwnApproval'
  BY <1>0, <1>1 DEF OwnApproval, Decided, TypeOK
<1>4. PendingIsAwaited'
  BY <1>0, <1>1 DEF PendingIsAwaited, Decided, Id
<1>5. Unasked' /\ WaitsUnbegun'
  BY <1>0, <1>1 DEF Unasked, Ahead, WaitsUnbegun, Id
<1> QED BY <1>2, <1>3, <1>4, <1>5 DEF IInv

LEMMA TickKeeps == ASSUME IInv, Tick PROVE IInv' /\ Kept
<1>0. TypeOK /\ OwnApproval /\ PendingIsAwaited /\ Unasked /\ WaitsUnbegun
  BY DEF IInv
<1>1. /\ UNCHANGED <<status, begun, free>>
      /\ \A r \in Runs : /\ run'[r] \in RunType
                         /\ run'[r].pc = run[r].pc /\ run'[r].step = run[r].step
                         /\ run'[r].at = run[r].at
  <2>1. UNCHANGED <<status, begun, free>>
    BY DEF Tick
  <2>2. ASSUME NEW r \in Runs
        PROVE  /\ run'[r] \in RunType
               /\ run'[r].pc = run[r].pc /\ run'[r].step = run[r].step
               /\ run'[r].at = run[r].at
    <3> DEFINE n == IF run[r].left > 0 THEN run[r].left - 1 ELSE 0
    <3>1. run[r] \in RunType
      BY <1>0 DEF TypeOK, RunType
    <3>2. n \in 0..Timeout
      BY <3>1 DEF RunType
    <3>3. run'[r] = [run[r] EXCEPT !.left = n]
      BY DEF Tick
    <3> HIDE DEF n
    <3> QED BY <3>1, <3>2, <3>3 DEF RunType
  <2> QED BY <2>1, <2>2
<1>2. run' \in [Runs -> RunType]
  BY <1>1 DEF Tick
<1>3. TypeOK' /\ OwnApproval' /\ Kept
  BY <1>0, <1>1, <1>2 DEF TypeOK, RunType, OwnApproval, Kept
<1>4. \A r \in Runs : Id(r)' = Id(r)
  BY <1>1 DEF Id
<1>5. PendingIsAwaited' /\ WaitsUnbegun'
  BY <1>0, <1>1, <1>4 DEF PendingIsAwaited, WaitsUnbegun, Ids
<1>6. Unasked'
  BY <1>0, <1>1 DEF Unasked, Ahead
<1> QED BY <1>3, <1>5, <1>6 DEF IInv

-----------------------------------------------------------------------------
(* A run whose request is not pending has none that is. *)
LEMMA NonePending ==
  ASSUME IInv, NEW r \in Runs, run[r].pc \in Awaiting,
         run[r].pc = "waiting" => status[Id(r)] # "pending"
  PROVE  Resolved(r, status)
BY DEF IInv, TypeOK, PendingIsAwaited, Resolved, Statuses, Awaiting, Id

LEMMA NextIInv == IInv /\ [Next]_vars => IInv' /\ Kept
<1> SUFFICES ASSUME IInv, [Next]_vars PROVE IInv' /\ Kept
  OBVIOUS
<1>0. TypeOK /\ PendingIsAwaited
  BY DEF IInv
<1>1. ASSUME NEW r \in Runs, Start(r) PROVE IInv' /\ Kept
  BY <1>1, StartKeeps
<1>2. ASSUME NEW r \in Runs, Answer(r) PROVE IInv' /\ Kept
  <2>1. PICK calls \in Answers[r] : CallFrom(r, calls, 1, status)
    BY <1>2 DEF Answer
  <2>2. Begins(r, calls, 1) /\ run[r].pc = "thinking"
    BY <1>2 DEF Answer, Begins
  <2>3. Resolved(r, status)
    BY <2>2, NonePending DEF Awaiting
  <2> QED BY <2>1, <2>2, <2>3, CallFromKeeps
<1>3. ASSUME NEW r \in Runs, Finish(r) PROVE IInv' /\ Kept
  <2>1. PICK pc \in {"completed", "failed"} : run' = [run EXCEPT ![r].pc = pc]
    BY <1>3 DEF Finish
  <2>2. pc \in Ended /\ run[r].pc = "thinking" /\ UNCHANGED <<status, begun, free>>
    BY <1>3 DEF Finish, Ended
  <2>3. Moved(r, pc)
    BY <1>0, <2>1, <2>2 DEF Moved, TypeOK, RunType
  <2> QED BY <2>2, <2>3, EndKeeps
<1>4. ASSUME NEW r \in Runs, PollApproved(r) PROVE IInv' /\ Kept
  BY <1>4, PollApprovedKeeps
<1>5. ASSUME NEW r \in Runs, PollRejected(r) PROVE IInv' /\ Kept
  <2>1. Begins(r, run[r].calls, run[r].at + 1)
    BY <1>0, <1>5 DEF PollRejected, Begins, TypeOK
  <2>2. Resolved(r, status)
    BY <1>5, NonePending DEF PollRejected, Awaiting
  <2> QED BY <1>5, <2>1, <2>2, CallFromKeeps DEF PollRejected, NextCall
<1>6. ASSUME NEW r \in Runs, PollLate(r) PROVE IInv' /\ Kept
  <2> DEFINE st == IF status[Id(r)] = "pending"
                   THEN [status EXCEPT ![Id(r)] = "timeout"] ELSE status
  <2>1. Begins(r, run[r].calls, run[r].at + 1) /\ NextCall(r, st)
    BY <1>0, <1>6 DEF PollLate, Begins, TypeOK
  <2>2. Resolved(r, st)
    <3>1. CASE status[Id(r)] # "pending"
      BY <1>6, <3>1, NonePending DEF PollLate, Awaiting
    <3>2. CASE status[Id(r)] = "pending"
      <4>1. Id(r) \in Ids
        BY <1>0, IdTyped
      <4>2. /\ st \in [Ids -> Statuses] /\ st[Id(r)] = "timeout"
            /\ \A i \in Ids : i # Id(r) => st[i] = status[i]
        BY <1>0, <3>2, <4>1 DEF TypeOK, Statuses, Decided
      <4>3. \A i \in Ids : i[1] = r /\ i # Id(r) => status[i] # "pending"
        BY <1>0, <1>6 DEF PendingIsAwaited, PollLate, Id
      <4> HIDE DEF st
      <4> QED BY <3>2, <4>1, <4>2, <4>3 DEF Resolved, Decided
    <3> QED BY <3>1, <3>2
  <2> HIDE DEF st
  <2> QED BY <2>1, <2>2, CallFromKeeps DEF NextCall
<1>7. ASSUME NEW r \in Runs, ToolEnds(r) PROVE IInv' /\ Kept
  <2>1. Begins(r, run[r].calls, run[r].at + 1)
    BY <1>0, <1>7 DEF ToolEnds, Begins, TypeOK
  <2>2. Resolved(r, status)
    BY <1>7, NonePending DEF ToolEnds, Awaiting
  <2> QED BY <1>7, <2>1, <2>2, CallFromKeeps DEF ToolEnds, NextCall
<1>8. ASSUME NEW r \in Runs, Cancel(r) PROVE IInv' /\ Kept
  <2>1. Moved(r, "cancelled") /\ UNCHANGED <<status, begun, free>>
    BY <1>0, <1>8, Moving DEF Cancel, Ended
  <2> QED BY <2>1, EndKeeps DEF Ended
<1>9. ASSUME NEW i \in Ids, Decide(i) PROVE IInv' /\ Kept
  BY <1>9, DecideKeeps
<1>10. CASE Tick
  BY <1>10, TickKeeps
<1>11. CASE UNCHANGED vars
  BY <1>11 DEF vars, IInv, TypeOK, OwnApproval, PendingIsAwaited, Unasked, Ahead,
               WaitsUnbegun, Id, Kept
<1> QED BY <1>1, <1>2, <1>3, <1>4, <1>5, <1>6, <1>7, <1>8, <1>9, <1>10, <1>11 DEF Next

-----------------------------------------------------------------------------
LEMMA AlwaysIInv == Spec => []IInv
<1>1. Init => IInv
  BY InitIInv
<1>2. IInv /\ [Next]_vars => IInv'
  BY NextIInv
<1> QED BY <1>1, <1>2, PTL DEF Spec

(* Runs never take more steps than the limit, and are never past the end   *)
(* of an answer.                                                           *)
THEOREM TypeCorrect == Spec => []TypeOK
<1>1. IInv => TypeOK
  BY DEF IInv
<1> QED BY <1>1, AlwaysIInv, PTL

(* However many runs share the gate, whoever decides when and whoever is   *)
(* cancelled: a gated tool is executed only under an approval of its own.  *)
THEOREM EachCallApproved == Spec => []OwnApproval
<1>1. IInv => OwnApproval
  BY DEF IInv
<1> QED BY <1>1, AlwaysIInv, PTL

(* A pending request is one that a run waits for, or was cancelled.        *)
THEOREM NoStrayRequest == Spec => []PendingIsAwaited
<1>1. IInv => PendingIsAwaited
  BY DEF IInv
<1> QED BY <1>1, AlwaysIInv, PTL

(* The safety of the gate in one. *)
THEOREM ApprovalSafe == Spec => []ApprovalInv
BY TypeCorrect, EachCallApproved, NoStrayRequest, PTL DEF ApprovalInv

(* Neither a late poll nor another request changes a decision. *)
THEOREM DecisionsStay == Spec => DecisionsFinal
<1>1. IInv /\ [Next]_vars => [\A i \in Ids : status[i] \in Decided => status'[i] = status[i]]_vars
  BY NextIInv DEF Kept
<1> QED BY <1>1, AlwaysIInv, PTL DEF Spec, DecisionsFinal
=============================================================================
