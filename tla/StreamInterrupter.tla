------------------------- MODULE StreamInterrupter -------------------------
(***************************************************************************)
(* StreamInterruptionHandler of src/streaming/stream_interrupter.py.       *)
(*                                                                         *)
(* Its operations take one asyncio lock, and all but one run without a     *)
(* suspension once they have it, so they are single steps that need the    *)
(* lock free.  resume_stream awaits can_resume, which takes the lock       *)
(* again: asyncio locks are not reentrant, the task waits for itself and   *)
(* every later operation waits behind it.                                  *)
(***************************************************************************)
EXTENDS Integers, FiniteSets, TLAPS

CONSTANTS Streams,
          MaxAge,      \* max_age_seconds of cleanup_inactive_streams
          TokenBound,  \* bound of the model: tokens per stream
          TimeBound    \* bound of the model: the clock

StreamInterrupterAssumption ==
  /\ IsFiniteSet(Streams)
  /\ {MaxAge, TokenBound, TimeBound} \subseteq Nat

VARIABLES
  streams,   \* _streams: a record for every known stream
  resuming,  \* the stream of the resume_stream call that holds the lock
  now,       \* time.time()
  cut        \* history: tokens each stream had when it was interrupted

vars == <<streams, resuming, now, cut>>

Nobody == "nobody"

(* InterruptionReason; only two of the reasons forbid to resume. *)
Recoverable  == {"user_cancelled", "timeout", "error", "rate_limit"}
NonResumable == {"security_blocked", "system_shutdown"}
Reason == Recoverable \union NonResumable

Known == DOMAIN streams

Init ==
  /\ streams = << >> /\ resuming = Nobody
  /\ now = 0 /\ cut = [s \in Streams |-> 0]

LockFree == resuming = Nobody

(* A stream that is known cannot be started again: ValueError. *)
StartStream(s) ==
  /\ LockFree /\ s \notin Known
  /\ streams' = [t \in Known \union {s} |->
                   IF t = s THEN [count |-> 0, active |-> TRUE, reason |-> Nobody, time |-> 0]
                   ELSE streams[t]]
  /\ UNCHANGED <<resuming, now, cut>>

(* Mutant of AddToken: it does not look whether the stream is active. *)
AddTokenAlways(s) ==
  /\ LockFree /\ s \in Known /\ streams[s].count < TokenBound
  /\ streams' = [streams EXCEPT ![s].count = @ + 1]
  /\ UNCHANGED <<resuming, now, cut>>

(* False for a stream that is unknown or not active. *)
AddToken(s) ==
  /\ LockFree /\ s \in Known /\ streams[s].count < TokenBound
  /\ streams[s].active
  /\ streams' = [streams EXCEPT ![s].count = @ + 1]
  /\ UNCHANGED <<resuming, now, cut>>

(* Mutant of Interrupt: the last reason wins. *)
InterruptAgain(s, reason) ==
  /\ LockFree /\ s \in Known
  /\ streams' = [streams EXCEPT ![s].active = FALSE, ![s].reason = reason, ![s].time = now]
  /\ cut' = [cut EXCEPT ![s] = streams[s].count]
  /\ UNCHANGED <<resuming, now>>

(* The first reason stays: an inactive stream is not interrupted again. *)
Interrupt(s, reason) ==
  /\ LockFree /\ s \in Known
  /\ streams[s].active
  /\ streams' = [streams EXCEPT ![s].active = FALSE, ![s].reason = reason, ![s].time = now]
  /\ cut' = [cut EXCEPT ![s] = streams[s].count]
  /\ UNCHANGED <<resuming, now>>

(* The caller keeps the lock and waits for it in can_resume. *)
ResumeStream(s) ==
  /\ LockFree /\ s \in Known
  /\ resuming' = s
  /\ UNCHANGED <<streams, now, cut>>

(* A caller that is cancelled, a client that goes away, leaves both the    *)
(* wait and the lock.                                                      *)
CancelResume ==
  /\ ~LockFree
  /\ resuming' = Nobody
  /\ UNCHANGED <<streams, now, cut>>

Forget(S) == streams' = [s \in Known \ S |-> streams[s]]

CleanupStream(s) ==
  /\ LockFree /\ s \in Known
  /\ Forget({s})
  /\ UNCHANGED <<resuming, now, cut>>

Expired(s) == ~streams[s].active /\ now - streams[s].time > MaxAge

CleanupInactiveStreams ==
  /\ LockFree
  /\ Forget({s \in Known : Expired(s)})
  /\ UNCHANGED <<resuming, now, cut>>

Tick == now < TimeBound /\ now' = now + 1 /\ UNCHANGED <<streams, resuming, cut>>

Next ==
  \/ \E s \in Streams : \/ StartStream(s) \/ AddToken(s) \/ ResumeStream(s)
                        \/ CleanupStream(s)
                        \/ \E reason \in Reason : Interrupt(s, reason)
  \/ CancelResume \/ CleanupInactiveStreams \/ Tick

Spec == Init /\ [][Next]_vars

-----------------------------------------------------------------------------
TypeOK ==
  /\ Known \subseteq Streams
  /\ \A s \in Known : streams[s] \in
       [count : 0..TokenBound, active : BOOLEAN, reason : Reason \union {Nobody}, time : 0..TimeBound]
  /\ \A s \in Known : streams[s].active <=> streams[s].reason = Nobody
  /\ resuming \in Known \union {Nobody}
  /\ now \in 0..TimeBound /\ cut \in [Streams -> 0..TokenBound]

(* An interrupted stream keeps exactly the text it had when it was         *)
(* interrupted, which is what a resumption would replay.                   *)
TextIsFrozen == \A s \in Known : ~streams[s].active => streams[s].count = cut[s]

(* A stream that was stopped for a reason that forbids resuming is never   *)
(* active again, nor does another interruption replace that reason.        *)
NonResumableStays ==
  [][\A s \in Known : streams[s].reason \in NonResumable
       => s \notin Known' \/ streams'[s].reason = streams[s].reason]_vars

(* The safety of the handler, in one. *)
InterrupterInv == TypeOK /\ TextIsFrozen
-----------------------------------------------------------------------------
(* InterrupterInv is inductive by itself.                                  *)
LEMMA StartsSafe == StreamInterrupterAssumption /\ Init => InterrupterInv
  BY DEF StreamInterrupterAssumption, Init, InterrupterInv, TypeOK, TextIsFrozen, Known, Nobody

(* What an operation does to the other streams is nothing, so that each    *)
(* step below is about the one it names.                                   *)
LEMMA StepsSafe ==
  StreamInterrupterAssumption /\ InterrupterInv /\ [Next]_vars => InterrupterInv'
<1> SUFFICES ASSUME StreamInterrupterAssumption, InterrupterInv, [Next]_vars
             PROVE  InterrupterInv'
  OBVIOUS
<1> USE DEF InterrupterInv, TypeOK, TextIsFrozen, Known, StreamInterrupterAssumption
<1>1. ASSUME NEW s \in Streams, StartStream(s) PROVE InterrupterInv'
  BY <1>1 DEF StartStream, LockFree, Nobody
<1>2. ASSUME NEW s \in Streams, AddToken(s) PROVE InterrupterInv'
  BY <1>2 DEF AddToken
<1>3. ASSUME NEW s \in Streams, NEW reason \in Reason, Interrupt(s, reason)
      PROVE  InterrupterInv'
  <2>1. s \in Known /\ streams[s].active /\ DOMAIN streams' = Known
    BY <1>3 DEF Interrupt
  <2>2. streams'[s] = [streams[s] EXCEPT !.active = FALSE, !.reason = reason, !.time = now]
    BY <1>3, <2>1 DEF Interrupt
  <2>3. \A t \in Known \ {s} : streams'[t] = streams[t]
    BY <1>3, <2>1 DEF Interrupt
  <2>4. cut' = [cut EXCEPT ![s] = streams[s].count] /\ UNCHANGED <<resuming, now>>
    BY <1>3 DEF Interrupt
  <2>5. reason # Nobody
    BY DEF Reason, Recoverable, NonResumable, Nobody
  <2>6. streams'[s] \in [count : 0..TokenBound, active : BOOLEAN,
                        reason : Reason \union {Nobody}, time : 0..TimeBound]
        /\ ~streams'[s].active /\ streams'[s].reason = reason /\ streams'[s].count = cut'[s]
    <3> DEFINE old == streams[s]
    <3> DEFINE new == streams'[s]
    <3>1. old \in [count : 0..TokenBound, active : BOOLEAN,
                  reason : Reason \union {Nobody}, time : 0..TimeBound]
      BY <2>1
    <3>2. cut'[s] = old.count /\ now \in 0..TimeBound
      BY <2>4
    <3>3. new = [old EXCEPT !.active = FALSE, !.reason = reason, !.time = now]
      BY <2>2
    <3> HIDE DEF old, new
    <3>4. new \in [count : 0..TokenBound, active : BOOLEAN,
                  reason : Reason \union {Nobody}, time : 0..TimeBound]
      BY ONLY <3>1, <3>2, <3>3
    <3>5. ~new.active /\ new.reason = reason /\ new.count = old.count
      BY ONLY <3>1, <3>3
    <3> QED
      BY <3>2, <3>4, <3>5 DEF new
  <2>7. TypeOK'
    BY <2>1, <2>3, <2>4, <2>5, <2>6
  <2>8. TextIsFrozen'
    BY <2>1, <2>3, <2>4, <2>6
  <2> QED
    BY <2>7, <2>8
<1>4. ASSUME NEW s \in Streams, ResumeStream(s) PROVE InterrupterInv'
  BY <1>4 DEF ResumeStream
<1>5. ASSUME NEW s \in Streams, CleanupStream(s) PROVE InterrupterInv'
  BY <1>5 DEF CleanupStream, Forget, LockFree
<1>6. CASE CancelResume
  BY <1>6 DEF CancelResume
<1>7. CASE CleanupInactiveStreams
  BY <1>7 DEF CleanupInactiveStreams, Forget, LockFree
<1>8. CASE Tick
  BY <1>8 DEF Tick
<1>9. CASE UNCHANGED vars
  BY <1>9 DEF vars
<1> QED
  BY <1>1, <1>2, <1>3, <1>4, <1>5, <1>6, <1>7, <1>8, <1>9 DEF Next

(* The text of an interrupted stream is the one it had, in every run with  *)
(* any number of streams, tokens and any age of cleaning.                  *)
THEOREM InterrupterSafe ==
  ASSUME StreamInterrupterAssumption
  PROVE  Spec => []InterrupterInv
<1>1. Init => InterrupterInv
  BY StartsSafe
<1>2. InterrupterInv /\ [Next]_vars => InterrupterInv'
  BY StepsSafe
<1> QED
  BY <1>1, <1>2, PTL DEF Spec

(* A reason that forbids resuming is kept as long as the stream is known:  *)
(* interrupt looks whether the stream is active, and one with a reason is  *)
(* not.                                                                    *)
THEOREM ReasonStays ==
  ASSUME StreamInterrupterAssumption
  PROVE  Spec => NonResumableStays
<1> DEFINE Stays == \A s \in Known : streams[s].reason \in NonResumable
                      => s \notin Known' \/ streams'[s].reason = streams[s].reason
<1>1. ASSUME InterrupterInv, [Next]_vars PROVE [Stays]_vars
  <2> SUFFICES ASSUME NEW t \in Known, streams[t].reason \in NonResumable, t \in Known'
               PROVE  streams'[t].reason = streams[t].reason
    OBVIOUS
  <2>1. ~streams[t].active
    BY <1>1 DEF InterrupterInv, TypeOK, NonResumable, Nobody
  <2>2. ASSUME NEW s \in Streams, StartStream(s) PROVE streams'[t].reason = streams[t].reason
    BY <2>2 DEF StartStream, Known
  <2>3. ASSUME NEW s \in Streams, AddToken(s) PROVE streams'[t].reason = streams[t].reason
    BY <2>3, <1>1 DEF AddToken, Known, InterrupterInv, TypeOK
  <2>4. ASSUME NEW s \in Streams, NEW reason \in Reason, Interrupt(s, reason)
        PROVE  streams'[t].reason = streams[t].reason
    BY <2>4, <2>1 DEF Interrupt, Known
  <2>5. ASSUME NEW s \in Streams, CleanupStream(s) PROVE streams'[t].reason = streams[t].reason
    BY <2>5 DEF CleanupStream, Forget, Known
  <2>6. CASE CleanupInactiveStreams
    BY <2>6 DEF CleanupInactiveStreams, Forget, Known
  <2>7. CASE UNCHANGED streams
    BY <2>7
  <2> QED
    BY <1>1, <2>2, <2>3, <2>4, <2>5, <2>6, <2>7
       DEF Next, ResumeStream, CancelResume, Tick, vars
<1>2. Spec => []InterrupterInv
  BY InterrupterSafe
<1> QED
  BY <1>1, <1>2, PTL DEF Spec, NonResumableStays
=============================================================================
