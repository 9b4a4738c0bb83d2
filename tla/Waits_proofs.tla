---------------------------- MODULE Waits_proofs ----------------------------
(***************************************************************************)
(* Where tasks and agents wait for each other, for every value of the      *)
(* constants: the queue of the streaming layer conserves its tokens and    *)
(* loses no wake-up, an interrupted stream keeps its text and its reason,  *)
(* a request of an agent gets its own answer, a version of the blackboard  *)
(* stands for its value, the detector reports no phantom, no call brings   *)
(* back what was cleared, the memories of an agent agree with their        *)
(* indexes, and what agents call as tools is held to its limits.           *)
(***************************************************************************)
EXTENDS MCWaits, FiniteSetTheorems, SequenceTheorems,
        NaturalsInduction, WellFoundedInduction, TLAPS

IndInv == TypeOK /\ Conservation /\ Order /\ NoLostWakeup /\ ClosedWakesAll

(* Adding or removing one task changes the number of tasks by at most one. *)
LEMMA OneTask ==
  ASSUME NEW S, IsFiniteSet(S), NEW t
  PROVE  /\ Cardinality(S) \in Nat
         /\ IsFiniteSet(S \ {t}) /\ Cardinality(S \ {t}) \in Nat
         /\ t \notin S => Cardinality(S \ {t}) = Cardinality(S)
         /\ t \in S => Cardinality(S \ {t}) = Cardinality(S) - 1
         /\ t \notin S => Cardinality(S \union {t}) = Cardinality(S) + 1
         /\ Cardinality(S \union {t}) \in Nat
<1>1. t \notin S => S \ {t} = S
  OBVIOUS
<1>2. IsFiniteSet(S \union {t})
  BY FS_AddElement
<1> QED
  BY <1>1, <1>2, FS_CardinalityType, FS_AddElement, FS_RemoveElement

LEMMA TasksFinite ==
  ASSUME TypeOK
  PROVE  IsFiniteSet(wokenP) /\ IsFiniteSet(wokenC)
BY BackpressureAssumption, FS_Subset DEF TypeOK

LEMMA InitInv == Init => IndInv
<1> SUFFICES ASSUME Init PROVE IndInv
  OBVIOUS
<1>1. TypeOK
  <2>1. <<>> \in Seq(Tokens) /\ 0 \in 0..TokenBound
    BY BackpressureAssumption
  <2> QED
    BY <2>1 DEF Init, TypeOK
<1>2. Len(queue) = 0 /\ delivered \o queue = <<>>
  BY DEF Init
<1> QED
  BY <1>1, <1>2, BackpressureAssumption
  DEF Init, IndInv, Conservation, Order, NoLostWakeup, ClosedWakesAll

-----------------------------------------------------------------------------
(* The body of produce.                                                    *)

LEMMA WaitForPlaceSafe ==
  ASSUME IndInv, NEW p \in Producers, NEW t \in Tokens, WaitForPlace(p, t),
         offered' \in 0..TokenBound, promised' \in SUBSET Tokens,
         lostC' = lostC, lostP' = lostP
  PROVE  IndInv'
<1> USE DEF IndInv
<1>1. TypeOK'
  <2>1. t # 0
    BY DEF Tokens
  <2> QED
    BY <2>1 DEF TypeOK, WaitForPlace, code
<1>2. Conservation' /\ Order' /\ ClosedWakesAll'
  BY DEF WaitForPlace, code, Conservation, Order, ClosedWakesAll
<1>3. NoLostWakeup'
  <2>1. MaxSize - Len(queue) <= 0 /\ Len(queue) \in Nat
    BY BackpressureAssumption DEF WaitForPlace, Full, TypeOK
  <2>2. Cardinality(wokenP') \in Nat
    BY TasksFinite, OneTask DEF WaitForPlace
  <2> QED
    BY <2>1, <2>2, BackpressureAssumption DEF WaitForPlace, code, NoLostWakeup, TypeOK
<1> QED
  BY <1>1, <1>2, <1>3

LEMMA DiscardSafe ==
  ASSUME IndInv, NEW p \in Producers, NEW t \in Tokens, Discard(p, t),
         p \notin notFull,
         offered' \in 0..TokenBound, promised' \in SUBSET Tokens,
         lostC' = lostC, lostP' = lostP
  PROVE  IndInv'
<1> USE DEF IndInv
<1>1. TypeOK'
  BY DEF TypeOK, Discard, code
<1> QED
  BY <1>1 DEF Discard, code, Conservation, Order, ClosedWakesAll, NoLostWakeup

LEMMA EnqueueSafe ==
  ASSUME IndInv, NEW p \in Producers, NEW t \in Tokens, Enqueue(p, t),
         p \notin notFull,
         offered' \in 0..TokenBound, promised' \in SUBSET Tokens,
         lostC' = lostC, lostP' = lostP
  PROVE  IndInv'
<1> USE DEF IndInv
<1>1. /\ queue' \in Seq(Tokens) /\ Len(queue') = Len(queue) + 1
      /\ Len(queue) \in Nat /\ MaxSize \in Nat /\ Len(queue) < MaxSize
      /\ accepted' \in Seq(Tokens)
  BY BackpressureAssumption, AppendProperties DEF Enqueue, Full, TypeOK
<1>2. /\ notEmpty' \in SUBSET Consumers /\ wokenC' \in SUBSET Consumers
      /\ notEmpty' \intersect wokenC' = {}
      /\ notEmpty' # {} => notEmpty # {} /\ Cardinality(wokenC') = Cardinality(wokenC) + 1
  <2>1. CASE notEmpty = {}
    BY <2>1 DEF Enqueue, NotifyConsumer, TypeOK
  <2>2. CASE notEmpty # {}
    <3>1. PICK c \in notEmpty : notEmpty' = notEmpty \ {c} /\ wokenC' = wokenC \union {c}
      BY <2>2 DEF Enqueue, NotifyConsumer
    <3>2. c \notin wokenC
      BY <3>1 DEF TypeOK
    <3>3. Cardinality(wokenC') = Cardinality(wokenC) + 1
      BY <3>1, <3>2, TasksFinite, OneTask
    <3> QED
      BY <2>2, <3>1, <3>3 DEF TypeOK
  <2> QED
    BY <2>1, <2>2
<1>3. TypeOK'
  BY <1>1, <1>2 DEF TypeOK, Enqueue
<1>4. Conservation'
  BY <1>1 DEF Enqueue, Conservation, TypeOK
<1>5. Order'
  <2>1. delivered \o Append(queue, t) = Append(delivered \o queue, t)
    BY DEF TypeOK
  <2> QED
    BY <2>1 DEF Enqueue, Order
<1>6. NoLostWakeup'
  <2>1. /\ Cardinality(wokenP) \in Nat /\ Cardinality(wokenP') \in Nat
        /\ Cardinality(wokenP') >= Cardinality(wokenP) - 1 /\ Cardinality(wokenC) \in Nat
        /\ p \notin wokenP => Cardinality(wokenP') = Cardinality(wokenP)
    <3>1. wokenP' = wokenP \ {p}
      BY DEF Enqueue
    <3>2. /\ Cardinality(wokenP) \in Nat /\ Cardinality(wokenC) \in Nat
          /\ Cardinality(wokenP \ {p}) \in Nat
          /\ p \in wokenP => Cardinality(wokenP \ {p}) = Cardinality(wokenP) - 1
          /\ p \notin wokenP => Cardinality(wokenP \ {p}) = Cardinality(wokenP)
      BY TasksFinite, OneTask
    <3> QED
      BY <3>1, <3>2
  <2>2. lostC \in Nat /\ lostP \in Nat /\ notFull' = notFull
    BY DEF TypeOK, Enqueue
  <2>3. notEmpty' # {} => Len(queue') <= Cardinality(wokenC') + lostC'
    BY <1>1, <1>2, <2>1, <2>2 DEF NoLostWakeup
  <2>4. notFull' # {} => MaxSize - Len(queue') <= Cardinality(wokenP') + lostP'
    BY <1>1, <2>1, <2>2 DEF NoLostWakeup
  <2> QED
    BY <2>3, <2>4 DEF NoLostWakeup
<1>7. ClosedWakesAll'
  BY <1>2 DEF ClosedWakesAll, Enqueue
<1> QED
  BY <1>3, <1>4, <1>5, <1>6, <1>7

LEMMA ProduceSafe ==
  ASSUME IndInv, NEW p \in Producers, Produce(p) \/ TryProduce(p) \/ ResumeProducer(p)
  PROVE  IndInv'
<1>0. p \notin notFull
  BY DEF Produce, TryProduce, ResumeProducer, IdleP, IndInv, TypeOK
<1>1. PICK t \in Tokens :
        /\ Body(p, t)
        /\ offered' \in 0..TokenBound /\ promised' \in SUBSET Tokens
        /\ lostC' = lostC /\ lostP' = lostP
  <2>1. CASE Produce(p) \/ TryProduce(p)
    <3>1. offered + 1 \in Tokens /\ offered' = offered + 1
      BY <2>1, BackpressureAssumption DEF Produce, TryProduce, IndInv, TypeOK, Tokens
    <3>2. Body(p, offered + 1)
      BY <2>1 DEF Produce, TryProduce
    <3>3. lostC' = lostC /\ lostP' = lostP
      BY <2>1 DEF Produce, TryProduce
    <3>4. promised' \in SUBSET Tokens
      BY <2>1, <3>1 DEF Produce, TryProduce, IndInv, TypeOK
    <3>5. offered' \in 0..TokenBound
      BY <3>1, BackpressureAssumption DEF Tokens
    <3> QED
      BY <3>1, <3>2, <3>3, <3>4, <3>5
  <2>2. CASE ResumeProducer(p)
    <3>1. holding[p] \in Tokens
      BY <2>2 DEF ResumeProducer, IndInv, TypeOK
    <3>2. offered' = offered /\ promised' = promised /\ lostC' = lostC /\ lostP' = lostP
      BY <2>2 DEF ResumeProducer
    <3>3. Body(p, holding[p])
      BY <2>2 DEF ResumeProducer
    <3>4. offered' \in 0..TokenBound /\ promised' \in SUBSET Tokens
      BY <3>2 DEF IndInv, TypeOK
    <3> QED
      BY <3>1, <3>2, <3>3, <3>4
  <2> QED
    BY <2>1, <2>2
<1> QED
  BY <1>0, <1>1, WaitForPlaceSafe, DiscardSafe, EnqueueSafe DEF Body

-----------------------------------------------------------------------------
(* Consumers, closing and cancelling.                                      *)

LEMMA DequeueSafe ==
  ASSUME IndInv, NEW c \in Consumers, c \notin notEmpty, Dequeue(c)
  PROVE  IndInv'
<1> USE DEF IndInv
<1>1. /\ Head(queue) \in Tokens /\ queue' \in Seq(Tokens) /\ Len(queue') = Len(queue) - 1
      /\ Len(queue) \in Nat /\ MaxSize \in Nat /\ delivered' \in Seq(Tokens)
  BY BackpressureAssumption, HeadTailProperties, AppendProperties DEF Dequeue, TypeOK
<1>2. /\ notFull' \in SUBSET Producers /\ wokenP' \in SUBSET Producers
      /\ notFull' \intersect wokenP' = {} /\ notFull' \union wokenP' = notFull \union wokenP
      /\ notFull' # {} => notFull # {} /\ Cardinality(wokenP') = Cardinality(wokenP) + 1
  <2>1. CASE notFull = {}
    BY <2>1 DEF Dequeue, NotifyProducer, TypeOK
  <2>2. CASE notFull # {}
    <3>1. PICK p \in notFull : notFull' = notFull \ {p} /\ wokenP' = wokenP \union {p}
      BY <2>2 DEF Dequeue, NotifyProducer
    <3>2. p \notin wokenP
      BY <3>1 DEF TypeOK
    <3>3. Cardinality(wokenP') = Cardinality(wokenP) + 1
      BY <3>1, <3>2, TasksFinite, OneTask
    <3> QED
      BY <2>2, <3>1, <3>3 DEF TypeOK
  <2> QED
    BY <2>1, <2>2
<1>3. TypeOK'
  BY <1>1, <1>2 DEF TypeOK, Dequeue
<1>4. Conservation'
  BY <1>1 DEF Dequeue, Conservation, TypeOK
<1>5. Order'
  <2>1. delivered \o queue = Append(delivered, Head(queue)) \o Tail(queue)
    BY DEF TypeOK, Dequeue
  <2> QED
    BY <2>1 DEF Dequeue, Order
<1>6. NoLostWakeup'
  <2>0. wokenC' = wokenC \ {c} /\ notEmpty' = notEmpty
    BY DEF Dequeue
  <2>1. /\ Cardinality(wokenP) \in Nat /\ Cardinality(wokenC) \in Nat
        /\ Cardinality(wokenC \ {c}) \in Nat
        /\ c \in wokenC => Cardinality(wokenC \ {c}) = Cardinality(wokenC) - 1
        /\ c \notin wokenC => Cardinality(wokenC \ {c}) = Cardinality(wokenC)
    BY TasksFinite, OneTask
  <2>2. lostC \in Nat /\ lostP \in Nat /\ lostC' = lostC /\ lostP' = lostP
    BY DEF TypeOK, Dequeue
  <2>3. notEmpty' # {} => Len(queue') <= Cardinality(wokenC') + lostC'
    BY <1>1, <2>0, <2>1, <2>2 DEF NoLostWakeup
  <2>4. notFull' # {} => MaxSize - Len(queue') <= Cardinality(wokenP') + lostP'
    BY <1>1, <1>2, <2>1, <2>2 DEF NoLostWakeup
  <2> QED
    BY <2>3, <2>4 DEF NoLostWakeup
<1>7. ClosedWakesAll'
  BY <1>2 DEF ClosedWakesAll, Dequeue
<1> QED
  BY <1>3, <1>4, <1>5, <1>6, <1>7

LEMMA WaitForTokenSafe ==
  ASSUME IndInv, NEW c \in Consumers, WaitForToken(c)
  PROVE  IndInv'
<1> USE DEF IndInv
<1>1. TypeOK'
  BY DEF TypeOK, WaitForToken, code, history
<1>2. Conservation' /\ Order' /\ ClosedWakesAll'
  BY DEF WaitForToken, code, history, Conservation, Order, ClosedWakesAll
<1>3. NoLostWakeup'
  <2>1. Len(queue) = 0 /\ lostC \in Nat
    BY DEF WaitForToken, TypeOK
  <2>2. Cardinality(wokenC') \in Nat
    BY TasksFinite, OneTask DEF WaitForToken
  <2> QED
    BY <2>1, <2>2 DEF WaitForToken, code, history, NoLostWakeup
<1> QED
  BY <1>1, <1>2, <1>3

LEMMA ConsumeSafe ==
  ASSUME IndInv, NEW c \in Consumers, Consume(c) \/ TryConsume(c) \/ ResumeConsumer(c)
  PROVE  IndInv'
<1>1. c \notin notEmpty
  BY DEF Consume, TryConsume, ResumeConsumer, IdleC, IndInv, TypeOK
<1>2. ASSUME EndOfStream(c) PROVE IndInv'
  <2>1. TypeOK'
    BY <1>2 DEF IndInv, TypeOK, EndOfStream, code, history
  <2> QED
    BY <1>2, <2>1 DEF EndOfStream, code, history, IndInv, Conservation, Order,
                      ClosedWakesAll, NoLostWakeup
<1> QED
  BY <1>1, <1>2, DequeueSafe, WaitForTokenSafe DEF Consume, TryConsume, ResumeConsumer

LEMMA CloseSafe ==
  ASSUME IndInv, Close
  PROVE  IndInv'
<1>1. TypeOK'
  BY DEF IndInv, TypeOK, Close, history
<1> QED
  BY <1>1 DEF Close, history, IndInv, Conservation, Order, ClosedWakesAll, NoLostWakeup

LEMMA CancelSafe ==
  ASSUME IndInv,
         \/ \E p \in Producers : CancelProducer(p)
         \/ \E c \in Consumers : CancelConsumer(c)
  PROVE  IndInv'
<1> USE DEF IndInv
<1>1. ASSUME NEW p \in Producers, CancelProducer(p) PROVE IndInv'
  <2>1. TypeOK'
    BY <1>1 DEF TypeOK, CancelProducer, code
  <2>2. /\ wokenP' = wokenP \ {p}
        /\ notFull' # {} => notFull # {}
        /\ lostP' = (IF p \in wokenP THEN lostP + 1 ELSE lostP)
        /\ UNCHANGED <<queue, notEmpty, wokenC, lostC>>
    BY <1>1 DEF CancelProducer, code
  <2>3. /\ Cardinality(wokenP) \in Nat /\ Cardinality(wokenP \ {p}) \in Nat
        /\ p \in wokenP => Cardinality(wokenP \ {p}) = Cardinality(wokenP) - 1
        /\ p \notin wokenP => Cardinality(wokenP \ {p}) = Cardinality(wokenP)
    BY TasksFinite, OneTask
  <2>4. lostP \in Nat /\ Len(queue) \in Nat /\ MaxSize \in Nat
    BY BackpressureAssumption DEF TypeOK
  <2>5. NoLostWakeup'
    BY <2>2, <2>3, <2>4 DEF NoLostWakeup
  <2> QED
    BY <1>1, <2>1, <2>5 DEF CancelProducer, code, Conservation, Order, ClosedWakesAll
<1>2. ASSUME NEW c \in Consumers, CancelConsumer(c) PROVE IndInv'
  <2>1. TypeOK'
    BY <1>2 DEF TypeOK, CancelConsumer, code
  <2>2. /\ wokenC' = wokenC \ {c}
        /\ notEmpty' # {} => notEmpty # {}
        /\ lostC' = (IF c \in wokenC THEN lostC + 1 ELSE lostC)
        /\ UNCHANGED <<queue, notFull, wokenP, lostP>>
    BY <1>2 DEF CancelConsumer, code
  <2>3. /\ Cardinality(wokenC) \in Nat /\ Cardinality(wokenC \ {c}) \in Nat
        /\ c \in wokenC => Cardinality(wokenC \ {c}) = Cardinality(wokenC) - 1
        /\ c \notin wokenC => Cardinality(wokenC \ {c}) = Cardinality(wokenC)
    BY TasksFinite, OneTask
  <2>4. lostC \in Nat /\ Len(queue) \in Nat
    BY DEF TypeOK
  <2>5. NoLostWakeup'
    BY <2>2, <2>3, <2>4 DEF NoLostWakeup
  <2> QED
    BY <1>2, <2>1, <2>5 DEF CancelConsumer, code, Conservation, Order, ClosedWakesAll
<1> QED
  BY <1>1, <1>2

LEMMA NextInv == IndInv /\ [Next]_vars => IndInv'
<1>1. ASSUME IndInv, UNCHANGED vars PROVE IndInv'
  BY <1>1 DEF vars, code, tasks, history, IndInv, TypeOK, Conservation, Order,
              NoLostWakeup, ClosedWakesAll
<1> QED
  BY <1>1, ProduceSafe, ConsumeSafe, CloseSafe, CancelSafe DEF Next, Run

-----------------------------------------------------------------------------
(* Tokens that are lost.                                                   *)

(* What is in the history of accepted tokens stays there, and so does what *)
(* was discarded: a promise once kept stays kept.                          *)
LEMMA PromisesKept ==
  ASSUME accepted \in Seq(Tokens), LostOnlyWhenClosed, NEW t \in Tokens,
         accepted' = accepted \/ accepted' = Append(accepted, t),
         discarded \subseteq discarded', discarded' # {} => closed',
         \/ promised' = promised
         \/ /\ promised' = promised \union {t}
            /\ t \in discarded' \/ accepted' = Append(accepted, t)
  PROVE  LostOnlyWhenClosed'
<1>1. Len(accepted) \in Nat /\ DOMAIN accepted = 1..Len(accepted)
  OBVIOUS
<1>2. ASSUME NEW i \in DOMAIN accepted
      PROVE  i \in DOMAIN accepted' /\ accepted'[i] = accepted[i]
  BY <1>1
<1>3. accepted' = Append(accepted, t) => \E i \in DOMAIN accepted' : accepted'[i] = t
  <2> SUFFICES ASSUME accepted' = Append(accepted, t)
               PROVE  \E i \in DOMAIN accepted' : accepted'[i] = t
    OBVIOUS
  <2>1. /\ Len(accepted) + 1 \in DOMAIN Append(accepted, t)
        /\ Append(accepted, t)[Len(accepted) + 1] = t
    BY <1>1, AppendProperties
  <2> QED
    BY <2>1
<1>4. ASSUME NEW u \in promised
      PROVE  u \in discarded' \/ \E i \in DOMAIN accepted' : accepted'[i] = u
  <2>1. u \in discarded \/ \E i \in DOMAIN accepted : accepted[i] = u
    BY DEF LostOnlyWhenClosed
  <2> QED
    BY <1>2, <2>1
<1> QED
  BY <1>3, <1>4 DEF LostOnlyWhenClosed

LEMMA LostKeeps == IndInv /\ LostOnlyWhenClosed /\ [Next]_vars => LostOnlyWhenClosed'
<1> SUFFICES ASSUME IndInv, LostOnlyWhenClosed, [Next]_vars PROVE LostOnlyWhenClosed'
  OBVIOUS
<1>0. accepted \in Seq(Tokens)
  BY DEF IndInv, TypeOK
<1>1. ASSUME NEW p \in Producers, NEW t \in Tokens, Body(p, t),
             \/ promised' = promised
             \/ ~Full /\ promised' = promised \union {t}
      PROVE  LostOnlyWhenClosed'
  <2>1. CASE WaitForPlace(p, t)
    <3>1. /\ accepted' = accepted /\ discarded' = discarded /\ closed' = closed
          /\ promised' = promised
      BY <1>1, <2>1 DEF WaitForPlace, code
    <3> QED
      BY <1>0, <3>1, PromisesKept DEF LostOnlyWhenClosed
  <2>2. CASE Discard(p, t)
    <3>1. /\ accepted' = accepted /\ discarded' = discarded \union {t} /\ closed'
      BY <2>2 DEF Discard, code
    <3> QED
      BY <1>0, <1>1, <3>1, PromisesKept
  <2>3. CASE Enqueue(p, t)
    <3>1. /\ accepted' = Append(accepted, t)
          /\ discarded' = discarded /\ closed' = closed
      BY <2>3 DEF Enqueue
    <3> QED
      BY <1>0, <1>1, <3>1, PromisesKept DEF LostOnlyWhenClosed
  <2> QED
    BY <1>1, <2>1, <2>2, <2>3 DEF Body
<1>2. ASSUME NEW p \in Producers, Produce(p) \/ TryProduce(p) \/ ResumeProducer(p)
      PROVE  LostOnlyWhenClosed'
  <2>1. CASE Produce(p) \/ TryProduce(p)
    <3>1. offered + 1 \in Tokens
      BY <2>1, BackpressureAssumption DEF Produce, TryProduce, IndInv, TypeOK, Tokens
    <3> QED
      BY <1>1, <2>1, <3>1 DEF Produce, TryProduce
  <2>2. CASE ResumeProducer(p)
    <3>1. holding[p] \in Tokens
      BY <2>2 DEF ResumeProducer, IndInv, TypeOK
    <3> QED
      BY <1>1, <2>2, <3>1 DEF ResumeProducer
  <2> QED
    BY <1>2, <2>1, <2>2
<1>3. ASSUME UNCHANGED <<accepted, discarded, promised>>, closed => closed'
      PROVE  LostOnlyWhenClosed'
  BY <1>3 DEF LostOnlyWhenClosed
<1>4. ASSUME NEW c \in Consumers, Consume(c) \/ TryConsume(c) \/ ResumeConsumer(c)
      PROVE  LostOnlyWhenClosed'
  BY <1>3, <1>4 DEF Consume, TryConsume, ResumeConsumer, Dequeue, WaitForToken,
                    EndOfStream, code, history
<1>5. CASE Close
  BY <1>3, <1>5 DEF Close, history
<1>6. CASE \/ \E p \in Producers : CancelProducer(p)
           \/ \E c \in Consumers : CancelConsumer(c)
  BY <1>3, <1>6 DEF CancelProducer, CancelConsumer, code
<1>7. CASE UNCHANGED vars
  BY <1>3, <1>7 DEF vars, code, history
<1> QED
  BY <1>2, <1>4, <1>5, <1>6, <1>7 DEF Next, Run

-----------------------------------------------------------------------------
(* The invariants hold throughout. *)
THEOREM Invariance == Spec => []IndInv
BY InitInv, NextInv, PTL DEF Spec

(* All variables keep their types. *)
THEOREM TypeCorrect == Spec => []TypeOK
BY Invariance, PTL DEF IndInv

(* The statistics agree with the queue and the queue never outgrows        *)
(* max_size, however wake-ups interleave.                                  *)
THEOREM Conserved == Spec => []Conservation
BY Invariance, PTL DEF IndInv

(* Tokens are delivered once each, in the order they were queued. *)
THEOREM InOrder == Spec => []Order
BY Invariance, PTL DEF IndInv

(* A task sleeps beside a token, or a place, only when as many were        *)
(* notified, or were cancelled after having been notified.                 *)
THEOREM WakeupsSuffice == Spec => []NoLostWakeup
BY Invariance, PTL DEF IndInv

(* Nobody sleeps on a closed queue. *)
THEOREM CloseWakes == Spec => []ClosedWakesAll
BY Invariance, PTL DEF IndInv

(* The safety of the queue: besides, a token is lost, and True of          *)
(* try_produce is wrong, only after close().                               *)
THEOREM QueueSafe == Spec => []QueueInv
<1>1. Init => LostOnlyWhenClosed
  BY DEF Init, LostOnlyWhenClosed
<1>2. IndInv /\ LostOnlyWhenClosed => QueueInv
  BY DEF IndInv, QueueInv
<1> QED
  BY <1>1, <1>2, InitInv, NextInv, LostKeeps, PTL DEF Spec

(* The controller implements a bounded FIFO queue: producing enqueues one  *)
(* token or stutters, consuming takes the oldest one or stutters.          *)
THEOREM Refinement == Spec => IsBoundedFifo
<1>1. Init => Fifo!Init
  BY DEF Init, Fifo!Init
<1>2. IndInv /\ [Next]_vars => [Fifo!Next]_(Fifo!vars)
  <2> SUFFICES ASSUME IndInv, [Next]_vars
               PROVE  Fifo!Next \/ UNCHANGED Fifo!vars
    OBVIOUS
  <2> USE DEF Fifo!Next, Fifo!vars
  <2>1. ASSUME NEW p \in Producers, NEW t \in Tokens, Body(p, t)
        PROVE  Fifo!Next \/ UNCHANGED Fifo!vars
    <3>1. CASE Enqueue(p, t)
      <4>1. Len(queue) < MaxSize
        BY <3>1, BackpressureAssumption DEF Enqueue, Full, IndInv, TypeOK
      <4> QED
        BY <3>1, <4>1 DEF Enqueue, Fifo!Put
    <3> QED
      BY <2>1, <3>1 DEF Body, WaitForPlace, Discard, code
  <2>2. ASSUME NEW p \in Producers, Produce(p) \/ TryProduce(p) \/ ResumeProducer(p)
        PROVE  Fifo!Next \/ UNCHANGED Fifo!vars
    <3>1. PICK t \in Tokens : Body(p, t)
      <4>1. CASE Produce(p) \/ TryProduce(p)
        BY <4>1, BackpressureAssumption DEF Produce, TryProduce, IndInv, TypeOK, Tokens
      <4>2. CASE ResumeProducer(p)
        <5>1. holding[p] \in Tokens
          BY <4>2 DEF ResumeProducer, IndInv, TypeOK
        <5> QED
          BY <4>2, <5>1 DEF ResumeProducer
      <4> QED
        BY <2>2, <4>1, <4>2
    <3> QED
      BY <2>1, <3>1
  <2>3. ASSUME NEW c \in Consumers, Consume(c) \/ TryConsume(c) \/ ResumeConsumer(c)
        PROVE  Fifo!Next \/ UNCHANGED Fifo!vars
    BY <2>3 DEF Consume, TryConsume, ResumeConsumer, Dequeue, WaitForToken, EndOfStream,
                code, Fifo!Take
  <2>4. CASE Close
    BY <2>4 DEF Close, Fifo!Close
  <2>5. CASE \E p \in Producers : CancelProducer(p)
    BY <2>5 DEF CancelProducer, code
  <2>6. CASE \E c \in Consumers : CancelConsumer(c)
    BY <2>6 DEF CancelConsumer, code
  <2>7. CASE UNCHANGED vars
    BY <2>7 DEF vars, code
  <2> QED
    BY <2>2, <2>3, <2>4, <2>5, <2>6, <2>7 DEF Next, Run
<1> QED
  BY <1>1, <1>2, Invariance, PTL DEF Spec, IsBoundedFifo, Fifo!Spec

-----------------------------------------------------------------------------
(* The blackboard.  Within one life of a key the versions only grow, so    *)
(* that the version an agent has read stands for the value it has read.    *)
VersionsTell ==
  \A a \in BusAgents, k \in Keys :
     /\ seen[a][k].life <= life[k]
     /\ seen[a][k].life = life[k] => seen[a][k].version <= data[k].version
     /\ seen[a][k].life = life[k] /\ seen[a][k].version = data[k].version
          => seen[a][k].value = data[k].value

BoardIInv ==
  /\ Board!TypeOK /\ Board!UpdateReplacesWhatWasRead /\ VersionsTell
  /\ \A k \in Keys : data[k].version <= writes /\ data[k].value <= writes
  /\ notifying \subseteq [value : Nat, todo : SUBSET BusAgents]

LEMMA BoardStarts == Board!Init => BoardIInv
BY WaitsAssumption DEF Board!Init, BoardIInv, Board!TypeOK, Board!UpdateReplacesWhatWasRead, VersionsTell,
   Board!Cell, Board!Nothing, Board!Seen, Board!WaitStatus

LEMMA BoardSteps == BoardIInv /\ [Board!Next]_(Board!vars) => BoardIInv'
<1> SUFFICES ASSUME BoardIInv, [Board!Next]_(Board!vars) PROVE BoardIInv'
  OBVIOUS
<1> USE WaitsAssumption DEF BoardIInv, Board!TypeOK, Board!UpdateReplacesWhatWasRead
<1>0. /\ data \in [Keys -> Board!Cell] /\ seen \in [BusAgents -> [Keys -> Board!Seen]]
      /\ writes \in Nat /\ life \in [Keys -> 0..MaxRemovals]
      /\ \A k \in Keys : data[k].version \in Nat /\ data[k].value \in Nat /\ life[k] \in Nat
  BY DEF Board!Cell
<1>1. ASSUME NEW a \in BusAgents, NEW k \in Keys, NEW named \in BOOLEAN, Board!Write(a, k, named)
      PROVE  BoardIInv'
  <2> DEFINE cell == [value |-> writes + 1, version |-> data[k].version + 1]
             told == [value |-> writes + 1, todo |-> {b \in BusAgents : k \in subscribers[b]}]
  <2>1. /\ writes < MaxWrites /\ writes' = writes + 1 /\ data' = [data EXCEPT ![k] = cell]
        /\ UNCHANGED <<life, seen, subscribers, waits>>
    BY <1>1 DEF Board!Write, Board!NextVersion
  <2>2. cell \in Board!Cell /\ cell.version = data[k].version + 1 /\ cell.value = writes + 1
        /\ cell.version <= writes + 1
    BY <1>0, <2>1 DEF Board!Cell
  <2>3. notifying' = notifying \cup Board!Calls(told)
    BY <1>1 DEF Board!Write
  <2>4. \A n \in notifying' : n \in notifying \/ n = told
    BY <2>3 DEF Board!Calls
  <2>5. /\ told.value = writes + 1 /\ told.todo \subseteq BusAgents
        /\ told \in [value : Nat, todo : SUBSET BusAgents]
    BY <1>0
  <2>6. named => data[k].version = seen[a][k].version
    BY <1>1 DEF Board!Write
  <2>7. update' = IF named
                  THEN [expected |-> seen[a][k].value, replaced |-> data[k].value,
                        sameLife |-> seen[a][k].life = life[k]]
                  ELSE update
    BY <1>1 DEF Board!Write
  <2> HIDE DEF cell, told
  <2>8. Board!UpdateReplacesWhatWasRead' /\ update'.sameLife \in BOOLEAN
    BY <2>6, <2>7 DEF VersionsTell
  <2>9. data' \in [Keys -> Board!Cell] /\ data'[k] = cell /\ \A j \in Keys : j # k => data'[j] = data[j]
    BY <1>0, <2>1, <2>2
  <2>10. \A j \in Keys : data'[j].version <= writes' /\ data'[j].value <= writes'
    BY <1>0, <2>1, <2>2, <2>9
  <2>11. VersionsTell'
    <3> SUFFICES ASSUME NEW b \in BusAgents, NEW j \in Keys
                 PROVE  /\ seen[b][j].life <= life[j]
                        /\ seen[b][j].life = life[j] => seen[b][j].version <= data'[j].version
                        /\ seen[b][j].life = life[j] /\ seen[b][j].version = data'[j].version
                             => seen[b][j].value = data'[j].value
      BY <2>1 DEF VersionsTell
    <3>1. seen[b][j].version \in Nat
      BY <1>0 DEF Board!Seen
    <3>2. CASE j = k
      BY <1>0, <2>2, <2>9, <3>1, <3>2 DEF VersionsTell
    <3>3. CASE j # k
      BY <2>9, <3>3 DEF VersionsTell
    <3> QED
      BY <3>2, <3>3
  <2>12. /\ \A n \in notifying' : n.value \in 1..writes' /\ n.todo \subseteq BusAgents
         /\ notifying' \subseteq [value : Nat, todo : SUBSET BusAgents]
    BY <1>0, <2>1, <2>4, <2>5
  <2>13. writes' \in 0..MaxWrites
    BY <1>0, <2>1
  <2> QED
    BY <2>1, <2>8, <2>9, <2>10, <2>11, <2>12, <2>13
<1>2. ASSUME NEW a \in BusAgents, NEW k \in Keys, Board!Read(a, k) PROVE BoardIInv'
  <2> DEFINE now_ == [value |-> data[k].value, version |-> data[k].version, life |-> life[k]]
  <2>1. seen' = [seen EXCEPT ![a] = [seen[a] EXCEPT ![k] = now_]]
        /\ UNCHANGED <<data, writes, life, subscribers, notifying, waits, update>>
    BY <1>0, <1>2 DEF Board!Read
  <2>2. now_ \in Board!Seen
    BY <1>0 DEF Board!Seen, Board!Cell
  <2>3. seen' \in [BusAgents -> [Keys -> Board!Seen]]
    BY <1>0, <2>1, <2>2
  <2>4. \A b \in BusAgents, j \in Keys :
          seen'[b][j] = IF b = a /\ j = k THEN now_ ELSE seen[b][j]
    BY <1>0, <2>1
  <2>5. VersionsTell'
    BY <1>0, <2>1, <2>4 DEF VersionsTell
  <2> QED
    BY <2>1, <2>3, <2>5
<1>3. ASSUME NEW ks \in SUBSET Keys, Board!Remove(ks) PROVE BoardIInv'
  <2>1. /\ data' = [k \in Keys |-> IF k \in ks THEN Board!Nothing ELSE data[k]]
        /\ life' = [k \in Keys |-> IF k \in ks THEN life[k] + 1 ELSE life[k]]
        /\ \A k \in ks : life[k] < MaxRemovals
        /\ UNCHANGED <<writes, seen, subscribers, notifying, waits, update>>
    BY <1>3 DEF Board!Remove
  <2>2. Board!Nothing \in Board!Cell /\ Board!Nothing.version = 0 /\ Board!Nothing.value = 0
    BY DEF Board!Nothing, Board!Cell
  <2>3. data' \in [Keys -> Board!Cell] /\ life' \in [Keys -> 0..MaxRemovals]
    BY <1>0, <2>1, <2>2
  <2>4. \A k \in Keys : data'[k].version <= writes' /\ data'[k].value <= writes'
    BY <1>0, <2>1, <2>2
  <2>5. VersionsTell'
    <3> SUFFICES ASSUME NEW b \in BusAgents, NEW j \in Keys
                 PROVE  /\ seen[b][j].life <= life'[j]
                        /\ seen[b][j].life = life'[j] => seen[b][j].version <= data'[j].version
                        /\ seen[b][j].life = life'[j] /\ seen[b][j].version = data'[j].version
                             => seen[b][j].value = data'[j].value
      BY <2>1 DEF VersionsTell
    <3>1. seen[b][j].life \in Nat
      BY <1>0 DEF Board!Seen
    <3>2. CASE j \in ks
      BY <1>0, <2>1, <3>1, <3>2 DEF VersionsTell
    <3>3. CASE j \notin ks
      BY <2>1, <3>3 DEF VersionsTell
    <3> QED
      BY <3>2, <3>3
  <2> QED
    BY <2>1, <2>3, <2>4, <2>5
<1>4. ASSUME UNCHANGED <<data, writes, life, seen, update>>,
             subscribers' \in [BusAgents -> SUBSET Keys], waits' \in [BusAgents -> Board!WaitStatus],
             \A n \in notifying' : \/ n \in notifying
                                   \/ \E m \in notifying, a \in BusAgents : n = [m EXCEPT !.todo = @ \ {a}]
      PROVE  BoardIInv'
  <2>1. ASSUME NEW n \in notifying'
        PROVE  /\ n \in [value : Nat, todo : SUBSET BusAgents]
               /\ n.value \in 1..writes' /\ n.todo \subseteq BusAgents
    <3>1. CASE n \in notifying
      BY <1>4, <3>1
    <3>2. ASSUME NEW m \in notifying, NEW a \in BusAgents, n = [m EXCEPT !.todo = @ \ {a}]
          PROVE  /\ n \in [value : Nat, todo : SUBSET BusAgents]
                 /\ n.value \in 1..writes' /\ n.todo \subseteq BusAgents
      <4>1. m \in [value : Nat, todo : SUBSET BusAgents] /\ m.value \in 1..writes
        OBVIOUS
      <4> QED
        BY <1>4, <3>2, <4>1
    <3> QED
      BY <1>4, <3>1, <3>2
  <2>2. VersionsTell'
    BY <1>4 DEF VersionsTell
  <2> QED
    BY <1>4, <2>1, <2>2
<1>5. ASSUME NEW n \in notifying, NEW a \in BusAgents, Board!Notify(n, a) PROVE BoardIInv'
  <2>1. /\ notifying' = (notifying \ {n}) \cup Board!Calls([n EXCEPT !.todo = @ \ {a}])
        /\ waits' = IF waits[a] = "waiting" THEN [waits EXCEPT ![a] = "set"] ELSE waits
        /\ UNCHANGED <<data, writes, life, seen, subscribers, update>>
    BY <1>5 DEF Board!Notify
  <2>2. \A m \in notifying' : m \in notifying \/ m = [n EXCEPT !.todo = @ \ {a}]
    BY <2>1 DEF Board!Calls
  <2>3. waits' \in [BusAgents -> Board!WaitStatus]
    BY <2>1 DEF Board!WaitStatus
  <2> QED
    BY <1>4, <2>1, <2>2, <2>3
<1>6. ASSUME NEW a \in BusAgents, NEW k \in Keys, Board!WaitFor(a, k) PROVE BoardIInv'
  BY <1>4, <1>6 DEF Board!WaitFor, Board!WaitStatus
<1>7. ASSUME NEW a \in BusAgents, NEW ks \in SUBSET Keys, Board!Subscribe(a, ks) PROVE BoardIInv'
  BY <1>4, <1>7 DEF Board!Subscribe
<1>8. ASSUME NEW a \in BusAgents, notifying' = Board!Without(a)
      PROVE  \A n \in notifying' : \E m \in notifying : n = [m EXCEPT !.todo = @ \ {a}]
  <2> TAKE n \in notifying'
  <2>1. PICK m \in notifying : n \in Board!Calls([m EXCEPT !.todo = @ \ {a}])
    BY <1>8, Zenon DEF Board!Without
  <2>2. n = [m EXCEPT !.todo = @ \ {a}]
    BY <2>1 DEF Board!Calls
  <2> QED
    BY <2>2
<1>9. ASSUME NEW a \in BusAgents, Board!Unsubscribe(a) PROVE BoardIInv'
  <2>1. /\ UNCHANGED <<data, writes, life, seen, waits, update>> /\ notifying' = Board!Without(a)
        /\ subscribers' = [subscribers EXCEPT ![a] = {}]
    BY <1>9 DEF Board!Unsubscribe
  <2>2. \A n \in notifying' : \E m \in notifying : n = [m EXCEPT !.todo = @ \ {a}]
    BY <1>8, <2>1
  <2>3. subscribers' \in [BusAgents -> SUBSET Keys]
    BY <2>1
  <2> QED
    BY <1>4, <2>1, <2>2, <2>3
<1>10. ASSUME NEW a \in BusAgents, Board!WaitReturns(a) PROVE BoardIInv'
  <2>1. /\ UNCHANGED <<data, writes, life, seen, update>> /\ notifying' = Board!Without(a)
        /\ subscribers' = [subscribers EXCEPT ![a] = {}] /\ waits' = [waits EXCEPT ![a] = "idle"]
    BY <1>10 DEF Board!WaitReturns
  <2>2. \A n \in notifying' : \E m \in notifying : n = [m EXCEPT !.todo = @ \ {a}]
    BY <1>8, <2>1
  <2>3. subscribers' \in [BusAgents -> SUBSET Keys] /\ waits' \in [BusAgents -> Board!WaitStatus]
    BY <2>1 DEF Board!WaitStatus
  <2> QED
    BY <1>4, <2>1, <2>2, <2>3
<1>11. CASE UNCHANGED Board!vars
  <2>1. UNCHANGED <<data, writes, life, seen, update, subscribers, waits, notifying>>
    BY <1>11 DEF Board!vars
  <2>2. subscribers' \in [BusAgents -> SUBSET Keys] /\ waits' \in [BusAgents -> Board!WaitStatus]
    BY <2>1
  <2>3. \A n \in notifying' : n \in notifying
    BY <2>1
  <2> QED
    BY <1>4, <2>1, <2>2, <2>3
<1> HIDE DEF BoardIInv, Board!TypeOK, Board!UpdateReplacesWhatWasRead
<1> QED
  BY <1>1, <1>2, <1>3, <1>5, <1>6, <1>7, <1>9, <1>10, <1>11 DEF Board!Next

-----------------------------------------------------------------------------
(* The message bus.  A message of a request or of its answer names who     *)
(* asked and who was asked.                                                *)
Genuine(message, asked) ==
  message.kind # "broadcast" =>
    /\ message.id \in 1..Len(asked)
    /\ message.kind = "request" =>
         message.from = asked[message.id].from /\ message.to = asked[message.id].to
    /\ message.kind = "response" =>
         message.from = asked[message.id].to /\ message.to = asked[message.id].from

BusTyped ==
  /\ queues \in [Bus!Names -> Seq(Bus!Message)]
  /\ \A b \in Bus!Names : Len(queues[b]) <= MaxQueue
  /\ futures \subseteq 1..Len(requests)
  /\ requests \in Seq(Bus!RequestInfo) /\ Len(requests) <= MaxRequests
  /\ received \in [Bus!Names -> SUBSET (1..Len(requests))]
  /\ sent \in 0..MaxSent

(* Every heartbeat that was missed was a request of its own.               *)
MissedCounted ==
  /\ health \in [BusAgents -> [alive : BOOLEAN, missed : Nat, check : Nat]]
  /\ \A b \in BusAgents : /\ health[b].check <= Len(requests)
                          /\ health[b].missed + (IF health[b].check = 0 THEN 0 ELSE 1) <= Len(requests)

MessagesGenuine ==
  \A b \in Bus!Names : \A i \in 1..Len(queues[b]) : Genuine(queues[b][i], requests)

BusIInv ==
  BusTyped /\ MissedCounted /\ MessagesGenuine /\ Bus!OwnAnswer /\ Bus!FuturesAccount

LEMMA BusStarts == Bus!Init => BusIInv
<1> SUFFICES ASSUME Bus!Init PROVE BusIInv
  OBVIOUS
<1>1. BusTyped
  BY WaitsAssumption, EmptySeq DEF Bus!Init, BusTyped
<1>2. MissedCounted
  BY EmptySeq DEF Bus!Init, MissedCounted
<1>3. MessagesGenuine
  BY EmptySeq DEF Bus!Init, MessagesGenuine
<1>4. Bus!OwnAnswer /\ Bus!FuturesAccount
  BY EmptySeq DEF Bus!Init, Bus!OwnAnswer, Bus!FuturesAccount
<1> QED
  BY <1>1, <1>2, <1>3, <1>4 DEF BusIInv

(* A queue with one more message, the oldest gone if it was full.          *)
Pushed(old, message) == Append(IF Len(old) >= MaxQueue THEN Tail(old) ELSE old, message)

LEMMA PushedKeeps ==
  ASSUME NEW old \in Seq(Bus!Message), Len(old) <= MaxQueue, NEW message \in Bus!Message
  PROVE  /\ Pushed(old, message) \in Seq(Bus!Message) /\ Len(Pushed(old, message)) <= MaxQueue
         /\ \A i \in 1..Len(Pushed(old, message)) :
               \/ Pushed(old, message)[i] = message
               \/ \E j \in 1..Len(old) : Pushed(old, message)[i] = old[j]
<1> DEFINE kept == IF Len(old) >= MaxQueue THEN Tail(old) ELSE old
<1>1. /\ kept \in Seq(Bus!Message) /\ Len(kept) + 1 <= MaxQueue
      /\ \A i \in 1..Len(kept) : \E j \in 1..Len(old) : kept[i] = old[j]
  <2>1. CASE Len(old) >= MaxQueue
    <3>1. old # <<>> /\ Len(old) = MaxQueue /\ Len(old) \in Nat
      BY <2>1, WaitsAssumption, EmptySeq, LenProperties
    <3>2. /\ Tail(old) \in Seq(Bus!Message) /\ Len(Tail(old)) = Len(old) - 1
          /\ \A i \in 1..Len(Tail(old)) : Tail(old)[i] = old[i + 1]
      BY <3>1, HeadTailProperties
    <3>3. ASSUME NEW i \in 1..Len(Tail(old)) PROVE \E j \in 1..Len(old) : Tail(old)[i] = old[j]
      <4>1. i + 1 \in 1..Len(old)
        BY <3>1, <3>2
      <4> QED
        BY <3>2, <4>1
    <3> QED
      BY <2>1, <3>1, <3>2, <3>3, WaitsAssumption
  <2>2. CASE ~(Len(old) >= MaxQueue)
    BY <2>2, WaitsAssumption, LenProperties
  <2> QED
    BY <2>1, <2>2
<1> HIDE DEF kept
<1>2. /\ Append(kept, message) \in Seq(Bus!Message)
      /\ Len(Append(kept, message)) = Len(kept) + 1
      /\ \A i \in 1..Len(kept) : Append(kept, message)[i] = kept[i]
      /\ Append(kept, message)[Len(kept) + 1] = message
  BY <1>1, AppendProperties
<1>3. Len(kept) \in Nat
  BY <1>1, LenProperties
<1>4. \A i \in 1..(Len(kept) + 1) : i \in 1..Len(kept) \/ i = Len(kept) + 1
  BY <1>3
<1>5. Pushed(old, message) = Append(kept, message)
  BY DEF kept, Pushed
<1> QED
  BY <1>1, <1>2, <1>4, <1>5

(* What is said of a request stays true while requests are only added and  *)
(* answered.                                                               *)
LEMMA StillGenuine ==
  ASSUME NEW asked, NEW later, Len(asked) \in Nat, Len(later) \in Nat, Len(asked) <= Len(later),
         \A r \in 1..Len(asked) : later[r].from = asked[r].from /\ later[r].to = asked[r].to,
         NEW message, Genuine(message, asked)
  PROVE  Genuine(message, later)
BY DEF Genuine

(* A message that is put into a queue: the others keep theirs.             *)
LEMMA QueuedKeeps ==
  ASSUME BusTyped, MessagesGenuine, NEW message \in Bus!Message,
         queues' = Bus!Queued(queues, message),
         requests' \in Seq(Bus!RequestInfo), Len(requests) <= Len(requests'),
         \A r \in 1..Len(requests) : /\ requests'[r].from = requests[r].from
                                     /\ requests'[r].to = requests[r].to,
         Genuine(message, requests')
  PROVE  /\ queues' \in [Bus!Names -> Seq(Bus!Message)]
         /\ \A b \in Bus!Names : Len(queues'[b]) <= MaxQueue
         /\ MessagesGenuine'
<1> DEFINE pushed == Pushed(queues[message.to], message)
<1>1. message.to \in Bus!Names
  BY DEF Bus!Message
<1>2. queues[message.to] \in Seq(Bus!Message) /\ Len(queues[message.to]) <= MaxQueue
  BY <1>1 DEF BusTyped
<1>3. queues' = [queues EXCEPT ![message.to] = pushed]
  BY DEF Bus!Queued, Pushed
<1>4. /\ pushed \in Seq(Bus!Message) /\ Len(pushed) <= MaxQueue
      /\ \A i \in 1..Len(pushed) : \/ pushed[i] = message
                                   \/ \E j \in 1..Len(queues[message.to]) : pushed[i] = queues[message.to][j]
  <2> DEFINE old == queues[message.to]
  <2>1. old \in Seq(Bus!Message) /\ Len(old) <= MaxQueue
    BY <1>2
  <2> HIDE DEF old
  <2>2. /\ Pushed(old, message) \in Seq(Bus!Message) /\ Len(Pushed(old, message)) <= MaxQueue
        /\ \A i \in 1..Len(Pushed(old, message)) :
               \/ Pushed(old, message)[i] = message
               \/ \E j \in 1..Len(old) : Pushed(old, message)[i] = old[j]
    BY <2>1, PushedKeeps
  <2> QED
    BY <2>2 DEF old
<1> HIDE DEF pushed
<1>5. Len(requests) \in Nat /\ Len(requests') \in Nat
  BY LenProperties DEF BusTyped
<1>6. \A b \in Bus!Names : \A i \in 1..Len(queues[b]) : Genuine(queues[b][i], requests')
  <2> SUFFICES ASSUME NEW b \in Bus!Names, NEW i \in 1..Len(queues[b])
               PROVE  Genuine(queues[b][i], requests')
    OBVIOUS
  <2>1. Genuine(queues[b][i], requests)
    BY DEF MessagesGenuine
  <2> QED
    BY <1>5, <2>1, StillGenuine
<1>7. \A b \in Bus!Names : queues'[b] = IF b = message.to THEN pushed ELSE queues[b]
  BY <1>1, <1>3 DEF BusTyped
<1>8. MessagesGenuine'
  <2> SUFFICES ASSUME NEW b \in Bus!Names, NEW i \in 1..Len(queues'[b])
               PROVE  Genuine(queues'[b][i], requests')
    BY DEF MessagesGenuine
  <2>1. CASE b = message.to
    BY <1>1, <1>4, <1>6, <1>7, <2>1
  <2>2. CASE b # message.to
    BY <1>6, <1>7, <2>2
  <2> QED
    BY <2>1, <2>2
<1> QED
  BY <1>1, <1>3, <1>4, <1>7, <1>8 DEF BusTyped

LEMMA BusSteps == BusIInv /\ [Bus!Next]_(Bus!vars) => BusIInv'
<1> SUFFICES ASSUME BusIInv, [Bus!Next]_(Bus!vars) PROVE BusIInv'
  OBVIOUS
<1>0. /\ BusTyped /\ MissedCounted /\ MessagesGenuine /\ Bus!OwnAnswer /\ Bus!FuturesAccount
      /\ Len(requests) \in Nat /\ DOMAIN requests = 1..Len(requests)
      /\ Monitor \in Bus!Names /\ BusAgents \subseteq Bus!Names
  BY LenProperties DEF BusIInv, BusTyped, Bus!Names
<1>1. ASSUME NEW a \in Bus!Names, NEW b \in BusAgents, Bus!Request(a, b), UNCHANGED <<received, sent>>,
             \/ UNCHANGED health
             \/ (\A c \in BusAgents : health[c].check = 0) /\ health' = [health EXCEPT ![b].check = Len(requests) + 1]
      PROVE  BusIInv'
  <2> DEFINE info == [from |-> a, to |-> b, status |-> "waiting", answer |-> None]
             message == [kind |-> "request", id |-> Len(requests) + 1, from |-> a, to |-> b]
             r == Len(requests) + 1
  <2>1. /\ Len(requests) + 1 <= MaxRequests /\ requests' = Append(requests, info)
        /\ futures' = futures \cup {r} /\ queues' = Bus!Queued(queues, message)
    BY <1>1 DEF Bus!Request
  <2>2. info \in Bus!RequestInfo
    BY DEF Bus!RequestInfo, Bus!Status
  <2>3. message \in Bus!Message
    BY <1>0, <2>1, WaitsAssumption DEF Bus!Message
  <2>4. info.from = a /\ info.to = b /\ info.status = "waiting" /\ info.answer = None
        /\ message.kind = "request" /\ message.id = r /\ message.from = a /\ message.to = b
    OBVIOUS
  <2> HIDE DEF info, message
  <2>5. /\ requests' \in Seq(Bus!RequestInfo) /\ Len(requests') = r
        /\ \A q \in 1..Len(requests) : requests'[q] = requests[q]
        /\ requests'[r] = info
    BY <1>0, <2>1, <2>2, AppendProperties DEF BusTyped
  <2>6. Genuine(message, requests')
    BY <1>0, <2>4, <2>5 DEF Genuine
  <2>7. /\ queues' \in [Bus!Names -> Seq(Bus!Message)]
        /\ \A c \in Bus!Names : Len(queues'[c]) <= MaxQueue
        /\ MessagesGenuine'
    BY <1>0, <2>1, <2>3, <2>5, <2>6, QueuedKeeps
  <2>8. DOMAIN requests' = 1..r /\ \A q \in 1..r : q \in 1..Len(requests) \/ q = r
    BY <1>0, <2>5, LenProperties
  <2>9. BusTyped'
    <3>1. futures' \subseteq 1..Len(requests')
      <4>1. futures \subseteq 1..Len(requests)
        BY <1>0 DEF BusTyped
      <4>2. 1..Len(requests) \subseteq 1..r /\ r \in 1..r
        BY <1>0
      <4> QED
        BY <2>1, <2>5, <4>1, <4>2
    <3>2. received' \in [Bus!Names -> SUBSET (1..Len(requests'))]
      BY <1>0, <1>1, <2>5 DEF BusTyped
    <3> QED
      BY <1>0, <1>1, <2>1, <2>5, <2>7, <3>1, <3>2 DEF BusTyped
  <2>10. MissedCounted'
    BY <1>0, <1>1, <2>5 DEF MissedCounted
  <2>11. Bus!OwnAnswer'
    BY <1>0, <2>4, <2>5, <2>8 DEF Bus!OwnAnswer
  <2>12. Bus!FuturesAccount'
    BY <1>0, <2>1, <2>4, <2>5, <2>8 DEF Bus!FuturesAccount, BusTyped
  <2> QED
    BY <2>7, <2>9, <2>10, <2>11, <2>12 DEF BusIInv
<1>2. ASSUME NEW message \in Bus!Message, queues' = Bus!Queued(queues, message), Genuine(message, requests),
             sent < MaxSent, sent' = sent + 1, UNCHANGED <<futures, requests, received, health>>
      PROVE  BusIInv'
  <2>1. /\ queues' \in [Bus!Names -> Seq(Bus!Message)]
        /\ \A c \in Bus!Names : Len(queues'[c]) <= MaxQueue
        /\ MessagesGenuine'
    <3>1. requests' \in Seq(Bus!RequestInfo) /\ Len(requests) <= Len(requests')
          /\ Genuine(message, requests')
      BY <1>0, <1>2 DEF BusTyped
    <3> QED
      BY <1>0, <1>2, <3>1, QueuedKeeps
  <2>2. sent' \in 0..MaxSent
    BY <1>0, <1>2, WaitsAssumption DEF BusTyped
  <2>3. BusTyped'
    BY <1>0, <1>2, <2>1, <2>2 DEF BusTyped
  <2>4. MissedCounted' /\ Bus!OwnAnswer' /\ Bus!FuturesAccount'
    BY <1>0, <1>2 DEF MissedCounted, Bus!OwnAnswer, Bus!FuturesAccount
  <2> QED
    BY <2>1, <2>3, <2>4 DEF BusIInv
<1>3. ASSUME NEW a \in BusAgents, NEW r \in received[a], Bus!Respond(a, r) PROVE BusIInv'
  <2> DEFINE message == [kind |-> "response", id |-> r, from |-> requests[r].to, to |-> requests[r].from]
  <2>1. r \in 1..Len(requests) /\ requests[r] \in Bus!RequestInfo /\ r \in 0..MaxRequests
    BY <1>0, <1>3, WaitsAssumption DEF BusTyped
  <2>2. message \in Bus!Message
    BY <1>0, <2>1 DEF Bus!Message, Bus!RequestInfo
  <2>3. Genuine(message, requests)
    BY <2>1 DEF Genuine
  <2>4. queues' = Bus!Queued(queues, message) /\ sent < MaxSent /\ sent' = sent + 1
        /\ UNCHANGED <<futures, requests, received, health>>
    BY <1>3 DEF Bus!Respond
  <2> HIDE DEF message
  <2> QED
    BY <1>2, <2>2, <2>3, <2>4
<1>4. ASSUME NEW a \in BusAgents, Bus!Broadcast(a) PROVE BusIInv'
  <2>1. PICK last \in BusAgents :
          queues' = [b \in Bus!Names |->
                       IF b = a THEN queues[b]
                       ELSE Bus!Queued([queues EXCEPT ![last] = queues[b]],
                                       [kind |-> "broadcast", id |-> 0, from |-> a, to |-> last])[last]]
    BY <1>4 DEF Bus!Broadcast
  <2> DEFINE message == [kind |-> "broadcast", id |-> 0, from |-> a, to |-> last]
  <2>2. sent < MaxSent /\ sent' = sent + 1 /\ UNCHANGED <<futures, requests, received, health>>
    BY <1>4 DEF Bus!Broadcast
  <2>3. message \in Bus!Message /\ message.kind = "broadcast" /\ message.to = last
    BY <1>0, WaitsAssumption DEF Bus!Message
  <2>4. \A b \in Bus!Names : queues'[b] = queues[b] \/ queues'[b] = Pushed(queues[b], message)
    <3> SUFFICES ASSUME NEW b \in Bus!Names, b # a PROVE queues'[b] = Pushed(queues[b], message)
      BY <2>1
    <3> DEFINE all == [queues EXCEPT ![last] = queues[b]]
    <3>1. all[last] = queues[b] /\ last \in DOMAIN all
      BY <1>0 DEF BusTyped
    <3>2. queues'[b] = Bus!Queued(all, message)[last]
      BY <2>1
    <3> HIDE DEF all, message
    <3>3. Bus!Queued(all, message) = [all EXCEPT ![last] = Pushed(queues[b], message)]
      BY <2>3, <3>1 DEF Bus!Queued, Pushed
    <3> QED
      BY <3>1, <3>2, <3>3
  <2> HIDE DEF message
  <2>5. ASSUME NEW b \in Bus!Names
        PROVE  /\ queues'[b] \in Seq(Bus!Message) /\ Len(queues'[b]) <= MaxQueue
               /\ \A i \in 1..Len(queues'[b]) : Genuine(queues'[b][i], requests)
    <3>1. /\ queues[b] \in Seq(Bus!Message) /\ Len(queues[b]) <= MaxQueue
          /\ \A i \in 1..Len(queues[b]) : Genuine(queues[b][i], requests)
      BY <1>0 DEF BusTyped, MessagesGenuine
    <3>2. Genuine(message, requests)
      BY <2>3 DEF Genuine
    <3>3. CASE queues'[b] = queues[b]
      BY <3>1, <3>3
    <3>4. CASE queues'[b] = Pushed(queues[b], message)
      <4> DEFINE old == queues[b]
      <4>1. old \in Seq(Bus!Message) /\ Len(old) <= MaxQueue
        BY <3>1
      <4> HIDE DEF old
      <4>2. /\ Pushed(old, message) \in Seq(Bus!Message) /\ Len(Pushed(old, message)) <= MaxQueue
            /\ \A i \in 1..Len(Pushed(old, message)) :
                   \/ Pushed(old, message)[i] = message
                   \/ \E j \in 1..Len(old) : Pushed(old, message)[i] = old[j]
        BY <2>3, <4>1, PushedKeeps
      <4>3. \A j \in 1..Len(old) : Genuine(old[j], requests)
        BY <3>1 DEF old
      <4>4. queues'[b] = Pushed(old, message)
        BY <3>4 DEF old
      <4> QED
        BY <3>2, <4>2, <4>3, <4>4
    <3> QED
      BY <2>4, <3>3, <3>4
  <2>6. queues' \in [Bus!Names -> Seq(Bus!Message)]
    BY <2>1, <2>5
  <2>7. sent' \in 0..MaxSent
    BY <1>0, <2>2, WaitsAssumption DEF BusTyped
  <2>8. BusTyped'
    BY <1>0, <2>2, <2>5, <2>6, <2>7 DEF BusTyped
  <2>9. MessagesGenuine'
    BY <2>2, <2>5 DEF MessagesGenuine
  <2>10. MissedCounted' /\ Bus!OwnAnswer' /\ Bus!FuturesAccount'
    BY <1>0, <2>2 DEF MissedCounted, Bus!OwnAnswer, Bus!FuturesAccount
  <2> QED
    BY <2>8, <2>9, <2>10 DEF BusIInv
<1>5. ASSUME NEW a \in BusAgents, NEW expired \in 0..MaxQueue, Bus!Receive(a, expired) PROVE BusIInv'
  <2> DEFINE message == queues[a][expired + 1]
             found == Bus!Resolved(a, message)
             rest == SubSeq(queues[a], expired + 2, Len(queues[a]))
  <2>0. /\ a \in Bus!Names /\ queues[a] \in Seq(Bus!Message) /\ Len(queues[a]) \in Nat
        /\ Len(queues[a]) <= MaxQueue /\ expired + 1 \in 1..Len(queues[a]) /\ expired \in Nat
    <3>1. a \in Bus!Names /\ queues[a] \in Seq(Bus!Message) /\ Len(queues[a]) <= MaxQueue
      BY <1>0 DEF BusTyped
    <3>2. Len(queues[a]) \in Nat
      BY <3>1, LenProperties
    <3>3. expired \in 0..(Len(queues[a]) - 1)
      BY <1>5 DEF Bus!Receive
    <3> QED
      BY <3>1, <3>2, <3>3
  <2>1. /\ queues' = [queues EXCEPT ![a] = rest]
        /\ futures' = futures \ found
        /\ requests' = [r \in DOMAIN requests |->
                           IF r \in found THEN [requests[r] EXCEPT !.answer = message] ELSE requests[r]]
        /\ received' = [received EXCEPT ![a] =
                           IF message.kind = "request" THEN @ \cup {message.id} ELSE @]
        /\ UNCHANGED <<health, sent>>
    BY <1>5 DEF Bus!Receive
  <2>2. message \in Bus!Message /\ Genuine(message, requests)
    BY <1>0, <2>0 DEF MessagesGenuine
  <2>3. found = {} \/ (/\ message.kind = "response" /\ message.id \in futures /\ found = {message.id})
    BY DEF Bus!Resolved
  <2>4. /\ rest \in Seq(Bus!Message) /\ Len(rest) <= MaxQueue
        /\ \A i \in 1..Len(rest) : \E j \in 1..Len(queues[a]) : rest[i] = queues[a][j]
    <3>1. CASE expired + 2 <= Len(queues[a])
      <4>1. /\ rest \in Seq(Bus!Message) /\ Len(rest) = Len(queues[a]) - (expired + 2) + 1
            /\ \A i \in 1..(Len(queues[a]) - (expired + 2) + 1) : rest[i] = queues[a][expired + 2 + i - 1]
        BY <2>0, <3>1, SubSeqProperties
      <4>2. Len(rest) <= MaxQueue
        BY <2>0, <4>1, WaitsAssumption
      <4>3. ASSUME NEW i \in 1..Len(rest)
            PROVE  \E j \in 1..Len(queues[a]) : rest[i] = queues[a][j]
        <5>1. expired + 2 + i - 1 \in 1..Len(queues[a])
          BY <2>0, <3>1, <4>1
        <5>2. rest[i] = queues[a][expired + 2 + i - 1]
          BY <4>1
        <5> HIDE DEF rest
        <5> QED
          BY <5>1, <5>2
      <4> HIDE DEF rest
      <4> QED
        BY <4>1, <4>2, <4>3
    <3>2. CASE ~(expired + 2 <= Len(queues[a]))
      <4>1. rest = <<>>
        BY <2>0, <3>2, SubSeqProperties
      <4> HIDE DEF rest
      <4> QED
        BY <4>1, EmptySeq, WaitsAssumption
    <3> QED
      BY <3>1, <3>2
  <2> HIDE DEF message, found, rest
  <2>5. ASSUME NEW r \in 1..Len(requests)
        PROVE  /\ requests'[r] \in Bus!RequestInfo
               /\ requests'[r].from = requests[r].from /\ requests'[r].to = requests[r].to
               /\ requests'[r].status = requests[r].status
               /\ r \in found => requests'[r].answer = message
               /\ r \notin found => requests'[r] = requests[r]
    <3>1. requests[r] \in Bus!RequestInfo
      BY <1>0 DEF BusTyped
    <3>2. [requests[r] EXCEPT !.answer = message] \in Bus!RequestInfo
      BY <2>2, <3>1 DEF Bus!RequestInfo
    <3>3. CASE r \in found
      <4>1. requests'[r] = [requests[r] EXCEPT !.answer = message]
        BY <1>0, <2>1, <3>3
      <4> QED
        BY <3>1, <3>2, <3>3, <4>1 DEF Bus!RequestInfo
    <3>4. CASE r \notin found
      <4>1. requests'[r] = requests[r]
        BY <1>0, <2>1, <3>4
      <4> QED
        BY <3>1, <3>4, <4>1
    <3> QED
      BY <3>3, <3>4
  <2>6. DOMAIN requests' = 1..Len(requests) /\ requests' \in Seq(Bus!RequestInfo)
        /\ Len(requests') = Len(requests)
    <3>1. requests' \in [1..Len(requests) -> Bus!RequestInfo]
      BY <1>0, <2>1, <2>5
    <3> QED
      BY <1>0, <3>1
  <2>7. queues' \in [Bus!Names -> Seq(Bus!Message)] /\ \A b \in Bus!Names : Len(queues'[b]) <= MaxQueue
    BY <1>0, <2>1, <2>4 DEF BusTyped
  <2>8. MessagesGenuine'
    <3> SUFFICES ASSUME NEW b \in Bus!Names, NEW i \in 1..Len(queues'[b])
                 PROVE  Genuine(queues'[b][i], requests')
      BY DEF MessagesGenuine
    <3>1. Genuine(queues'[b][i], requests)
      <4>1. CASE b = a
        <5>1. queues'[b] = rest
          BY <1>0, <2>0, <2>1, <4>1 DEF BusTyped
        <5>2. PICK j \in 1..Len(queues[a]) : rest[i] = queues[a][j]
          BY <2>4, <5>1
        <5> QED
          BY <1>0, <2>0, <5>1, <5>2 DEF MessagesGenuine
      <4>2. CASE b # a
        BY <1>0, <2>1, <4>2 DEF BusTyped, MessagesGenuine
      <4> QED
        BY <4>1, <4>2
    <3> QED
      BY <1>0, <2>5, <2>6, <3>1, StillGenuine
  <2>9. received' \in [Bus!Names -> SUBSET (1..Len(requests'))]
    <3>1. message.kind = "request" => message.id \in 1..Len(requests)
      BY <2>2 DEF Genuine
    <3> QED
      BY <1>0, <2>0, <2>1, <2>6, <3>1 DEF BusTyped
  <2>10. BusTyped'
    <3>1. futures' \subseteq 1..Len(requests')
      BY <1>0, <2>1, <2>6 DEF BusTyped
    <3> QED
      BY <1>0, <2>1, <2>6, <2>7, <2>9, <3>1 DEF BusTyped
  <2>11. MissedCounted'
    BY <1>0, <2>1, <2>6 DEF MissedCounted
  <2>12. Bus!OwnAnswer'
    <3> SUFFICES ASSUME NEW r \in 1..Len(requests), requests'[r].answer # None
                 PROVE  /\ requests'[r].answer.id = r
                        /\ requests'[r].answer.from = requests'[r].to
                        /\ requests'[r].answer.to = requests'[r].from
      BY <2>6 DEF Bus!OwnAnswer
    <3>1. CASE r \in found
      <4>1. r = message.id /\ message.kind = "response"
        BY <2>3, <3>1
      <4>2. message.from = requests[r].to /\ message.to = requests[r].from
        BY <2>2, <4>1 DEF Genuine
      <4> QED
        BY <2>5, <3>1, <4>1, <4>2
    <3>2. CASE r \notin found
      BY <1>0, <2>5, <3>2 DEF Bus!OwnAnswer
    <3> QED
      BY <3>1, <3>2
  <2>13. Bus!FuturesAccount'
    <3> SUFFICES ASSUME NEW r \in 1..Len(requests)
                 PROVE  /\ r \in futures' => /\ requests'[r].status \in {"waiting", "cancelled"}
                                             /\ requests'[r].answer = None
                        /\ requests'[r].status = "waiting" => r \in futures' \/ requests'[r].answer # None
      BY <2>6 DEF Bus!FuturesAccount
    <3>1. message # None
      BY <2>2, WaitsAssumption
    <3>2. /\ r \in futures => requests[r].status \in {"waiting", "cancelled"} /\ requests[r].answer = None
          /\ requests[r].status = "waiting" => r \in futures \/ requests[r].answer # None
      BY <1>0 DEF Bus!FuturesAccount
    <3>3. CASE r \in found
      BY <2>1, <2>5, <3>1, <3>3
    <3>4. CASE r \notin found
      BY <2>1, <2>5, <3>2, <3>4
    <3> QED
      BY <3>3, <3>4
  <2> QED
    BY <2>8, <2>10, <2>11, <2>12, <2>13 DEF BusIInv
<1>6. ASSUME NEW a \in BusAgents, Bus!ReceiveAll(a) PROVE BusIInv'
  <2>1. PICK expired \in SUBSET DOMAIN queues[a] :
          received' = [received EXCEPT ![a] = @ \cup
               {queues[a][i].id : i \in {j \in DOMAIN queues[a] \ expired :
                                             queues[a][j].kind = "request"}}]
    BY <1>6 DEF Bus!ReceiveAll
  <2>2. queues' = [queues EXCEPT ![a] = <<>>] /\ UNCHANGED <<futures, requests, health, sent>>
    BY <1>6 DEF Bus!ReceiveAll
  <2>3. /\ a \in Bus!Names /\ queues[a] \in Seq(Bus!Message) /\ DOMAIN queues[a] = 1..Len(queues[a])
        /\ received[a] \subseteq 1..Len(requests)
    BY <1>0, LenProperties DEF BusTyped
  <2> DEFINE ids == {queues[a][i].id : i \in {j \in DOMAIN queues[a] \ expired :
                                             queues[a][j].kind = "request"}}
  <2>4. ids \subseteq 1..Len(requests)
    <3>1. ASSUME NEW i \in 1..Len(queues[a]), queues[a][i].kind = "request"
          PROVE  queues[a][i].id \in 1..Len(requests)
      BY <1>0, <2>3, <3>1 DEF MessagesGenuine, Genuine
    <3> QED
      BY <2>3, <3>1
  <2>5. received' = [received EXCEPT ![a] = received[a] \cup ids]
    BY <1>0, <2>1, <2>3 DEF BusTyped
  <2> HIDE DEF ids
  <2>6. received' \in [Bus!Names -> SUBSET (1..Len(requests))]
    BY <1>0, <2>3, <2>4, <2>5 DEF BusTyped
  <2>7. <<>> \in Seq(Bus!Message) /\ Len(<<>>) = 0
    BY EmptySeq
  <2>8. BusTyped'
    <3>1. queues' \in [Bus!Names -> Seq(Bus!Message)]
      BY <1>0, <2>2, <2>7 DEF BusTyped
    <3>2. \A b \in Bus!Names : Len(queues'[b]) <= MaxQueue
      BY <1>0, <2>2, <2>7, WaitsAssumption DEF BusTyped
    <3> QED
      BY <1>0, <2>2, <2>6, <3>1, <3>2 DEF BusTyped
  <2>9. MessagesGenuine'
    BY <1>0, <2>2, <2>7 DEF MessagesGenuine, BusTyped
  <2>10. MissedCounted' /\ Bus!OwnAnswer' /\ Bus!FuturesAccount'
    BY <1>0, <2>2 DEF MissedCounted, Bus!OwnAnswer, Bus!FuturesAccount
  <2> QED
    BY <2>8, <2>9, <2>10 DEF BusIInv
<1>7. ASSUME NEW r \in 1..Len(requests), NEW status \in Bus!Status \ {"waiting"}, Bus!Return(r, status),
             UNCHANGED <<queues, received, sent>>, MissedCounted'
      PROVE  BusIInv'
  <2> DEFINE info == [requests[r] EXCEPT !.status = status]
  <2>1. /\ requests[r].status = "waiting" /\ (status = "answered" => requests[r].answer # None)
        /\ requests' = [requests EXCEPT ![r] = info]
        /\ futures' = IF status = "cancelled" THEN futures ELSE futures \ {r}
    BY <1>0, <1>7 DEF Bus!Return
  <2>2. requests[r] \in Bus!RequestInfo /\ requests \in Seq(Bus!RequestInfo)
    BY <1>0 DEF BusTyped
  <2>3. /\ info \in Bus!RequestInfo /\ info.status = status
        /\ info.from = requests[r].from /\ info.to = requests[r].to /\ info.answer = requests[r].answer
    BY <2>2 DEF Bus!RequestInfo
  <2> HIDE DEF info
  <2>4. requests' \in Seq(Bus!RequestInfo) /\ Len(requests') = Len(requests)
    BY <1>0, <2>1, <2>2, <2>3, ExceptSeq
  <2>5. DOMAIN requests' = 1..Len(requests)
    BY <1>0, <2>4, LenProperties
  <2>6. requests'[r] = info /\ \A q \in 1..Len(requests) : q # r => requests'[q] = requests[q]
    BY <1>0, <2>1
  <2>7. \A q \in 1..Len(requests) : /\ requests'[q].from = requests[q].from
                                    /\ requests'[q].to = requests[q].to
                                    /\ requests'[q].answer = requests[q].answer
    BY <2>3, <2>6
  <2>8. BusTyped'
    BY <1>0, <1>7, <2>1, <2>4 DEF BusTyped
  <2>9. MessagesGenuine'
    <3> SUFFICES ASSUME NEW b \in Bus!Names, NEW i \in 1..Len(queues[b])
                 PROVE  Genuine(queues[b][i], requests')
      BY <1>7 DEF MessagesGenuine
    <3>1. Genuine(queues[b][i], requests)
      BY <1>0 DEF MessagesGenuine
    <3>2. /\ Len(requests) \in Nat /\ Len(requests') \in Nat /\ Len(requests) <= Len(requests')
          /\ \A q \in 1..Len(requests) : /\ requests'[q].from = requests[q].from
                                          /\ requests'[q].to = requests[q].to
      BY <1>0, <2>4, <2>7
    <3> HIDE <1>0, <2>4, <2>7
    <3> QED
      BY <3>1, <3>2, StillGenuine
  <2>10. Bus!OwnAnswer'
    BY <1>0, <2>5, <2>7 DEF Bus!OwnAnswer
  <2>11. Bus!FuturesAccount'
    <3> SUFFICES ASSUME NEW q \in 1..Len(requests)
                 PROVE  /\ q \in futures' => /\ requests'[q].status \in {"waiting", "cancelled"}
                                             /\ requests'[q].answer = None
                        /\ requests'[q].status = "waiting" => q \in futures' \/ requests'[q].answer # None
      BY <2>5 DEF Bus!FuturesAccount
    <3>1. /\ q \in futures => requests[q].status \in {"waiting", "cancelled"} /\ requests[q].answer = None
          /\ requests[q].status = "waiting" => q \in futures \/ requests[q].answer # None
      BY <1>0 DEF Bus!FuturesAccount
    <3>2. CASE q = r
      BY <2>1, <2>3, <2>6, <3>1, <3>2
    <3>3. CASE q # r
      BY <2>1, <2>6, <3>1, <3>3
    <3> QED
      BY <3>2, <3>3
  <2> QED
    BY <1>7, <2>8, <2>9, <2>10, <2>11 DEF BusIInv
<1>8. ASSUME NEW r \in DOMAIN requests, Bus!RequestReturns(r) PROVE BusIInv'
  <2>1. PICK status \in Bus!Status \ {"waiting"} : Bus!Return(r, status)
    BY <1>8 DEF Bus!RequestReturns
  <2>2. r \in 1..Len(requests) /\ UNCHANGED <<queues, received, health, sent>>
    BY <1>0, <1>8 DEF Bus!RequestReturns
  <2>3. Len(requests') = Len(requests)
    BY <1>0, <2>1, <2>2, ExceptSeq DEF Bus!Return, BusTyped
  <2>4. MissedCounted'
    BY <1>0, <2>2, <2>3 DEF MissedCounted
  <2> QED
    BY <1>7, <2>1, <2>2, <2>4
<1>9. ASSUME NEW b \in BusAgents, Bus!Check(b) PROVE BusIInv'
  <2>1. /\ Bus!Request(Monitor, b) /\ UNCHANGED <<received, sent>>
        /\ \A c \in BusAgents : health[c].check = 0
        /\ health' = [health EXCEPT ![b].check = Len(requests) + 1]
    BY <1>9 DEF Bus!Check
  <2> QED
    BY <1>0, <1>1, <2>1
<1>10. ASSUME NEW a \in BusAgents, NEW b \in BusAgents, Bus!Ask(a, b) PROVE BusIInv'
  BY <1>0, <1>1, <1>10 DEF Bus!Ask
<1>11. ASSUME NEW a \in BusAgents, NEW status \in Bus!Status \ {"waiting"}, health[a].check # 0,
              Bus!Return(health[a].check, status), UNCHANGED <<queues, received, sent>>,
              NEW next \in [alive : BOOLEAN, missed : Nat, check : Nat],
              health' = [health EXCEPT ![a] = next],
              next.check = 0, next.missed <= health[a].missed + 1
       PROVE  BusIInv'
  <2>1. /\ health \in [BusAgents -> [alive : BOOLEAN, missed : Nat, check : Nat]]
        /\ health[a].check <= Len(requests) /\ health[a].missed + 1 <= Len(requests)
    BY <1>0, <1>11 DEF MissedCounted
  <2>2. health[a].check \in 1..Len(requests)
    BY <1>0, <1>11, <2>1
  <2>3. Len(requests') = Len(requests)
    BY <1>0, <1>11, <2>2, ExceptSeq DEF Bus!Return, BusTyped
  <2>4. MissedCounted'
    BY <1>0, <1>11, <2>1, <2>3 DEF MissedCounted
  <2> QED
    BY <1>7, <1>11, <2>2, <2>4
<1>12. ASSUME NEW a \in BusAgents, Bus!CheckReturns(a) PROVE BusIInv'
  <2> DEFINE next == [alive |-> TRUE, missed |-> 0, check |-> 0]
  <2>1. PICK status \in {"answered", "unanswered"} : Bus!Return(health[a].check, status)
    BY <1>12 DEF Bus!CheckReturns
  <2>2. status \in Bus!Status \ {"waiting"}
    BY DEF Bus!Status
  <2>3. /\ health[a].check # 0 /\ UNCHANGED <<queues, received, sent>>
        /\ health' = [health EXCEPT ![a] = next]
    BY <1>12 DEF Bus!CheckReturns
  <2>4. health[a].missed \in Nat
    BY <1>0 DEF MissedCounted
  <2>5. /\ next \in [alive : BOOLEAN, missed : Nat, check : Nat] /\ next.check = 0
        /\ next.missed <= health[a].missed + 1
    BY <2>4
  <2> HIDE DEF next
  <2> QED
    BY <1>11, <2>1, <2>2, <2>3, <2>5
<1>13. ASSUME NEW a \in BusAgents, Bus!CheckMissed(a) PROVE BusIInv'
  <2> DEFINE next == [alive |-> health[a].alive /\ health[a].missed + 1 < MaxMissed,
                      missed |-> health[a].missed + 1, check |-> 0]
  <2>1. health \in [BusAgents -> [alive : BOOLEAN, missed : Nat, check : Nat]]
    BY <1>0 DEF MissedCounted
  <2>2. /\ Bus!Return(health[a].check, "cancelled") /\ health[a].check # 0
        /\ UNCHANGED <<queues, received, sent>>
    BY <1>13 DEF Bus!CheckMissed
  <2>3. health' = [health EXCEPT ![a] = next]
    BY <1>13, <2>1 DEF Bus!CheckMissed
  <2>4. "cancelled" \in Bus!Status \ {"waiting"}
    BY DEF Bus!Status
  <2>5. health[a].missed + 1 \in Nat /\ (health[a].alive /\ health[a].missed + 1 < MaxMissed) \in BOOLEAN
    BY <2>1
  <2>6. /\ next \in [alive : BOOLEAN, missed : Nat, check : Nat] /\ next.check = 0
        /\ next.missed <= health[a].missed + 1
    BY <2>5
  <2> HIDE DEF next
  <2> QED
    BY <1>11, <2>2, <2>3, <2>4, <2>6
<1>14. CASE UNCHANGED Bus!vars
  BY <1>0, <1>14 DEF Bus!vars, BusIInv, BusTyped, MissedCounted, MessagesGenuine, Genuine,
     Bus!OwnAnswer, Bus!FuturesAccount
<1> QED
  BY <1>3, <1>4, <1>5, <1>6, <1>8, <1>9, <1>10, <1>12, <1>13, <1>14 DEF Bus!Next

LEMMA BusHolds == BusIInv => BusInv
<1> SUFFICES ASSUME BusIInv PROVE Bus!TypeOK
  BY DEF BusIInv, BusInv, Bus!BusInv
<1>1. DOMAIN requests = 1..Len(requests) /\ Len(requests) \in Nat /\ Len(requests) <= MaxRequests
  BY LenProperties DEF BusIInv, BusTyped
<1>2. received \in [Bus!Names -> SUBSET (1..MaxRequests)]
  BY <1>1, WaitsAssumption DEF BusIInv, BusTyped
<1>3. health \in [BusAgents -> [alive : BOOLEAN, missed : 0..MaxRequests, check : 0..MaxRequests]]
  BY <1>1, WaitsAssumption DEF BusIInv, MissedCounted
<1> QED
  BY <1>1, <1>2, <1>3 DEF BusIInv, BusTyped, Bus!TypeOK

-----------------------------------------------------------------------------
(***************************************************************************)
(* The memory of a conversation.  From(k) is the number from which on the  *)
(* entry k may hold messages: the current one holds nothing from before    *)
(* the last clear().                                                       *)
(***************************************************************************)
ChatMessage == [id : Nat, tokens : Sizes]
Entry == [stm : Seq(ChatMessage), summary : SUBSET Nat, ltm : SUBSET Nat]
Chat == [at : {"idle", "summarizing", "generating"}, op : {"none", "chat", "sync"},
         conv : Nat, older : SUBSET Nat, recent : Seq(ChatMessage), own : Nat,
         alone : BOOLEAN, shown : SUBSET Nat]

Since == IF clears = <<>> THEN 0 ELSE Memory!Last(clears)
From(k) == IF k = conversation THEN Since ELSE 0

(* Messages from low on and before high, in their order. *)
Told(messages, low, high) ==
  /\ messages \in Seq(ChatMessage)
  /\ \A i \in DOMAIN messages : low <= messages[i].id /\ messages[i].id < high
  /\ \A i, j \in DOMAIN messages : i < j => messages[i].id < messages[j].id
Holds(e, low, high) ==
  Told(e.stm, low, high) /\ \A id \in e.summary \cup e.ltm : low <= id
EndsWith(messages, id) == messages # <<>> /\ messages[Len(messages)].id = id

ChatsTyped ==
  /\ nextMessage \in Nat
  /\ conversations \in Seq(Entry) /\ conversation \in 0..Len(conversations)
  /\ clears \in Seq(Nat) /\ Since <= nextMessage
  /\ chats \in [Callers -> Chat]
EntriesKnown ==
  \A k \in DOMAIN conversations : Holds(conversations[k], From(k), nextMessage)
(* A task may give its entry back only what the entry may hold. *)
TasksKnown ==
  \A c \in Callers : chats[c].at = "summarizing" =>
      /\ chats[c].conv \in DOMAIN conversations
      /\ Told(chats[c].recent, From(chats[c].conv), nextMessage)
      /\ \A id \in chats[c].older : From(chats[c].conv) <= id
(* Nothing has come between a task that is alone and its own message. *)
OwnKept ==
  \A c \in Callers : chats[c].alone =>
      /\ chats[c].at = "summarizing" =>
            chats[c].conv = conversation /\ EndsWith(chats[c].recent, chats[c].own)
      /\ chats[c].at = "generating" => chats[c].own \in chats[c].shown

ConversationIInv == ChatsTyped /\ EntriesKnown /\ TasksKnown /\ OwnKept

(* A message has a number. *)
LEMMA MessageIds ==
  ASSUME NEW s \in Seq(ChatMessage)
  PROVE  \A i \in DOMAIN s : s[i] \in ChatMessage /\ s[i].id \in Nat
<1> TAKE i \in DOMAIN s
<1>1. s[i] \in ChatMessage
  BY LenProperties
<1> QED
  BY <1>1 DEF ChatMessage

(* What an end of the messages still is. *)
LEMMA EndTold ==
  ASSUME NEW low, NEW high, NEW s, Told(s, low, high), NEW a \in 1..Len(s) + 1
  PROVE  /\ Told(SubSeq(s, a, Len(s)), low, high)
         /\ a <= Len(s) => /\ SubSeq(s, a, Len(s)) # <<>>
                           /\ SubSeq(s, a, Len(s))[Len(SubSeq(s, a, Len(s)))] = s[Len(s)]
<1> DEFINE t == SubSeq(s, a, Len(s))
<1>1. s \in Seq(ChatMessage) /\ Len(s) \in Nat /\ DOMAIN s = 1..Len(s)
  BY LenProperties DEF Told
<1>2. /\ t \in Seq(ChatMessage) /\ Len(t) = Len(s) - a + 1
      /\ \A i \in 1..Len(s) - a + 1 : t[i] = s[a + i - 1]
  BY <1>1, SubSeqProperties
<1> HIDE DEF t
<1>3. DOMAIN t = 1..Len(s) - a + 1
  BY <1>2, LenProperties
<1>4. \A i \in DOMAIN t : a + i - 1 \in DOMAIN s /\ t[i] = s[a + i - 1]
  BY <1>1, <1>2, <1>3
<1>5. \A i, j \in DOMAIN t : i < j => a + i - 1 < a + j - 1
  BY <1>1, <1>3
<1>6. Told(t, low, high)
  BY <1>2, <1>4, <1>5 DEF Told
<1>7. a <= Len(s) => t # <<>> /\ t[Len(t)] = s[Len(s)]
  <2> SUFFICES ASSUME a <= Len(s) PROVE t # <<>> /\ t[Len(t)] = s[Len(s)]
    OBVIOUS
  <2>1. Len(t) \in 1..Len(s) - a + 1 /\ a + Len(t) - 1 = Len(s) /\ Len(t) # 0
    BY <1>1, <1>2
  <2>2. t[Len(t)] = s[a + Len(t) - 1]
    BY <1>2, <2>1
  <2>3. t # <<>>
    BY <2>1, EmptySeq
  <2> QED
    BY <2>1, <2>2, <2>3
<1> QED
  BY <1>6, <1>7 DEF t

(* The greater of two numbers, and the least of some naturals. *)
LEMMA MaxOfTwo ==
  ASSUME NEW a \in Int, NEW b \in Int
  PROVE  Memory!Max({a, b}) = IF a >= b THEN a ELSE b
BY DEF Memory!Max

LEMMA MinIsElement ==
  ASSUME NEW S \in SUBSET Nat, S # {}
  PROVE  Memory!Min(S) \in S
<1>1. PICK x \in S : \A y \in S : ~(<<y, x>> \in OpToRel(<, Nat))
  BY NatLessThanWellFounded, WFMin
<1>2. \A y \in S : ~(y < x)
  BY <1>1, Zenon DEF OpToRel
<1>3. \A y \in S : x <= y
  BY <1>2
<1> QED
  BY <1>3 DEF Memory!Min

(* Of messages there are, the last one is never dropped.                   *)
LEMMA TrimmedTold ==
  ASSUME NEW low, NEW high, NEW s, Told(s, low, high)
  PROVE  /\ Told(Memory!Trimmed(s), low, high)
         /\ \A id : EndsWith(s, id) => EndsWith(Memory!Trimmed(s), id)
<1> DEFINE After(n) == SubSeq(s, n + 1, Len(s))
           few == Memory!Max({0, Len(s) - SafetyTurns})
           S == {n \in 0..(Len(s) - 1) : Memory!Tokens(After(n)) <= MaxStmTokens} \cup {few}
           n == Memory!Min(S)
<1>1. s \in Seq(ChatMessage) /\ Len(s) \in Nat
  BY LenProperties DEF Told
<1>2. SafetyTurns \in Nat \ {0}
  BY WaitsAssumption DEF Memory!ConversationAssumption
<1>3. few \in Nat /\ few <= Len(s) /\ (Len(s) # 0 => few <= Len(s) - 1)
  BY <1>1, <1>2, MaxOfTwo
<1> HIDE DEF few
<1>4. S \in SUBSET Nat /\ S # {}
  BY <1>1, <1>3
<1>5. n \in S
  BY <1>4, MinIsElement
<1>6. n \in Nat /\ n <= Len(s) /\ (Len(s) # 0 => n <= Len(s) - 1)
  BY <1>1, <1>3, <1>5
<1>7. Memory!Trimmed(s) = SubSeq(s, n + 1, Len(s))
  BY DEF Memory!Trimmed, few
<1> HIDE DEF n
<1>8. n + 1 \in 1..Len(s) + 1 /\ (Len(s) # 0 => n + 1 <= Len(s))
  BY <1>1, <1>6
<1>9. Told(Memory!Trimmed(s), low, high)
  BY <1>7, <1>8, EndTold
<1>10. ASSUME NEW id, EndsWith(s, id) PROVE EndsWith(Memory!Trimmed(s), id)
  <2>1. Len(s) # 0
    BY <1>1, <1>10, EmptySeq DEF EndsWith
  <2>2. Memory!Trimmed(s) # <<>> /\ Memory!Trimmed(s)[Len(Memory!Trimmed(s))] = s[Len(s)]
    BY <1>7, <1>8, <2>1, EndTold
  <2> QED
    BY <1>10, <2>2 DEF EndsWith
<1> QED
  BY <1>9, <1>10

(* A message that is added is the last one.                                *)
LEMMA AddedTold ==
  ASSUME NEW low \in Nat, NEW high \in Nat, low <= high, NEW s, Told(s, low, high),
         NEW size \in Sizes
  PROVE  /\ Told(Memory!Added(s, [id |-> high, tokens |-> size]), low, high + 1)
         /\ EndsWith(Memory!Added(s, [id |-> high, tokens |-> size]), high)
<1> DEFINE m == [id |-> high, tokens |-> size]
           t == Append(s, m)
<1>1. s \in Seq(ChatMessage) /\ Len(s) \in Nat /\ DOMAIN s = 1..Len(s)
  BY LenProperties DEF Told
<1>2. m \in ChatMessage /\ m.id = high
  BY DEF ChatMessage
<1> HIDE DEF m
<1>3. /\ t \in Seq(ChatMessage) /\ Len(t) = Len(s) + 1 /\ t[Len(s) + 1] = m
      /\ \A i \in 1..Len(s) : t[i] = s[i]
  BY <1>1, <1>2, AppendProperties
<1> HIDE DEF t
<1>4. DOMAIN t = 1..Len(s) + 1
  BY <1>3, LenProperties
<1>5. \A i \in DOMAIN t : i \in DOMAIN s \/ i = Len(s) + 1
  BY <1>1, <1>4
<1>6. \A i \in DOMAIN s : low <= t[i].id /\ t[i].id < high /\ t[i].id \in Nat
  <2> TAKE i \in DOMAIN s
  <2>1. t[i] = s[i] /\ s[i] \in ChatMessage
    BY <1>1, <1>3
  <2>2. low <= s[i].id /\ s[i].id < high
    BY DEF Told
  <2> QED
    BY <2>1, <2>2 DEF ChatMessage
<1>7. \A i \in DOMAIN t : low <= t[i].id /\ t[i].id < high + 1
  BY <1>2, <1>3, <1>5, <1>6
<1>8. ASSUME NEW i \in DOMAIN t, NEW j \in DOMAIN t, i < j PROVE t[i].id < t[j].id
  <2>1. i \in DOMAIN s
    BY <1>1, <1>4, <1>8
  <2>2. CASE j \in DOMAIN s
    BY <1>1, <1>3, <1>8, <2>1, <2>2 DEF Told
  <2>3. CASE j = Len(s) + 1
    BY <1>2, <1>3, <1>6, <2>1, <2>3
  <2> QED
    BY <1>5, <2>2, <2>3
<1>9. Told(t, low, high + 1)
  BY <1>3, <1>7, <1>8 DEF Told
<1>10. EndsWith(t, high)
  BY <1>1, <1>2, <1>3, EmptySeq DEF EndsWith
<1>11. Memory!Added(s, m) = Memory!Trimmed(t)
  BY DEF Memory!Added, t
<1> QED
  BY <1>9, <1>10, <1>11, TrimmedTold DEF m

(* The split of the messages for a summary.                                *)
LEMMA SplitTold ==
  ASSUME NEW low \in Nat, NEW high, NEW s, Told(s, low, high)
  PROVE  /\ Told(Memory!Recent(s), low, high)
         /\ \A id : EndsWith(s, id) => EndsWith(Memory!Recent(s), id)
         /\ Memory!Older(s) \in SUBSET Nat
         /\ \A id \in Memory!Older(s) : low <= id
<1>1. s \in Seq(ChatMessage) /\ Len(s) \in Nat /\ DOMAIN s = 1..Len(s)
  BY LenProperties DEF Told
<1>2. MaxStmMessages \in Nat \ {0}
  BY WaitsAssumption DEF Memory!ConversationAssumption
<1>3. /\ Told(Memory!Recent(s), low, high)
      /\ \A id : EndsWith(s, id) => EndsWith(Memory!Recent(s), id)
  <2>1. CASE Memory!Few(s)
    BY <2>1 DEF Memory!Recent
  <2>2. CASE ~Memory!Few(s)
    <3>1. /\ Len(s) - MaxStmMessages + 1 \in 1..Len(s) + 1
          /\ Len(s) - MaxStmMessages + 1 <= Len(s)
      BY <1>1, <1>2, <2>2 DEF Memory!Few
    <3>2. Memory!Recent(s) = SubSeq(s, Len(s) - MaxStmMessages + 1, Len(s))
      BY <2>2 DEF Memory!Recent
    <3> QED
      BY <3>1, <3>2, EndTold DEF EndsWith
  <2> QED
    BY <2>1, <2>2
<1>4. ASSUME NEW id \in Memory!Older(s) PROVE id \in Nat /\ low <= id
  <2> DEFINE n == Len(s) - (IF Memory!Few(s) THEN 2 ELSE MaxStmMessages)
             t == SubSeq(s, 1, n)
  <2>1. n \in Int /\ n <= Len(s)
    BY <1>1, <1>2
  <2>2. Memory!Older(s) = {t[i].id : i \in DOMAIN t}
    BY DEF Memory!Older, Memory!IdsOf
  <2> HIDE DEF n
  <2>3. PICK i \in DOMAIN t : id = t[i].id
    BY <1>4, <2>2
  <2>4. i \in DOMAIN s /\ t[i] = s[i]
    <3>1. CASE n >= 1
      <4>1. t \in Seq(ChatMessage) /\ Len(t) = n /\ \A k \in 1..n : t[k] = s[k]
        BY <1>1, <2>1, <3>1, SubSeqProperties
      <4> HIDE DEF t
      <4>2. i \in 1..n
        BY <2>3, <4>1, LenProperties
      <4> QED
        BY <1>1, <2>1, <4>1, <4>2
    <3>2. CASE ~(n >= 1)
      <4>1. t = <<>>
        BY <1>1, <2>1, <3>2, SubSeqProperties
      <4> HIDE DEF t
      <4> QED
        BY <2>3, <4>1
    <3> QED
      BY <3>1, <3>2
  <2>5. s[i] \in ChatMessage /\ low <= s[i].id
    BY <1>1, <2>4 DEF Told
  <2> QED
    BY <2>3, <2>4, <2>5 DEF ChatMessage
<1> QED
  BY <1>3, <1>4

(* What is told between closer bounds is told between wider ones.          *)
LEMMA HoldsWidely ==
  ASSUME NEW low \in Nat, NEW high \in Nat, NEW low2 \in Nat, NEW high2 \in Nat,
         low2 <= low, high <= high2
  PROVE  /\ \A s : Told(s, low, high) => Told(s, low2, high2)
         /\ \A e \in Entry : Holds(e, low, high) => Holds(e, low2, high2)
<1>1. ASSUME NEW s, Told(s, low, high) PROVE Told(s, low2, high2)
  <2>1. s \in Seq(ChatMessage) /\ \A i \in DOMAIN s : s[i].id \in Nat
    BY <1>1, MessageIds DEF Told
  <2> QED
    BY <1>1, <2>1 DEF Told
<1>2. ASSUME NEW e \in Entry, Holds(e, low, high) PROVE Holds(e, low2, high2)
  <2>1. \A id \in e.summary \cup e.ltm : id \in Nat
    BY DEF Entry
  <2> QED
    BY <1>1, <1>2, <2>1 DEF Holds
<1> QED
  BY <1>1, <1>2

(* What is shown are the messages and the summary.                         *)
LEMMA ShownAll ==
  ASSUME NEW e \in Entry
  PROVE  /\ Memory!Shown(e) \in SUBSET Nat
         /\ \A id : EndsWith(e.stm, id) => id \in Memory!Shown(e)
         /\ \A low, high : Holds(e, low, high) => \A id \in Memory!Shown(e) \cup e.ltm : low <= id
<1>1. /\ e.stm \in Seq(ChatMessage) /\ Len(e.stm) \in Nat
      /\ DOMAIN e.stm = 1..Len(e.stm) /\ e.summary \in SUBSET Nat
  BY LenProperties DEF Entry
<1>2. Memory!Shown(e) = e.summary \cup {e.stm[i].id : i \in DOMAIN e.stm}
  BY DEF Memory!Shown, Memory!IdsOf
<1>3. \A i \in DOMAIN e.stm : e.stm[i].id \in Nat
  BY <1>1, MessageIds
<1>4. ASSUME NEW id, EndsWith(e.stm, id) PROVE id \in Memory!Shown(e)
  <2>1. Len(e.stm) # 0
    BY <1>1, <1>4, EmptySeq DEF EndsWith
  <2> QED
    BY <1>1, <1>2, <1>4, <2>1 DEF EndsWith
<1> QED
  BY <1>1, <1>2, <1>3, <1>4 DEF Holds, Told

(* A task that is given its context summarizes no longer.                  *)
LEMMA BuiltTask ==
  ASSUME NEW t \in Chat, NEW e \in Entry
  PROVE  /\ Memory!Built(t, e) \in Chat
         /\ Memory!Built(t, e).at # "summarizing"
         /\ Memory!Built(t, e).alone =>
               t.alone /\ Memory!Built(t, e).own = t.own /\ Memory!Built(t, e).shown = Memory!Shown(e)
<1>1. Memory!Shown(e) \in SUBSET Nat
  BY ShownAll
<1>2. <<>> \in Seq(ChatMessage)
  BY EmptySeq
<1> QED
  BY <1>1, <1>2 DEF Memory!Built, Memory!Idle, Chat

(* get_or_create() leaves the entries there are, and the current one       *)
(* becomes known if there was none.                                        *)
LEMMA CreatedEntries ==
  ASSUME NEW all \in Seq(Entry), conversation \in 0..Len(all), nextMessage \in Nat,
         Since \in Nat, Since <= nextMessage,
         \A k \in DOMAIN all : Holds(all[k], From(k), nextMessage)
  PROVE  /\ Memory!Created(all) \in Seq(Entry)
         /\ Memory!Current(all) \in Nat
         /\ Memory!Current(all) \in DOMAIN Memory!Created(all)
         /\ Memory!Current(all) \in 0..Len(Memory!Created(all))
         /\ DOMAIN all \subseteq DOMAIN Memory!Created(all)
         /\ \A k \in DOMAIN all : Memory!Created(all)[k] = all[k]
         /\ \A k \in DOMAIN all : From(k) = IF k = Memory!Current(all) THEN Since ELSE 0
         /\ \A k \in DOMAIN Memory!Created(all) :
               Holds(Memory!Created(all)[k], IF k = Memory!Current(all) THEN Since ELSE 0, nextMessage)
         /\ conversation # 0 => Memory!Current(all) = conversation
<1>1. Len(all) \in Nat /\ DOMAIN all = 1..Len(all)
  BY LenProperties
<1>2. CASE conversation # 0
  BY <1>1, <1>2 DEF Memory!Created, Memory!Current, From
<1>3. CASE conversation = 0
  <2> DEFINE c == Memory!Created(all)
             e == Memory!NewConv
  <2>1. e \in Entry /\ Holds(e, Since, nextMessage)
    <3>1. <<>> \in Seq(ChatMessage) /\ DOMAIN <<>> = {}
      BY EmptySeq
    <3> QED
      BY <3>1 DEF Memory!NewConv, Entry, Holds, Told
  <2>2. c = Append(all, e)
    BY <1>3 DEF Memory!Created
  <2> HIDE DEF e
  <2>3. /\ c \in Seq(Entry) /\ Len(c) = Len(all) + 1
        /\ c[Len(all) + 1] = e /\ \A k \in 1..Len(all) : c[k] = all[k]
    BY <2>1, <2>2, AppendProperties
  <2>4. DOMAIN c = 1..Len(all) + 1
    BY <2>3, LenProperties
  <2>5. Memory!Current(all) = Len(all) + 1
    BY <1>3 DEF Memory!Current
  <2> HIDE DEF c
  <2>6. \A k \in DOMAIN all : From(k) = 0 /\ k # Len(all) + 1
    BY <1>1, <1>3 DEF From
  <2>7. \A k \in DOMAIN c : Holds(c[k], IF k = Len(all) + 1 THEN Since ELSE 0, nextMessage)
    <3> TAKE k \in DOMAIN c
    <3>1. CASE k = Len(all) + 1
      BY <2>1, <2>3, <3>1
    <3>2. CASE k # Len(all) + 1
      <4>1. k \in DOMAIN all
        BY <1>1, <2>4, <3>2
      <4> QED
        BY <1>1, <2>3, <2>6, <3>2, <4>1
    <3> QED
      BY <3>1, <3>2
  <2> QED
    BY <1>1, <1>3, <2>3, <2>4, <2>5, <2>6, <2>7 DEF c
<1> QED
  BY <1>2, <1>3

LEMMA ConversationStarts == Memory!Init => ConversationIInv
<1> SUFFICES ASSUME Memory!Init PROVE ConversationIInv
  OBVIOUS
<1>1. <<>> \in Seq(ChatMessage) /\ <<>> \in Seq(Entry) /\ <<>> \in Seq(Nat) /\ Len(<<>>) = 0 /\ DOMAIN <<>> = {}
  BY EmptySeq
<1>2. Memory!Idle \in Chat
  BY <1>1 DEF Memory!Idle, Chat
<1>3. ChatsTyped
  BY <1>1, <1>2 DEF Memory!Init, ChatsTyped, Since
<1>4. EntriesKnown
  BY <1>1 DEF Memory!Init, EntriesKnown
<1>5. TasksKnown /\ OwnKept
  BY DEF Memory!Init, Memory!Idle, TasksKnown, OwnKept
<1> QED
  BY <1>3, <1>4, <1>5 DEF ConversationIInv

(* Last of the clears is one of them. *)
LEMMA SinceNatural == ChatsTyped => Since \in Nat
<1> SUFFICES ASSUME ChatsTyped, clears # <<>> PROVE Memory!Last(clears) \in Nat
  BY DEF Since
<1>1. Len(clears) \in Nat \ {0} /\ DOMAIN clears = 1..Len(clears)
  BY LenProperties, EmptySeq DEF ChatsTyped
<1> QED
  BY <1>1 DEF Memory!Last, ChatsTyped

LEMMA CallKeeps ==
  ASSUME ConversationIInv, NEW c \in Callers, NEW op \in {"chat", "sync"}, NEW size \in Sizes,
         Memory!Call(c, op, size)
  PROVE  ConversationIInv'
<1> USE DEF ConversationIInv
<1> DEFINE all == Memory!Created(conversations)
           i == Memory!Current(conversations)
           stm == Memory!Added(all[i].stm, [id |-> nextMessage, tokens |-> size])
           e == [all[i] EXCEPT !.stm = stm]
           alone == Memory!Others(c) = {}
           t == [Memory!Idle EXCEPT !.op = op, !.conv = i, !.own = nextMessage, !.alone = alone]
           next == IF Memory!MustCompress(stm)
                   THEN [t EXCEPT !.at = "summarizing", !.older = Memory!Older(stm), !.recent = Memory!Recent(stm)]
                   ELSE Memory!Built(t, e)
<1>1. /\ nextMessage \in Nat /\ Since \in Nat /\ Since <= nextMessage
      /\ conversations \in Seq(Entry) /\ conversation \in 0..Len(conversations)
      /\ chats \in [Callers -> Chat]
  BY SinceNatural DEF ChatsTyped
<1>2. /\ all \in Seq(Entry) /\ i \in Nat /\ i \in DOMAIN all /\ i \in 0..Len(all)
      /\ DOMAIN conversations \subseteq DOMAIN all
      /\ \A k \in DOMAIN conversations : From(k) = IF k = i THEN Since ELSE 0
      /\ \A k \in DOMAIN all : Holds(all[k], IF k = i THEN Since ELSE 0, nextMessage)
  BY <1>1, CreatedEntries DEF EntriesKnown
<1>3. conversations' = [all EXCEPT ![i] = e]
  BY DEF Memory!Call
<1>4. /\ conversation' = i /\ nextMessage' = nextMessage + 1 /\ clears' = clears
  BY DEF Memory!Call
<1>5. chats' = [d \in Callers |-> IF d # c THEN [chats[d] EXCEPT !.alone = FALSE] ELSE next]
  <2>1. conversations'[i] = e
    BY <1>2, <1>3
  <2>2. chats' = [d \in Callers |->
           IF d # c THEN [chats[d] EXCEPT !.alone = FALSE]
           ELSE IF Memory!MustCompress(stm)
           THEN [t EXCEPT !.at = "summarizing", !.older = Memory!Older(stm), !.recent = Memory!Recent(stm)]
           ELSE Memory!Built(t, conversations'[i])]
    BY DEF Memory!Call
  <2> HIDE DEF e, t, stm
  <2> QED
    BY <2>1, <2>2
<1> HIDE DEF all, i
<1>6. all[i] \in Entry
  BY <1>2, LenProperties
<1>7. Told(stm, Since, nextMessage + 1) /\ EndsWith(stm, nextMessage)
  <2>1. Told(all[i].stm, Since, nextMessage)
    BY <1>2 DEF Holds
  <2> QED
    BY <1>1, <2>1, AddedTold
<1> HIDE DEF stm
<1>8. e \in Entry /\ e.stm = stm /\ e.summary = all[i].summary /\ e.ltm = all[i].ltm
  BY <1>6, <1>7 DEF Entry, Told
<1>9. Holds(e, Since, nextMessage + 1)
  BY <1>2, <1>7, <1>8 DEF Holds
<1> HIDE DEF e
<1>10. t \in Chat
  <2>1. <<>> \in Seq(ChatMessage)
    BY EmptySeq
  <2> QED
    BY <1>1, <1>2, <2>1 DEF Chat, Memory!Idle
<1>11. /\ t.own = nextMessage /\ t.conv = i
  BY DEF Memory!Idle
<1> HIDE DEF t
<1>12. /\ Told(Memory!Recent(stm), Since, nextMessage + 1)
       /\ EndsWith(Memory!Recent(stm), nextMessage)
       /\ Memory!Older(stm) \in SUBSET Nat
       /\ \A id \in Memory!Older(stm) : Since <= id
  BY <1>1, <1>7, SplitTold
<1>13. /\ next \in Chat
       /\ next.at = "summarizing" =>
             /\ next.conv = i /\ next.own = nextMessage
             /\ next.recent = Memory!Recent(stm) /\ next.older = Memory!Older(stm)
       /\ next.alone /\ next.at = "generating" => next.own \in next.shown
  <2>1. CASE Memory!MustCompress(stm)
    <3>1. Memory!Recent(stm) \in Seq(ChatMessage)
      BY <1>12 DEF Told
    <3> QED
      BY <1>10, <1>11, <1>12, <2>1, <3>1 DEF Chat
  <2>2. CASE ~Memory!MustCompress(stm)
    <3>1. nextMessage \in Memory!Shown(e)
      BY <1>7, <1>8, ShownAll
    <3> QED
      BY <1>8, <1>10, <1>11, <2>2, <3>1, BuiltTask
  <2> QED
    BY <2>1, <2>2
<1> HIDE DEF next
<1>14. /\ conversations' \in Seq(Entry) /\ DOMAIN conversations' = DOMAIN all
       /\ Len(conversations') = Len(all)
       /\ \A k \in DOMAIN all : conversations'[k] = IF k = i THEN e ELSE all[k]
  BY <1>2, <1>3, <1>8, ExceptSeq
<1>15. Since' = Since /\ \A k : From(k)' = IF k = i THEN Since ELSE 0
  BY <1>4 DEF Since, From
<1>16. ChatsTyped'
  <2>1. chats' \in [Callers -> Chat]
    <3>1. ASSUME NEW d \in Callers PROVE [chats[d] EXCEPT !.alone = FALSE] \in Chat
      BY <1>1 DEF Chat
    <3> QED
      BY <1>5, <1>13, <3>1
  <2> QED
    BY <1>1, <1>2, <1>4, <1>14, <1>15, <2>1 DEF ChatsTyped
<1>17. EntriesKnown'
  <2> SUFFICES ASSUME NEW k \in DOMAIN all
               PROVE  Holds(conversations'[k], IF k = i THEN Since ELSE 0, nextMessage + 1)
    BY <1>4, <1>14, <1>15 DEF EntriesKnown
  <2>1. CASE k = i
    BY <1>9, <1>14, <2>1
  <2>2. CASE k # i
    <3>1. all[k] \in Entry /\ Holds(all[k], 0, nextMessage)
      BY <1>2, <2>2, LenProperties
    <3>2. Holds(all[k], 0, nextMessage + 1)
      BY <1>1, <3>1, HoldsWidely
    <3> QED
      BY <1>14, <2>2, <3>2
  <2> QED
    BY <2>1, <2>2
<1>18. TasksKnown'
  <2> SUFFICES ASSUME NEW d \in Callers, chats'[d].at = "summarizing"
               PROVE  /\ chats'[d].conv \in DOMAIN all
                      /\ Told(chats'[d].recent, IF chats'[d].conv = i THEN Since ELSE 0, nextMessage + 1)
                      /\ \A id \in chats'[d].older : (IF chats'[d].conv = i THEN Since ELSE 0) <= id
    BY <1>4, <1>14, <1>15 DEF TasksKnown
  <2>1. CASE d = c
    BY <1>2, <1>5, <1>12, <1>13, <2>1
  <2>2. CASE d # c
    <3>1. chats[d] \in Chat /\ chats'[d] = [chats[d] EXCEPT !.alone = FALSE]
      BY <1>1, <1>5, <2>2
    <3>2. /\ chats'[d].at = chats[d].at /\ chats'[d].conv = chats[d].conv
          /\ chats'[d].recent = chats[d].recent /\ chats'[d].older = chats[d].older
      BY <3>1 DEF Chat
    <3>3. /\ chats[d].conv \in DOMAIN conversations
          /\ Told(chats[d].recent, From(chats[d].conv), nextMessage)
          /\ \A id \in chats[d].older : From(chats[d].conv) <= id
      BY <3>2 DEF TasksKnown
    <3>4. From(chats[d].conv) = (IF chats[d].conv = i THEN Since ELSE 0) /\ From(chats[d].conv) \in Nat
      BY <1>1, <1>2, <3>3
    <3>5. Told(chats[d].recent, From(chats[d].conv), nextMessage + 1)
      BY <1>1, <3>3, <3>4, HoldsWidely
    <3> QED
      BY <1>2, <3>2, <3>3, <3>4, <3>5
  <2> QED
    BY <2>1, <2>2
<1>19. OwnKept'
  <2> SUFFICES ASSUME NEW d \in Callers, chats'[d].alone
               PROVE  /\ chats'[d].at = "summarizing" =>
                            chats'[d].conv = i /\ EndsWith(chats'[d].recent, chats'[d].own)
                      /\ chats'[d].at = "generating" => chats'[d].own \in chats'[d].shown
    BY <1>4 DEF OwnKept
  <2>1. d = c
    <3> SUFFICES ASSUME d # c PROVE FALSE
      OBVIOUS
    <3>1. chats[d] \in Chat /\ chats'[d] = [chats[d] EXCEPT !.alone = FALSE]
      BY <1>1, <1>5
    <3> QED
      BY <3>1 DEF Chat
  <2>2. chats'[d] = next
    BY <1>5, <2>1
  <2> QED
    BY <1>12, <1>13, <2>2
<1> QED
  BY <1>16, <1>17, <1>18, <1>19

(* A task that ends its wait is all that changes among the tasks.          *)
LEMMA TasksStay ==
  ASSUME ConversationIInv, NEW c \in Callers, NEW x \in Chat,
         chats' = [chats EXCEPT ![c] = x], x.at # "summarizing",
         x.alone /\ x.at = "generating" => x.own \in x.shown,
         nextMessage' \in Nat, nextMessage <= nextMessage',
         DOMAIN conversations \subseteq DOMAIN conversations',
         \A k \in DOMAIN conversations : (IF k = conversation' THEN Since' ELSE 0) = From(k),
         conversation # 0 => conversation' = conversation
  PROVE  chats' \in [Callers -> Chat] /\ TasksKnown' /\ OwnKept'
<1> USE DEF ConversationIInv
<1>1. /\ nextMessage \in Nat /\ Since \in Nat
      /\ conversations \in Seq(Entry) /\ conversation \in 0..Len(conversations)
      /\ chats \in [Callers -> Chat]
  BY SinceNatural DEF ChatsTyped
<1>2. chats' \in [Callers -> Chat] /\ \A d \in Callers : chats'[d] = IF d = c THEN x ELSE chats[d]
  BY <1>1
<1> DEFINE next(k) == IF k = conversation' THEN Since' ELSE 0
<1>3. ASSUME NEW d \in Callers, chats[d].at = "summarizing"
      PROVE  /\ chats[d].conv \in DOMAIN conversations /\ chats[d].conv # 0
             /\ Told(chats[d].recent, next(chats[d].conv), nextMessage')
             /\ \A id \in chats[d].older : next(chats[d].conv) <= id
  <2>1. /\ chats[d].conv \in DOMAIN conversations
        /\ Told(chats[d].recent, From(chats[d].conv), nextMessage)
        /\ \A id \in chats[d].older : From(chats[d].conv) <= id
    BY <1>3 DEF TasksKnown
  <2>2. From(chats[d].conv) \in Nat
    BY <1>1 DEF From
  <2>3. next(chats[d].conv) = From(chats[d].conv)
    BY <2>1
  <2>4. Told(chats[d].recent, From(chats[d].conv), nextMessage')
    BY <1>1, <2>1, <2>2, HoldsWidely
  <2>5. chats[d].conv # 0
    BY <1>1, <2>1, LenProperties
  <2> QED
    BY <2>1, <2>3, <2>4, <2>5
<1>4. TasksKnown'
  <2> SUFFICES ASSUME NEW d \in Callers, chats'[d].at = "summarizing"
               PROVE  /\ chats'[d].conv \in DOMAIN conversations'
                      /\ Told(chats'[d].recent, next(chats'[d].conv), nextMessage')
                      /\ \A id \in chats'[d].older : next(chats'[d].conv) <= id
    BY DEF TasksKnown, From
  <2>1. chats'[d] = chats[d]
    BY <1>2
  <2> QED
    BY <1>3, <2>1
<1>5. OwnKept'
  <2> SUFFICES ASSUME NEW d \in Callers, chats'[d].alone
               PROVE  /\ chats'[d].at = "summarizing" =>
                            chats'[d].conv = conversation' /\ EndsWith(chats'[d].recent, chats'[d].own)
                      /\ chats'[d].at = "generating" => chats'[d].own \in chats'[d].shown
    BY DEF OwnKept
  <2>1. CASE d = c
    BY <1>2, <2>1
  <2>2. CASE d # c
    BY <1>2, <1>3, <2>2 DEF OwnKept
  <2> QED
    BY <2>1, <2>2
<1> QED
  BY <1>2, <1>4, <1>5

LEMMA SummarizedKeeps ==
  ASSUME ConversationIInv, NEW c \in Callers, Memory!Summarized(c)
  PROVE  ConversationIInv'
<1> USE DEF ConversationIInv
<1> DEFINE t == chats[c]
           e == [stm |-> Memory!Rebuilt(t.recent), summary |-> t.older,
                 ltm |-> conversations[t.conv].ltm \cup t.older]
           done == [conversations EXCEPT ![t.conv] = e]
           all == Memory!Created(done)
           i == Memory!Current(done)
<1>1. /\ nextMessage \in Nat /\ Since \in Nat /\ Since <= nextMessage
      /\ conversations \in Seq(Entry) /\ conversation \in 0..Len(conversations)
      /\ t \in Chat /\ chats \in [Callers -> Chat]
  BY SinceNatural DEF ChatsTyped
<1>2. /\ t.at = "summarizing" /\ t.conv \in DOMAIN conversations
      /\ Told(t.recent, From(t.conv), nextMessage)
      /\ \A id \in t.older : From(t.conv) <= id
  BY DEF Memory!Summarized, TasksKnown
<1>3. /\ nextMessage' = nextMessage /\ clears' = clears
      /\ conversations' = all /\ conversation' = i
  BY DEF Memory!Summarized
<1>4. chats' = [chats EXCEPT ![c] = Memory!Built(t, all[i])]
  BY DEF Memory!Summarized
<1>5. Told(e.stm, From(t.conv), nextMessage) /\ \A id : EndsWith(t.recent, id) => EndsWith(e.stm, id)
  BY <1>2, TrimmedTold DEF Memory!Rebuilt
<1>6. e \in Entry /\ Holds(e, From(t.conv), nextMessage)
  <2>1. conversations[t.conv] \in Entry /\ Holds(conversations[t.conv], From(t.conv), nextMessage)
    BY <1>1, <1>2, LenProperties DEF EntriesKnown
  <2>2. t.older \in SUBSET Nat
    BY <1>1 DEF Chat
  <2>3. e.stm \in Seq(ChatMessage)
    BY <1>5 DEF Told
  <2>4. conversations[t.conv].ltm \in SUBSET Nat
    BY <2>1 DEF Entry
  <2>5. e \in Entry
    BY <2>2, <2>3, <2>4 DEF Entry
  <2> QED
    BY <1>2, <1>5, <2>1, <2>5 DEF Holds
<1> HIDE DEF e
<1>7. /\ done \in Seq(Entry) /\ Len(done) = Len(conversations) /\ DOMAIN done = DOMAIN conversations
      /\ \A k \in DOMAIN conversations : done[k] = IF k = t.conv THEN e ELSE conversations[k]
  BY <1>1, <1>2, <1>6, ExceptSeq
<1> HIDE DEF done
<1>8. \A k \in DOMAIN done : Holds(done[k], From(k), nextMessage)
  BY <1>6, <1>7 DEF EntriesKnown
<1>9. /\ all \in Seq(Entry) /\ i \in Nat /\ i \in DOMAIN all /\ i \in 0..Len(all)
      /\ DOMAIN done \subseteq DOMAIN all
      /\ \A k \in DOMAIN done : all[k] = done[k]
      /\ \A k \in DOMAIN done : From(k) = IF k = i THEN Since ELSE 0
      /\ \A k \in DOMAIN all : Holds(all[k], IF k = i THEN Since ELSE 0, nextMessage)
      /\ conversation # 0 => i = conversation
  BY <1>1, <1>7, <1>8, CreatedEntries
<1> HIDE DEF all, i
<1>10. Since' = Since /\ \A k : From(k)' = IF k = i THEN Since ELSE 0
  BY <1>3 DEF Since, From
<1>11. EntriesKnown'
  BY <1>3, <1>9, <1>10 DEF EntriesKnown
<1>12. all[i] \in Entry
  BY <1>9, LenProperties
<1> DEFINE x == Memory!Built(t, all[i])
<1>13. x \in Chat /\ x.at # "summarizing"
  BY <1>1, <1>12, BuiltTask
<1>14. ASSUME x.alone PROVE x.own \in x.shown
  <2>1. t.alone /\ x.own = t.own /\ x.shown = Memory!Shown(all[i])
    BY <1>1, <1>12, <1>14, BuiltTask
  <2>2. t.conv = conversation /\ EndsWith(t.recent, t.own)
    BY <1>2, <2>1 DEF OwnKept
  <2>3. t.conv # 0
    BY <1>1, <1>2, LenProperties
  <2>4. all[i] = e
    BY <1>2, <1>7, <1>9, <2>2, <2>3
  <2>5. EndsWith(all[i].stm, t.own)
    BY <1>5, <2>2, <2>4
  <2> QED
    BY <1>12, <2>1, <2>5, ShownAll
<1> HIDE DEF x
<1>15. chats' \in [Callers -> Chat] /\ TasksKnown' /\ OwnKept'
  <2>1. \A k \in DOMAIN conversations : (IF k = conversation' THEN Since' ELSE 0) = From(k)
    BY <1>3, <1>7, <1>9, <1>10
  <2>2. chats' = [chats EXCEPT ![c] = x]
    BY <1>4 DEF x
  <2>3. DOMAIN conversations \subseteq DOMAIN conversations'
    BY <1>3, <1>7, <1>9
  <2>4. nextMessage' \in Nat /\ nextMessage <= nextMessage'
    BY <1>1, <1>3
  <2>5. conversation # 0 => conversation' = conversation
    BY <1>3, <1>9
  <2> QED
    BY <1>13, <1>14, <2>1, <2>2, <2>3, <2>4, <2>5, TasksStay
<1>16. ChatsTyped'
  BY <1>1, <1>3, <1>9, <1>10, <1>15 DEF ChatsTyped
<1> QED
  BY <1>11, <1>15, <1>16

LEMMA IdleTask == Memory!Idle \in Chat
<1>1. <<>> \in Seq(ChatMessage)
  BY EmptySeq
<1> QED
  BY <1>1 DEF Memory!Idle, Chat

LEMMA RepliedKeeps ==
  ASSUME ConversationIInv, NEW c \in Callers, NEW size \in Sizes, Memory!Replied(c, size)
  PROVE  ConversationIInv'
<1> USE DEF ConversationIInv
<1> DEFINE all == Memory!Created(conversations)
           i == Memory!Current(conversations)
           stm == Memory!Added(all[i].stm, [id |-> nextMessage, tokens |-> size])
           e == [all[i] EXCEPT !.stm = stm]
<1>1. /\ nextMessage \in Nat /\ Since \in Nat /\ Since <= nextMessage
      /\ conversations \in Seq(Entry) /\ conversation \in 0..Len(conversations)
      /\ chats \in [Callers -> Chat]
  BY SinceNatural DEF ChatsTyped
<1>2. /\ all \in Seq(Entry) /\ i \in Nat /\ i \in DOMAIN all /\ i \in 0..Len(all)
      /\ DOMAIN conversations \subseteq DOMAIN all
      /\ \A k \in DOMAIN conversations : From(k) = IF k = i THEN Since ELSE 0
      /\ \A k \in DOMAIN all : Holds(all[k], IF k = i THEN Since ELSE 0, nextMessage)
      /\ conversation # 0 => i = conversation
  BY <1>1, CreatedEntries DEF EntriesKnown
<1>3. conversations' = [all EXCEPT ![i] = e]
  BY DEF Memory!Replied
<1>4. /\ conversation' = i /\ nextMessage' = nextMessage + 1 /\ clears' = clears
      /\ chats' = [chats EXCEPT ![c] = Memory!Idle]
  BY DEF Memory!Replied
<1> HIDE DEF all, i
<1>5. all[i] \in Entry
  BY <1>2, LenProperties
<1>6. Told(stm, Since, nextMessage + 1)
  <2>1. Told(all[i].stm, Since, nextMessage)
    BY <1>2 DEF Holds
  <2> QED
    BY <1>1, <2>1, AddedTold
<1> HIDE DEF stm
<1>7. e \in Entry /\ e.stm = stm /\ e.summary = all[i].summary /\ e.ltm = all[i].ltm
  BY <1>5, <1>6 DEF Entry, Told
<1>8. Holds(e, Since, nextMessage + 1)
  BY <1>2, <1>6, <1>7 DEF Holds
<1> HIDE DEF e
<1>9. /\ conversations' \in Seq(Entry) /\ DOMAIN conversations' = DOMAIN all
      /\ Len(conversations') = Len(all)
      /\ \A k \in DOMAIN all : conversations'[k] = IF k = i THEN e ELSE all[k]
  BY <1>2, <1>3, <1>7, ExceptSeq
<1>10. Since' = Since /\ \A k : From(k)' = IF k = i THEN Since ELSE 0
  BY <1>4 DEF Since, From
<1>11. EntriesKnown'
  <2> SUFFICES ASSUME NEW k \in DOMAIN all
               PROVE  Holds(conversations'[k], IF k = i THEN Since ELSE 0, nextMessage + 1)
    BY <1>4, <1>9, <1>10 DEF EntriesKnown
  <2>1. CASE k = i
    BY <1>8, <1>9, <2>1
  <2>2. CASE k # i
    <3>1. all[k] \in Entry /\ Holds(all[k], 0, nextMessage)
      BY <1>2, <2>2, LenProperties
    <3>2. Holds(all[k], 0, nextMessage + 1)
      BY <1>1, <3>1, HoldsWidely
    <3> QED
      BY <1>9, <2>2, <3>2
  <2> QED
    BY <2>1, <2>2
<1>12. chats' \in [Callers -> Chat] /\ TasksKnown' /\ OwnKept'
  <2>1. \A k \in DOMAIN conversations : (IF k = conversation' THEN Since' ELSE 0) = From(k)
    BY <1>2, <1>4, <1>10
  <2>2. Memory!Idle.at = "idle"
    BY DEF Memory!Idle
  <2>3. DOMAIN conversations \subseteq DOMAIN conversations'
    BY <1>2, <1>9
  <2>4. nextMessage' \in Nat /\ nextMessage <= nextMessage'
    BY <1>1, <1>4
  <2>5. conversation # 0 => conversation' = conversation
    BY <1>2, <1>4
  <2> QED
    BY <1>4, <2>1, <2>2, <2>3, <2>4, <2>5, IdleTask, TasksStay
<1>13. ChatsTyped'
  BY <1>1, <1>2, <1>4, <1>9, <1>10, <1>12 DEF ChatsTyped
<1> QED
  BY <1>11, <1>12, <1>13

LEMMA FailureKeeps ==
  ASSUME ConversationIInv, NEW c \in Callers, Memory!GenerationFails(c)
  PROVE  ConversationIInv'
<1> USE DEF ConversationIInv, Memory!GenerationFails
<1>1. nextMessage \in Nat
  BY DEF ChatsTyped
<1>2. Memory!Idle.at = "idle"
  BY DEF Memory!Idle
<1>3. /\ \A k : From(k)' = From(k)
      /\ \A k \in DOMAIN conversations : (IF k = conversation' THEN Since' ELSE 0) = From(k)
  BY DEF From, Since
<1>4. chats' \in [Callers -> Chat] /\ TasksKnown' /\ OwnKept'
  <2>1. chats' = [chats EXCEPT ![c] = Memory!Idle]
    OBVIOUS
  <2>2. nextMessage' \in Nat /\ nextMessage <= nextMessage'
    BY <1>1
  <2>3. DOMAIN conversations \subseteq DOMAIN conversations'
    OBVIOUS
  <2>4. conversation # 0 => conversation' = conversation
    OBVIOUS
  <2> QED
    BY <1>2, <1>3, <2>1, <2>2, <2>3, <2>4, IdleTask, TasksStay
<1>5. ChatsTyped'
  BY <1>4 DEF ChatsTyped, Since
<1>6. EntriesKnown'
  BY <1>3 DEF EntriesKnown
<1> QED
  BY <1>4, <1>5, <1>6

(* clear() forgets the entry: the tasks that go on have a former one.      *)
LEMMA ClearKeeps == ASSUME ConversationIInv, Memory!Clear PROVE ConversationIInv'
<1> USE DEF ConversationIInv
<1>1. /\ nextMessage \in Nat /\ Since \in Nat /\ Since <= nextMessage
      /\ conversations \in Seq(Entry) /\ Len(conversations) \in Nat
      /\ clears \in Seq(Nat) /\ chats \in [Callers -> Chat]
  BY SinceNatural, LenProperties DEF ChatsTyped
<1>2. /\ conversations' = conversations /\ nextMessage' = nextMessage /\ conversation' = 0
      /\ clears' = Append(clears, nextMessage)
      /\ chats' = [c \in Callers |-> [chats[c] EXCEPT !.alone = FALSE]]
  BY DEF Memory!Clear
<1>3. clears' \in Seq(Nat) /\ Since' = nextMessage
  <2>1. /\ clears' \in Seq(Nat) /\ Len(clears') = Len(clears) + 1
        /\ clears'[Len(clears) + 1] = nextMessage /\ Len(clears) \in Nat
    BY <1>1, <1>2, AppendProperties, LenProperties
  <2>2. clears' # <<>>
    BY <2>1, EmptySeq
  <2> QED
    BY <2>1, <2>2 DEF Since, Memory!Last
<1>4. \A k \in DOMAIN conversations : k # 0
  BY <1>1, LenProperties
<1>5. \A k \in DOMAIN conversations : From(k)' = 0 /\ From(k) \in Nat
  BY <1>1, <1>2, <1>4 DEF From
<1>6. ASSUME NEW c \in Callers
      PROVE  /\ chats'[c] \in Chat /\ ~chats'[c].alone
             /\ chats'[c].at = chats[c].at /\ chats'[c].conv = chats[c].conv
             /\ chats'[c].recent = chats[c].recent /\ chats'[c].older = chats[c].older
  <2>1. chats[c] \in Chat /\ chats'[c] = [chats[c] EXCEPT !.alone = FALSE]
    BY <1>1, <1>2
  <2> QED
    BY <2>1 DEF Chat
<1>7. ChatsTyped'
  <2>1. chats' \in [Callers -> Chat]
    BY <1>2, <1>6
  <2> QED
    BY <1>1, <1>2, <1>3, <2>1 DEF ChatsTyped
<1>8. EntriesKnown'
  <2> SUFFICES ASSUME NEW k \in DOMAIN conversations PROVE Holds(conversations[k], 0, nextMessage)
    BY <1>2, <1>5 DEF EntriesKnown
  <2>1. conversations[k] \in Entry /\ Holds(conversations[k], From(k), nextMessage)
    BY <1>1, LenProperties DEF EntriesKnown
  <2> QED
    BY <1>1, <1>5, <2>1, HoldsWidely
<1>9. TasksKnown'
  <2> SUFFICES ASSUME NEW c \in Callers, chats[c].at = "summarizing"
               PROVE  /\ chats[c].conv \in DOMAIN conversations
                      /\ Told(chats[c].recent, 0, nextMessage)
                      /\ \A id \in chats[c].older : 0 <= id
    BY <1>2, <1>5, <1>6 DEF TasksKnown
  <2>1. /\ chats[c].conv \in DOMAIN conversations
        /\ Told(chats[c].recent, From(chats[c].conv), nextMessage)
    BY DEF TasksKnown
  <2>2. chats[c].older \in SUBSET Nat
    BY <1>1 DEF Chat
  <2> QED
    BY <1>1, <1>5, <2>1, <2>2, HoldsWidely
<1>10. OwnKept'
  BY <1>6 DEF OwnKept
<1> QED
  BY <1>7, <1>8, <1>9, <1>10

LEMMA ConversationSteps == ConversationIInv /\ [Memory!Next]_(Memory!vars) => ConversationIInv'
<1> SUFFICES ASSUME ConversationIInv, [Memory!Next]_(Memory!vars) PROVE ConversationIInv'
  OBVIOUS
<1>1. ASSUME NEW c \in Callers, NEW s \in Sizes,
             Memory!Call(c, "chat", s) \/ Memory!Call(c, "sync", s) \/ Memory!Replied(c, s)
      PROVE  ConversationIInv'
  BY <1>1, CallKeeps, RepliedKeeps
<1>2. ASSUME NEW c \in Callers, Memory!Summarized(c) \/ Memory!GenerationFails(c)
      PROVE  ConversationIInv'
  BY <1>2, SummarizedKeeps, FailureKeeps
<1>3. CASE UNCHANGED Memory!vars
  BY <1>3 DEF Memory!vars, ConversationIInv, ChatsTyped, EntriesKnown, TasksKnown, OwnKept,
     Since, From
<1> QED
  BY <1>1, <1>2, <1>3, ClearKeeps DEF Memory!Next

LEMMA ConversationHolds == ConversationIInv => Memory!ConversationInv
<1> SUFFICES ASSUME ConversationIInv PROVE Memory!ConversationInv
  OBVIOUS
<1> USE DEF ConversationIInv
<1>1. Memory!MessagesInOrder
  BY DEF EntriesKnown, Holds, Told, Memory!MessagesInOrder
<1>2. Memory!ClearedStaysCleared
  <2> SUFFICES ASSUME conversation # 0, clears # <<>>
               PROVE  \A id \in Memory!Shown(conversations[conversation]) \cup conversations[conversation].ltm :
                          id >= Memory!Last(clears)
    BY DEF Memory!ClearedStaysCleared
  <2>1. conversation \in DOMAIN conversations /\ conversations \in Seq(Entry)
    BY LenProperties DEF ChatsTyped
  <2>2. conversations[conversation] \in Entry
    BY <2>1, LenProperties
  <2>3. Holds(conversations[conversation], Since, nextMessage)
    BY <2>1 DEF EntriesKnown, From
  <2>4. \A id \in Memory!Shown(conversations[conversation]) \cup conversations[conversation].ltm : Since <= id
    BY <2>2, <2>3, ShownAll
  <2> QED
    BY <2>4 DEF Since
<1>3. Memory!OwnMessageShown
  BY DEF OwnKept, Memory!OwnMessageShown
<1> QED
  BY <1>1, <1>2, <1>3 DEF Memory!ConversationInv

-----------------------------------------------------------------------------
(* The detector of deadlocks.  A request that is tracked is answered,      *)
(* dropped or still there, at most once each; the number of the latest is  *)
(* above all of them.                                                      *)
DetectorIInv ==
  /\ DeadlockDetector!TypeOK
  /\ DeadlockDetector!NoPhantomWait
  /\ IsFiniteSet(dependencies)
  /\ Cardinality(dependencies) + resolved <= tracked

(* An instance counts as its environment does.                             *)
LEMMA DetectorCounts ==
  ASSUME NEW S
  PROVE  DeadlockDetector!Cardinality(S) = Cardinality(S)
BY DEF DeadlockDetector!Cardinality, Cardinality

(* Who waits has a request. *)
LEMMA WaitsForRequest ==
  ASSUME DeadlockDetector!NoPhantomWait, NEW a \in DeadlockDetector!Agents,
         NEW b \in DeadlockDetector!Agents, b \in waitingOn[a]
  PROVE  \E d \in dependencies : d.from = a /\ d.to = b
<1>1. <<a, b>> \in DeadlockDetector!Edges
  BY DEF DeadlockDetector!Edges
<1>2. PICK d \in dependencies : <<a, b>> = <<d.from, d.to>>
  BY <1>1 DEF DeadlockDetector!NoPhantomWait, DeadlockDetector!Requested
<1> QED
  BY <1>2

LEMMA DetectorStarts == DeadlockDetector!Init => DetectorIInv
<1> SUFFICES ASSUME DeadlockDetector!Init PROVE DetectorIInv
  OBVIOUS
<1> USE WaitsAssumption DEF DeadlockDetector!DetectorAssumption
<1>1. DeadlockDetector!TypeOK /\ DeadlockDetector!NoPhantomWait
  BY DEF DeadlockDetector!Init, DeadlockDetector!TypeOK, DeadlockDetector!NoPhantomWait, DeadlockDetector!Edges
<1>2. IsFiniteSet(dependencies) /\ Cardinality(dependencies) = 0
  BY FS_EmptySet DEF DeadlockDetector!Init
<1> QED
  BY <1>1, <1>2 DEF DeadlockDetector!Init, DetectorIInv

(* What goes of the requests that are there is counted once, and takes its *)
(* edges along.                                                            *)
LEMMA DropKeeps ==
  ASSUME DetectorIInv, NEW gone \in SUBSET dependencies, DeadlockDetector!Drop(gone),
         tracked' = tracked
  PROVE  /\ dependencies' \subseteq DeadlockDetector!DependencyEdge
         /\ waitingOn' \in [DeadlockDetector!Agents -> SUBSET DeadlockDetector!Agents]
         /\ DeadlockDetector!NoPhantomWait'
         /\ IsFiniteSet(dependencies')
         /\ Cardinality(gone) \in Nat
         /\ Cardinality(dependencies') = Cardinality(dependencies) - Cardinality(gone)
<1> USE DEF DetectorIInv, DeadlockDetector!TypeOK, DeadlockDetector!Drop, DeadlockDetector!WithoutEdges
<1>1. dependencies' \subseteq DeadlockDetector!DependencyEdge
  OBVIOUS
<1>2. waitingOn' \in [DeadlockDetector!Agents -> SUBSET DeadlockDetector!Agents]
  OBVIOUS
<1>3. DeadlockDetector!NoPhantomWait'
  <2> SUFFICES ASSUME NEW a \in DeadlockDetector!Agents, NEW b \in DeadlockDetector!Agents,
                      b \in waitingOn'[a]
               PROVE  \E d \in dependencies' : d.from = a /\ d.to = b
    BY DEF DeadlockDetector!NoPhantomWait, DeadlockDetector!Edges, DeadlockDetector!Requested,
       DeadlockDetector!Agents
  <2>1. b \in waitingOn[a] /\ b \notin {d.to : d \in {e \in gone : e.from = a}}
    OBVIOUS
  <2>2. PICK d \in dependencies : d.from = a /\ d.to = b
    BY <2>1, WaitsForRequest
  <2> QED
    BY <2>1, <2>2
<1>4. /\ IsFiniteSet(gone) /\ Cardinality(gone) \in Nat
      /\ IsFiniteSet(dependencies')
      /\ Cardinality(dependencies') = Cardinality(dependencies) - Cardinality(dependencies \cap gone)
  BY FS_Subset, FS_Difference, FS_CardinalityType
<1>5. dependencies \cap gone = gone
  OBVIOUS
<1> QED
  BY <1>1, <1>2, <1>3, <1>4, <1>5

LEMMA DetectorSteps ==
  DetectorIInv /\ [DeadlockDetector!Next]_(DeadlockDetector!vars) => DetectorIInv'
<1> SUFFICES ASSUME DetectorIInv, [DeadlockDetector!Next]_(DeadlockDetector!vars)
             PROVE  DetectorIInv'
  OBVIOUS
<1> USE WaitsAssumption DEF DeadlockDetector!DetectorAssumption
<1>1. Cardinality(dependencies) \in Nat
  BY FS_CardinalityType DEF DetectorIInv
<1>2. ASSUME NEW a \in DeadlockDetector!Agents, NEW b \in DeadlockDetector!Agents,
             DeadlockDetector!TrackRequest(a, b)
      PROVE  DetectorIInv'
  <2> DEFINE dep == [request |-> tracked + 1, from |-> a, to |-> b]
  <2> USE DEF DeadlockDetector!TrackRequest, DeadlockDetector!TypeOK, DetectorIInv
  <2>1. dep \in DeadlockDetector!DependencyEdge
    BY <1>2 DEF DeadlockDetector!DependencyEdge
  <2>2. DeadlockDetector!TypeOK'
    BY <1>2, <2>1
  <2>3. DeadlockDetector!NoPhantomWait'
    <3> SUFFICES ASSUME NEW x \in DeadlockDetector!Agents, NEW y \in DeadlockDetector!Agents,
                        y \in waitingOn'[x]
                 PROVE  \E d \in dependencies' : d.from = x /\ d.to = y
      BY DEF DeadlockDetector!NoPhantomWait, DeadlockDetector!Edges,
         DeadlockDetector!Requested, DeadlockDetector!Agents
    <3>1. CASE y \in waitingOn[x]
      <4>1. PICK d \in dependencies : d.from = x /\ d.to = y
        BY <3>1, WaitsForRequest
      <4> QED
        BY <1>2, <4>1
    <3>2. CASE y \notin waitingOn[x]
      <4>1. x = a /\ y = b
        BY <1>2, <3>2
      <4>2. dep \in dependencies' /\ dep.from = a /\ dep.to = b
        BY <1>2
      <4> QED
        BY <4>1, <4>2
    <3> QED
      BY <3>1, <3>2
  <2>4. /\ IsFiniteSet(dependencies')
        /\ Cardinality(dependencies') <= Cardinality(dependencies) + 1
    <3>1. dependencies' = dependencies \cup {dep}
      BY <1>2
    <3>2. IsFiniteSet(dependencies)
      OBVIOUS
    <3> HIDE DEF dep
    <3>3. /\ IsFiniteSet(dependencies \cup {dep})
          /\ \/ Cardinality(dependencies \cup {dep}) = Cardinality(dependencies)
             \/ Cardinality(dependencies \cup {dep}) = Cardinality(dependencies) + 1
      BY ONLY <3>2, FS_AddElement
    <3> QED
      BY ONLY <1>1, <3>1, <3>3
  <2>5. Cardinality(dependencies') \in Nat
    BY <2>4, FS_CardinalityType
  <2> QED
    BY <1>1, <1>2, <2>2, <2>3, <2>4, <2>5
<1>3. ASSUME NEW dep \in dependencies, DeadlockDetector!ResolveDependency(dep)
      PROVE  DetectorIInv'
  <2> USE DEF DeadlockDetector!ResolveDependency
  <2>1. DeadlockDetector!Drop({dep}) /\ {dep} \in SUBSET dependencies
    BY <1>3
  <2>2. tracked' = tracked /\ resolved' = resolved
    BY <1>3
  <2> QED
    BY <1>1, <2>1, <2>2, DropKeeps DEF DetectorIInv, DeadlockDetector!TypeOK
<1>4. ASSUME DeadlockDetector!Detect
      PROVE  DetectorIInv'
  <2> DEFINE gone == DeadlockDetector!Resolved(DeadlockDetector!FindCycles)
  <2>1. /\ DeadlockDetector!Drop(gone) /\ tracked' = tracked
        /\ resolved' = resolved + Cardinality(gone)
    BY <1>4, DetectorCounts DEF DeadlockDetector!Detect
  <2>2. gone \in SUBSET dependencies
    BY DEF DeadlockDetector!Resolved
  <2> HIDE DEF gone
  <2>3. /\ Cardinality(gone) \in Nat
        /\ Cardinality(dependencies') = Cardinality(dependencies) - Cardinality(gone)
    BY <2>1, <2>2, DropKeeps
  <2>4. Cardinality(dependencies') \in Nat
    BY <2>1, <2>2, DropKeeps, FS_CardinalityType
  <2> QED
    BY <1>1, <2>1, <2>2, <2>3, <2>4, DropKeeps DEF DetectorIInv, DeadlockDetector!TypeOK
<1>5. ASSUME UNCHANGED DeadlockDetector!vars
      PROVE  DetectorIInv'
  BY <1>5 DEF DeadlockDetector!vars, DetectorIInv, DeadlockDetector!TypeOK,
     DeadlockDetector!NoPhantomWait, DeadlockDetector!Edges, DeadlockDetector!Requested
<1> QED
  BY <1>2, <1>3, <1>4, <1>5 DEF DeadlockDetector!Next

-----------------------------------------------------------------------------
(* The search of the detector, for any set of agents A, any graph W and    *)
(* any order Q in which the members of a set are taken.  dfs is shown to   *)
(* exist and to keep its promise by the first search that would not: one   *)
(* with the fewest agents left and, of these, with the fewest next.        *)

LEMMA LeastIn ==
  ASSUME NEW S \in SUBSET Nat, S # {}
  PROVE  \E x \in S : \A y \in S : x <= y
<1>1. PICK x \in S : \A y \in S : ~(<<y, x>> \in OpToRel(<, Nat))
  BY NatLessThanWellFounded, WFMin
<1>2. \A y \in S : ~(y < x)
  BY <1>1, Zenon DEF OpToRel
<1> QED
  BY <1>2

(* Where a search is, and what it found.                                   *)
FoundIn(A) == [visited : SUBSET A, cycles : Seq(Seq(A))]
Searches(A) == [agents : Seq(A), path : Seq(A), found : FoundIn(A)]
Where(s, p, x) == [agents |-> s, path |-> p, found |-> x]

(* An agent on the path, and the circle it closes.                         *)
OnIt(p, a) == \E i \in 1..Len(p) : p[i] = a
PlacesOf(p, a) == {i \in DOMAIN p : p[i] = a}
FirstOf(p, a) == CHOOSE i \in PlacesOf(p, a) : \A j \in PlacesOf(p, a) : i <= j
Reported(p, a, x) == [x EXCEPT !.cycles = Append(@, SubSeq(p, FirstOf(p, a), Len(p)))]

(* One step of the search: what follows from the first agent that is next, *)
(* and then the rest.                                                      *)
Inside(W, Q, at) ==
  Where(Q[W[Head(at.agents)]], Append(at.path, Head(at.agents)),
        [at.found EXCEPT !.visited = @ \cup {Head(at.agents)}])
AfterHead(f, W, Q, at) ==
  IF OnIt(at.path, Head(at.agents)) THEN Reported(at.path, Head(at.agents), at.found)
  ELSE IF Head(at.agents) \in at.found.visited THEN at.found
  ELSE f[Inside(W, Q, at)]
Rest(at, y) == Where(Tail(at.agents), at.path, y)
Visit(f, W, Q, at) ==
  IF at.agents = <<>> THEN at.found ELSE f[Rest(at, AfterHead(f, W, Q, at))]

(* Q lists each set of agents.                                             *)
Orders(A, Q) == \A S \in SUBSET A : Q[S] \in Seq(A) /\ \A a \in A : OnIt(Q[S], a) <=> a \in S

Unvisited(A, at) == Cardinality(A \ at.found.visited)

(* One search comes before another if it has fewer agents left, or as many *)
(* and fewer that are next.                                                *)
Before(A, c, b) ==
  \/ Unvisited(A, c) < Unvisited(A, b)
  \/ Unvisited(A, c) = Unvisited(A, b) /\ Len(c.agents) < Len(b.agents)

LEMMA UnvisitedCounts ==
  ASSUME NEW A, IsFiniteSet(A), NEW at \in Searches(A)
  PROVE  Unvisited(A, at) \in Nat /\ Len(at.agents) \in Nat
<1>1. IsFiniteSet(A \ at.found.visited)
  BY FS_Subset
<1> QED
  BY <1>1, FS_CardinalityType DEF Unvisited, Searches

LEMMA LeastSearch ==
  ASSUME NEW A, IsFiniteSet(A), NEW Bad \in SUBSET Searches(A), Bad # {}
  PROVE  \E b \in Bad : \A c \in Bad : ~Before(A, c, b)
<1> DEFINE Lefts == {Unvisited(A, c) : c \in Bad}
<1>1. Lefts \in SUBSET Nat /\ Lefts # {}
  BY UnvisitedCounts
<1>2. PICK u \in Lefts : \A v \in Lefts : u <= v
  BY <1>1, LeastIn
<1> DEFINE Few == {c \in Bad : Unvisited(A, c) = u}
           Lens == {Len(c.agents) : c \in Few}
<1>3. Lens \in SUBSET Nat /\ Lens # {}
  BY <1>2, UnvisitedCounts
<1>4. PICK l \in Lens : \A m \in Lens : l <= m
  BY <1>3, LeastIn
<1>5. PICK b \in Few : Len(b.agents) = l
  BY <1>4
<1>6. ASSUME NEW c \in Bad, Before(A, c, b) PROVE FALSE
  <2>1. Unvisited(A, c) \in Lefts /\ Unvisited(A, b) = u
    BY <1>5
  <2>2. u \in Nat /\ Unvisited(A, c) \in Nat /\ u <= Unvisited(A, c)
    BY <1>1, <1>2, <2>1
  <2>3. Unvisited(A, c) = u /\ Len(c.agents) < l
    BY <1>5, <1>6, <2>1, <2>2 DEF Before
  <2>4. Len(c.agents) \in Lens /\ Len(c.agents) \in Nat /\ l \in Nat
    BY <1>3, <1>4, <2>3
  <2> QED
    BY <1>4, <2>3, <2>4
<1> QED
  BY <1>5, <1>6

(* Where an agent is on a path.                                            *)
LEMMA Placed ==
  ASSUME NEW A, NEW p \in Seq(A), NEW a, OnIt(p, a)
  PROVE  /\ FirstOf(p, a) \in 1..Len(p) /\ p[FirstOf(p, a)] = a
         /\ Len(p) \in Nat /\ DOMAIN p = 1..Len(p)
         /\ SubSeq(p, FirstOf(p, a), Len(p)) \in Seq(A)
         /\ Len(SubSeq(p, FirstOf(p, a), Len(p))) = (Len(p) - FirstOf(p, a)) + 1
         /\ \A i \in 1..((Len(p) - FirstOf(p, a)) + 1) :
               SubSeq(p, FirstOf(p, a), Len(p))[i] = p[(FirstOf(p, a) + i) - 1]
<1>1. Len(p) \in Nat /\ DOMAIN p = 1..Len(p) /\ \A i \in 1..Len(p) : p[i] \in A
  BY LenProperties, ElementOfSeq
<1>2. PlacesOf(p, a) \in SUBSET Nat /\ PlacesOf(p, a) # {}
  BY <1>1 DEF PlacesOf, OnIt
<1>3. \E i \in PlacesOf(p, a) : \A j \in PlacesOf(p, a) : i <= j
  BY <1>2, LeastIn
<1>4. FirstOf(p, a) \in PlacesOf(p, a)
  BY <1>3 DEF FirstOf
<1> DEFINE k == FirstOf(p, a)
<1>5. k \in 1..Len(p) /\ p[k] = a
  BY <1>1, <1>4 DEF PlacesOf
<1> HIDE DEF k
<1>6. \A i \in k..Len(p) : p[i] \in A
  BY <1>1, <1>5
<1>7. k \in Int /\ Len(p) \in Int /\ k <= Len(p)
  BY <1>1, <1>5
<1>8. /\ SubSeq(p, k, Len(p)) \in Seq(A)
      /\ Len(SubSeq(p, k, Len(p))) = (Len(p) - k) + 1
      /\ \A i \in 1..((Len(p) - k) + 1) : SubSeq(p, k, Len(p))[i] = p[(k + i) - 1]
  BY <1>6, <1>7, SubSeqProperties
<1> QED
  BY <1>1, <1>5, <1>8 DEF k

LEMMA ReportedIs ==
  ASSUME NEW A, NEW p \in Seq(A), NEW a, OnIt(p, a), NEW x \in FoundIn(A)
  PROVE  /\ Reported(p, a, x) \in FoundIn(A)
         /\ Reported(p, a, x).visited = x.visited
         /\ Reported(p, a, x).cycles = Append(x.cycles, SubSeq(p, FirstOf(p, a), Len(p)))
<1> DEFINE c == SubSeq(p, FirstOf(p, a), Len(p))
<1>1. c \in Seq(A)
  BY Placed
<1> HIDE DEF c
<1>2. x.cycles \in Seq(Seq(A)) /\ x.visited \in SUBSET A
  BY DEF FoundIn
<1>3. Append(x.cycles, c) \in Seq(Seq(A))
  BY <1>1, <1>2, AppendProperties
<1>4. Reported(p, a, x) = [x EXCEPT !.cycles = Append(x.cycles, c)]
  BY DEF Reported, c
<1>5. [x EXCEPT !.cycles = Append(x.cycles, c)] \in FoundIn(A)
  BY <1>3 DEF FoundIn
<1>6. [x EXCEPT !.cycles = Append(x.cycles, c)].visited = x.visited
      /\ [x EXCEPT !.cycles = Append(x.cycles, c)].cycles = Append(x.cycles, c)
  BY DEF FoundIn
<1> QED
  BY <1>4, <1>5, <1>6 DEF c

LEMMA HeadIs ==
  ASSUME NEW A, NEW at \in Searches(A), at.agents # <<>>
  PROVE  /\ Head(at.agents) \in A /\ Head(at.agents) = at.agents[1]
         /\ Tail(at.agents) \in Seq(A) /\ Len(Tail(at.agents)) = Len(at.agents) - 1
         /\ Len(at.agents) \in Nat \ {0}
         /\ \A i \in 1..Len(Tail(at.agents)) : Tail(at.agents)[i] = at.agents[i + 1]
         /\ at.path \in Seq(A) /\ at.found \in FoundIn(A) /\ at.agents \in Seq(A)
         /\ at.found.visited \in SUBSET A /\ at.found.cycles \in Seq(Seq(A))
<1>1. at.agents \in Seq(A) /\ at.path \in Seq(A) /\ at.found \in FoundIn(A)
  BY DEF Searches
<1>2. at.found.visited \in SUBSET A /\ at.found.cycles \in Seq(Seq(A))
  BY <1>1 DEF FoundIn
<1> DEFINE s == at.agents
<1>3. s \in Seq(A) /\ s # <<>>
  BY <1>1
<1> HIDE DEF s
<1>4. Head(s) \in A /\ Tail(s) \in Seq(A) /\ Head(s) = s[1]
      /\ Len(Tail(s)) = Len(s) - 1 /\ Len(s) \in Nat \ {0}
      /\ \A i \in 1..Len(Tail(s)) : Tail(s)[i] = s[i + 1]
  BY <1>3, HeadTailProperties, EmptySeq, LenProperties
<1> QED
  BY <1>1, <1>2, <1>4 DEF s

(* The searches that a search goes on with come before it.                 *)
LEMMA RestBefore ==
  ASSUME NEW A, IsFiniteSet(A), NEW at \in Searches(A), at.agents # <<>>,
         NEW y \in FoundIn(A), at.found.visited \subseteq y.visited
  PROVE  Rest(at, y) \in Searches(A) /\ Before(A, Rest(at, y), at)
<1>1. Rest(at, y) \in Searches(A)
  BY HeadIs DEF Rest, Where, Searches
<1>2. Rest(at, y).agents = Tail(at.agents) /\ Rest(at, y).found = y
  BY DEF Rest, Where
<1>3. Len(Rest(at, y).agents) < Len(at.agents)
  BY <1>2, HeadIs
<1>4. Unvisited(A, Rest(at, y)) <= Unvisited(A, at)
  <2>1. IsFiniteSet(A \ at.found.visited) /\ A \ y.visited \subseteq A \ at.found.visited
    BY FS_Subset
  <2> QED
    BY <1>2, <2>1, FS_Subset DEF Unvisited
<1> QED
  BY <1>1, <1>3, <1>4, UnvisitedCounts DEF Before

LEMMA InsideBefore ==
  ASSUME NEW A, IsFiniteSet(A), NEW W \in [A -> SUBSET A], NEW Q, Orders(A, Q),
         NEW at \in Searches(A), at.agents # <<>>, Head(at.agents) \notin at.found.visited
  PROVE  /\ Inside(W, Q, at) \in Searches(A) /\ Before(A, Inside(W, Q, at), at)
         /\ Inside(W, Q, at).path = Append(at.path, Head(at.agents))
         /\ Inside(W, Q, at).agents = Q[W[Head(at.agents)]]
         /\ Inside(W, Q, at).found.visited = at.found.visited \cup {Head(at.agents)}
         /\ Inside(W, Q, at).found.cycles = at.found.cycles
<1> DEFINE a == Head(at.agents)
           y == [at.found EXCEPT !.visited = @ \cup {a}]
<1>1. a \in A /\ at.path \in Seq(A) /\ at.found \in FoundIn(A) /\ at.found.visited \in SUBSET A
  BY HeadIs
<1>2. a \notin at.found.visited
  OBVIOUS
<1>3. Inside(W, Q, at) = Where(Q[W[a]], Append(at.path, a), y)
  BY DEF Inside
<1> HIDE DEF a
<1>4. y \in FoundIn(A) /\ y.visited = at.found.visited \cup {a} /\ y.cycles = at.found.cycles
  BY <1>1 DEF FoundIn
<1> HIDE DEF y
<1>5. Q[W[a]] \in Seq(A)
  BY <1>1 DEF Orders
<1>6. Append(at.path, a) \in Seq(A)
  BY <1>1, AppendProperties
<1>7. /\ Inside(W, Q, at) \in Searches(A) /\ Inside(W, Q, at).found = y
      /\ Inside(W, Q, at).path = Append(at.path, a) /\ Inside(W, Q, at).agents = Q[W[a]]
  BY <1>3, <1>4, <1>5, <1>6 DEF Where, Searches
<1>8. Unvisited(A, Inside(W, Q, at)) < Unvisited(A, at)
  <2>1. IsFiniteSet(A \ at.found.visited) /\ a \in A \ at.found.visited
    BY <1>1, <1>2, FS_Subset
  <2>2. A \ y.visited = (A \ at.found.visited) \ {a}
    BY <1>4
  <2>3. Cardinality((A \ at.found.visited) \ {a}) = Cardinality(A \ at.found.visited) - 1
    BY <2>1, FS_RemoveElement
  <2>4. Cardinality(A \ at.found.visited) \in Nat
    BY <2>1, FS_CardinalityType
  <2>5. Unvisited(A, Inside(W, Q, at)) = Cardinality(A \ y.visited)
    BY <1>7 DEF Unvisited
  <2>6. Unvisited(A, Inside(W, Q, at)) = Unvisited(A, at) - 1 /\ Unvisited(A, at) \in Nat
    BY <2>2, <2>3, <2>4, <2>5 DEF Unvisited
  <2> QED
    BY <2>6
<1> QED
  BY <1>4, <1>7, <1>8 DEF Before, a

-----------------------------------------------------------------------------
(* That there is such a function: the runs of the search are the least set *)
(* that its rule closes, and there is one for each search.                 *)
Runs(A) == Searches(A) \X FoundIn(A)
Rule(G, W, Q, A, at, r) ==
  IF at.agents = <<>> THEN r = at.found
  ELSE \E y \in FoundIn(A) :
         /\ IF OnIt(at.path, Head(at.agents)) THEN y = Reported(at.path, Head(at.agents), at.found)
            ELSE IF Head(at.agents) \in at.found.visited THEN y = at.found
            ELSE <<Inside(W, Q, at), y>> \in G
         /\ <<Rest(at, y), r>> \in G

LEMMA RunsExist ==
  ASSUME NEW A, NEW W, NEW Q
  PROVE  \E G : \A at \in Searches(A), r \in FoundIn(A) :
            <<at, r>> \in G <=> Rule(G, W, Q, A, at, r)
<1> DEFINE Phi(S) == {t \in Runs(A) : Rule(S, W, Q, A, t[1], t[2])}
           G == {t \in Runs(A) : \A S \in SUBSET Runs(A) : Phi(S) \subseteq S => t \in S}
<1>1. ASSUME NEW S, NEW T, S \subseteq T PROVE Phi(S) \subseteq Phi(T)
  BY <1>1 DEF Rule
<1>2. \A S : Phi(S) \in SUBSET Runs(A)
  OBVIOUS
<1>3. \A S \in SUBSET Runs(A) : Phi(S) \subseteq S => G \subseteq S
  OBVIOUS
<1>4. G \in SUBSET Runs(A)
  OBVIOUS
<1>5. \A t \in Runs(A) : (\A S \in SUBSET Runs(A) : Phi(S) \subseteq S => t \in S) => t \in G
  OBVIOUS
<1>p. \A S, t : t \in Phi(S) <=> t \in Runs(A) /\ Rule(S, W, Q, A, t[1], t[2])
  OBVIOUS
<1> HIDE DEF G, Phi
<1>6. Phi(G) \subseteq G
  <2> SUFFICES ASSUME NEW t \in Phi(G), NEW S \in SUBSET Runs(A), Phi(S) \subseteq S PROVE t \in S
    BY <1>2, <1>5
  <2>1. G \subseteq S
    BY <1>3
  <2> QED
    BY <1>1, <2>1
<1>7. Phi(Phi(G)) \subseteq Phi(G)
  BY <1>1, <1>6
<1>8. G = Phi(G)
  BY <1>2, <1>3, <1>6, <1>7
<1>9. ASSUME NEW at \in Searches(A), NEW r \in FoundIn(A)
      PROVE  <<at, r>> \in G <=> Rule(G, W, Q, A, at, r)
  <2>1. <<at, r>> \in Runs(A) /\ <<at, r>>[1] = at /\ <<at, r>>[2] = r
    BY DEF Runs
  <2>2. <<at, r>> \in Phi(G) <=> Rule(G, W, Q, A, at, r)
    BY <1>p, <2>1
  <2> QED
    BY <1>8, <2>2
<1> QED
  BY <1>9

(* Each search has one run, and nothing visited is forgotten.              *)
OneRun(G, A, at) ==
  \E r \in FoundIn(A) : /\ <<at, r>> \in G /\ at.found.visited \subseteq r.visited
                        /\ \A q \in FoundIn(A) : <<at, q>> \in G => q = r

LEMMA OneRunEach ==
  ASSUME NEW A, IsFiniteSet(A), NEW W \in [A -> SUBSET A], NEW Q, Orders(A, Q),
         NEW G, \A at \in Searches(A), r \in FoundIn(A) :
                   <<at, r>> \in G <=> Rule(G, W, Q, A, at, r)
  PROVE  \A at \in Searches(A) : OneRun(G, A, at)
<1> DEFINE Bad == {at \in Searches(A) : ~OneRun(G, A, at)}
<1> SUFFICES ASSUME Bad # {} PROVE FALSE
  OBVIOUS
<1>1. PICK at \in Bad : \A c \in Bad : ~Before(A, c, at)
  <2>1. Bad \in SUBSET Searches(A)
    OBVIOUS
  <2> HIDE DEF Bad
  <2> QED
    BY <2>1, LeastSearch
<1>2. at \in Searches(A) /\ ~OneRun(G, A, at)
  BY <1>1
<1>3. \A c \in Searches(A) : Before(A, c, at) => OneRun(G, A, c)
  BY <1>1
<1> HIDE DEF Bad
<1>4. CASE at.agents = <<>>
  <2>1. at.found \in FoundIn(A)
    BY <1>2 DEF Searches
  <2>2. \A r \in FoundIn(A) : <<at, r>> \in G <=> r = at.found
    BY <1>2, <1>4 DEF Rule
  <2> QED
    BY <1>2, <2>1, <2>2 DEF OneRun
<1>5. CASE at.agents # <<>>
  <2> DEFINE Next1(y) == IF OnIt(at.path, Head(at.agents))
                         THEN y = Reported(at.path, Head(at.agents), at.found)
                         ELSE IF Head(at.agents) \in at.found.visited THEN y = at.found
                         ELSE <<Inside(W, Q, at), y>> \in G
  <2>1. \A r \in FoundIn(A) : <<at, r>> \in G <=> \E y \in FoundIn(A) : Next1(y) /\ <<Rest(at, y), r>> \in G
    BY <1>2, <1>5 DEF Rule
  <2>2. at.path \in Seq(A) /\ at.found \in FoundIn(A)
    BY <1>2 DEF Searches
  <2>3. \E y \in FoundIn(A) : /\ Next1(y) /\ at.found.visited \subseteq y.visited
                              /\ \A z \in FoundIn(A) : Next1(z) => z = y
    <3>1. CASE OnIt(at.path, Head(at.agents))
      BY <2>2, <3>1, ReportedIs
    <3>2. CASE ~OnIt(at.path, Head(at.agents)) /\ Head(at.agents) \in at.found.visited
      BY <2>2, <3>2
    <3>3. CASE ~OnIt(at.path, Head(at.agents)) /\ Head(at.agents) \notin at.found.visited
      <4>1. /\ Inside(W, Q, at) \in Searches(A) /\ Before(A, Inside(W, Q, at), at)
            /\ at.found.visited \subseteq Inside(W, Q, at).found.visited
        BY <1>2, <1>5, <3>3, InsideBefore
      <4>2. OneRun(G, A, Inside(W, Q, at))
        BY <1>3, <4>1
      <4> QED
        BY <3>3, <4>1, <4>2 DEF OneRun
    <3> QED
      BY <3>1, <3>2, <3>3
  <2> HIDE DEF Next1
  <2>4. PICK y \in FoundIn(A) : /\ Next1(y) /\ at.found.visited \subseteq y.visited
                                /\ \A z \in FoundIn(A) : Next1(z) => z = y
    BY <2>3
  <2>5. Rest(at, y) \in Searches(A) /\ Before(A, Rest(at, y), at) /\ Rest(at, y).found = y
    BY <1>2, <1>5, <2>4, RestBefore DEF Rest, Where
  <2>6. OneRun(G, A, Rest(at, y))
    BY <1>3, <2>5
  <2>7. \A r \in FoundIn(A) : <<at, r>> \in G <=> <<Rest(at, y), r>> \in G
    BY <2>1, <2>4
  <2> QED
    BY <1>2, <2>4, <2>5, <2>6, <2>7 DEF OneRun
<1> QED
  BY <1>4, <1>5

(* So there is a function that searches.                                   *)
LEMMA SearchExists ==
  ASSUME NEW A, IsFiniteSet(A), NEW W \in [A -> SUBSET A], NEW Q, Orders(A, Q)
  PROVE  \E f : f = [at \in Searches(A) |-> Visit(f, W, Q, at)]
<1>1. PICK G : \A at \in Searches(A), r \in FoundIn(A) :
                   <<at, r>> \in G <=> Rule(G, W, Q, A, at, r)
  BY RunsExist
<1>2. \A at \in Searches(A) : OneRun(G, A, at)
  BY <1>1, OneRunEach
<1> DEFINE f == [at \in Searches(A) |-> CHOOSE r \in FoundIn(A) : <<at, r>> \in G]
<1>3. ASSUME NEW at \in Searches(A)
      PROVE  /\ f[at] \in FoundIn(A) /\ <<at, f[at]>> \in G
             /\ at.found.visited \subseteq f[at].visited
             /\ \A q \in FoundIn(A) : <<at, q>> \in G => q = f[at]
  <2>1. f[at] = CHOOSE r \in FoundIn(A) : <<at, r>> \in G
    OBVIOUS
  <2>2. f[at] \in FoundIn(A) /\ <<at, f[at]>> \in G
    BY <1>2, <2>1 DEF OneRun
  <2> HIDE DEF f
  <2> QED
    BY <1>2, <2>2 DEF OneRun
<1>4. f \in [Searches(A) -> FoundIn(A)]
  <2>1. \A at \in Searches(A) : (CHOOSE r \in FoundIn(A) : <<at, r>> \in G) \in FoundIn(A)
    BY <1>3
  <2> QED
    BY <2>1
<1> HIDE DEF f
<1>5. ASSUME NEW at \in Searches(A) PROVE f[at] = Visit(f, W, Q, at)
  <2>1. Rule(G, W, Q, A, at, f[at])
    BY <1>1, <1>3
  <2>2. CASE at.agents = <<>>
    BY <2>1, <2>2 DEF Rule, Visit
  <2>3. CASE at.agents # <<>>
    <3>1. PICK y \in FoundIn(A) :
            /\ IF OnIt(at.path, Head(at.agents)) THEN y = Reported(at.path, Head(at.agents), at.found)
               ELSE IF Head(at.agents) \in at.found.visited THEN y = at.found
               ELSE <<Inside(W, Q, at), y>> \in G
            /\ <<Rest(at, y), f[at]>> \in G
      BY <2>1, <2>3 DEF Rule
    <3>2. y = AfterHead(f, W, Q, at) /\ at.found.visited \subseteq y.visited
      <4>1. CASE OnIt(at.path, Head(at.agents))
        <5>1. at.path \in Seq(A) /\ at.found \in FoundIn(A)
          BY DEF Searches
        <5> QED
          BY <3>1, <4>1, <5>1, ReportedIs DEF AfterHead
      <4>2. CASE ~OnIt(at.path, Head(at.agents)) /\ Head(at.agents) \in at.found.visited
        BY <3>1, <4>2 DEF AfterHead
      <4>3. CASE ~OnIt(at.path, Head(at.agents)) /\ Head(at.agents) \notin at.found.visited
        <5>1. Inside(W, Q, at) \in Searches(A)
              /\ at.found.visited \subseteq Inside(W, Q, at).found.visited
          BY <2>3, <4>3, InsideBefore
        <5>2. y = f[Inside(W, Q, at)]
          BY <1>3, <3>1, <4>3, <5>1
        <5> QED
          BY <1>3, <4>3, <5>1, <5>2 DEF AfterHead
      <4> QED
        BY <4>1, <4>2, <4>3
    <3>3. Rest(at, y) \in Searches(A)
      BY <2>3, <3>2, RestBefore
    <3>4. f[at] = f[Rest(at, y)]
      BY <1>3, <3>1, <3>3
    <3> QED
      BY <2>3, <3>2, <3>4 DEF Visit
  <2> QED
    BY <2>2, <2>3
<1>6. f = [at \in Searches(A) |-> Visit(f, W, Q, at)]
  BY <1>4, <1>5
<1> QED
  BY <1>6

-----------------------------------------------------------------------------
(* What a search promises: it reports cycles of the graph, and if it       *)
(* reports none, nobody it is through with is of agents that wait only for *)
(* each other.                                                             *)
Circle(W, c) == c # <<>> /\ \A i \in 1..Len(c) : c[IF i = Len(c) THEN 1 ELSE i + 1] \in W[c[i]]
Circles(W, cs) == \A n \in DOMAIN cs : Circle(W, cs[n])
Knot(W, S) == \A a \in S : W[a] \cap S # {}
Free(A, W, visited, p) ==
  \A S \in SUBSET A : Knot(W, S) => \A a \in S : a \in visited => OnIt(p, a)
AlongEdges(W, at) ==
  /\ \A i \in 1..(Len(at.path) - 1) : at.path[i + 1] \in W[at.path[i]]
  /\ at.path # <<>> => \A i \in 1..Len(at.agents) : at.agents[i] \in W[at.path[Len(at.path)]]
Promise(A, W, at, r) ==
  /\ r \in FoundIn(A) /\ at.found.visited \subseteq r.visited
  /\ r.cycles = <<>> => at.found.cycles = <<>>
  /\ r.cycles = <<>> => \A i \in 1..Len(at.agents) :
       at.agents[i] \in r.visited /\ ~OnIt(at.path, at.agents[i])
  /\ Free(A, W, at.found.visited, at.path) /\ r.cycles = <<>> => Free(A, W, r.visited, at.path)
  /\ AlongEdges(W, at) /\ Circles(W, at.found.cycles) => Circles(W, r.cycles)

(* What the first agent that is next gives.                                *)
HeadPromise(A, W, at, y) ==
  /\ y \in FoundIn(A) /\ at.found.visited \subseteq y.visited
  /\ y.cycles = <<>> => at.found.cycles = <<>>
  /\ y.cycles = <<>> => Head(at.agents) \in y.visited /\ ~OnIt(at.path, Head(at.agents))
  /\ Free(A, W, at.found.visited, at.path) /\ y.cycles = <<>> => Free(A, W, y.visited, at.path)
  /\ AlongEdges(W, at) /\ Circles(W, at.found.cycles) => Circles(W, y.cycles)

(* An agent on the path: the path from there on is a circle.               *)
LEMMA ReportPromises ==
  ASSUME NEW A, NEW W \in [A -> SUBSET A], NEW at \in Searches(A), at.agents # <<>>,
         OnIt(at.path, Head(at.agents))
  PROVE  HeadPromise(A, W, at, Reported(at.path, Head(at.agents), at.found))
<1> DEFINE p == at.path
           a == Head(at.agents)
           y == Reported(p, a, at.found)
           k == FirstOf(p, a)
           c == SubSeq(p, k, Len(p))
<1>1. p \in Seq(A) /\ at.found \in FoundIn(A) /\ at.found.cycles \in Seq(Seq(A)) /\ a = at.agents[1]
      /\ Len(at.agents) \in Nat \ {0}
  BY HeadIs
<1>2. /\ k \in 1..Len(p) /\ p[k] = a /\ Len(p) \in Nat /\ c \in Seq(A) /\ Len(c) = (Len(p) - k) + 1
      /\ \A i \in 1..((Len(p) - k) + 1) : c[i] = p[(k + i) - 1]
  BY <1>1, Placed
<1>0. OnIt(p, a)
  OBVIOUS
<1>3. y \in FoundIn(A) /\ y.visited = at.found.visited /\ y.cycles = Append(at.found.cycles, c)
  <2> DEFINE f == at.found
             z == Reported(p, a, f)
  <2>1. p \in Seq(A) /\ f \in FoundIn(A)
    BY <1>1
  <2> HIDE DEF a, p, f
  <2>2. z \in FoundIn(A) /\ z.visited = f.visited /\ z.cycles = Append(f.cycles, c)
    BY <1>0, <2>1, ReportedIs
  <2> QED
    BY <2>2 DEF f
<1> HIDE DEF y, c, k, a, p
<1>4. y.cycles # <<>>
  <2>1. Len(Append(at.found.cycles, c)) = Len(at.found.cycles) + 1 /\ Len(at.found.cycles) \in Nat
    BY <1>1, <1>2, AppendProperties
  <2>2. Len(<<>>) = 0
    OBVIOUS
  <2>3. Len(at.found.cycles) + 1 # 0
    BY <2>1
  <2> QED
    BY <1>3, <2>1, <2>2, <2>3
<1>5. ASSUME AlongEdges(W, at), Circles(W, at.found.cycles) PROVE Circles(W, y.cycles)
  <2>1. Circle(W, c)
    <3>1. c # <<>>
      BY <1>2
    <3>2. ASSUME NEW i \in 1..Len(c) PROVE c[IF i = Len(c) THEN 1 ELSE i + 1] \in W[c[i]]
      <4>1. CASE i = Len(c)
        <5>1. (k + i) - 1 = Len(p) /\ i \in 1..((Len(p) - k) + 1)
          BY <1>2, <4>1
        <5>2. c[i] = p[Len(p)]
          BY <1>2, <5>1
        <5>3. c[1] = p[k]
          <6>1. 1 \in 1..((Len(p) - k) + 1) /\ (k + 1) - 1 = k
            BY <1>2
          <6> QED
            BY <1>2, <6>1
        <5>4. p # <<>> /\ 1 \in 1..Len(at.agents)
          BY <1>1, <1>2
        <5>5. a \in W[p[Len(p)]]
          BY <1>1, <1>5, <5>4 DEF AlongEdges, p
        <5> QED
          BY <1>2, <4>1, <5>2, <5>3, <5>5
      <4>2. CASE i # Len(c)
        <5>1. i \in 1..((Len(p) - k) + 1) /\ i + 1 \in 1..((Len(p) - k) + 1)
              /\ (k + (i + 1)) - 1 = ((k + i) - 1) + 1 /\ (k + i) - 1 \in 1..(Len(p) - 1)
          <6> DEFINE n == Len(p)
          <6>1. n \in Nat /\ k \in Nat /\ i \in Nat /\ 1 <= k /\ k <= n /\ 1 <= i /\ i <= (n - k) + 1 /\ i # (n - k) + 1
            BY <1>2, <4>2
          <6> HIDE DEF n
          <6>2. i \in 1..((n - k) + 1) /\ i + 1 \in 1..((n - k) + 1)
            BY <6>1
          <6>3. (k + (i + 1)) - 1 = ((k + i) - 1) + 1 /\ (k + i) - 1 \in 1..(n - 1)
            BY <6>1
          <6> QED
            BY <6>2, <6>3 DEF n
        <5>2. c[i] = p[(k + i) - 1] /\ c[i + 1] = p[((k + i) - 1) + 1]
          <6>1. c[i + 1] = p[(k + (i + 1)) - 1]
            BY <1>2, <5>1
          <6> QED
            BY <1>2, <5>1, <6>1
        <5>3. p[((k + i) - 1) + 1] \in W[p[(k + i) - 1]]
          BY <1>5, <5>1 DEF AlongEdges, p
        <5> QED
          BY <4>2, <5>2, <5>3
      <4> QED
        BY <4>1, <4>2
    <3> QED
      BY <3>1, <3>2 DEF Circle
  <2>2. ASSUME NEW n \in DOMAIN Append(at.found.cycles, c) PROVE Circle(W, Append(at.found.cycles, c)[n])
    <3>1. /\ DOMAIN Append(at.found.cycles, c) = 1..(Len(at.found.cycles) + 1)
          /\ DOMAIN at.found.cycles = 1..Len(at.found.cycles) /\ Len(at.found.cycles) \in Nat
          /\ \A i \in 1..Len(at.found.cycles) : Append(at.found.cycles, c)[i] = at.found.cycles[i]
          /\ Append(at.found.cycles, c)[Len(at.found.cycles) + 1] = c
      BY <1>1, <1>2, AppendProperties, LenProperties
    <3>2. n \in 1..Len(at.found.cycles) \/ n = Len(at.found.cycles) + 1
      BY <3>1
    <3> QED
      BY <1>5, <2>1, <3>1, <3>2 DEF Circles
  <2> QED
    BY <1>3, <2>2 DEF Circles
<1> QED
  BY <1>3, <1>4, <1>5 DEF HeadPromise, y, a, p

(* An agent that was visited and is not on the path.                       *)
LEMMA VisitedPromises ==
  ASSUME NEW A, NEW W, NEW at \in Searches(A), at.agents # <<>>,
         ~OnIt(at.path, Head(at.agents)), Head(at.agents) \in at.found.visited
  PROVE  HeadPromise(A, W, at, at.found)
BY DEF Searches, HeadPromise

(* An agent that is entered: it is free when all it waits for are.         *)
LEMMA EnteredPromises ==
  ASSUME NEW A, IsFiniteSet(A), NEW W \in [A -> SUBSET A], NEW Q, Orders(A, Q),
         NEW at \in Searches(A), at.agents # <<>>,
         ~OnIt(at.path, Head(at.agents)), Head(at.agents) \notin at.found.visited,
         NEW y, Promise(A, W, Inside(W, Q, at), y)
  PROVE  HeadPromise(A, W, at, y)
<1> DEFINE a == Head(at.agents)
           in == Inside(W, Q, at)
<1>1. /\ in.path = Append(at.path, a) /\ in.agents = Q[W[a]]
      /\ in.found.visited = at.found.visited \cup {a} /\ in.found.cycles = at.found.cycles
  BY InsideBefore
<1>2. /\ a \in A /\ a = at.agents[1] /\ Len(at.agents) \in Nat \ {0}
      /\ at.path \in Seq(A) /\ Len(at.path) \in Nat
  BY HeadIs, LenProperties
<1>3. Promise(A, W, in, y) /\ ~OnIt(at.path, a) /\ a \notin at.found.visited
  OBVIOUS
<1> HIDE DEF in, a
<1>4. /\ Len(in.path) = Len(at.path) + 1 /\ in.path[Len(at.path) + 1] = a
      /\ \A i \in 1..Len(at.path) : in.path[i] = at.path[i]
  BY <1>1, <1>2, AppendProperties
<1>5. \A b : OnIt(in.path, b) <=> OnIt(at.path, b) \/ b = a
  <2>1. \A i : i \in 1..(Len(at.path) + 1) <=> i \in 1..Len(at.path) \/ i = Len(at.path) + 1
    BY <1>2
  <2> QED
    BY <1>4, <2>1 DEF OnIt
<1>6. W[a] \in SUBSET A /\ Q[W[a]] \in Seq(A) /\ \A b \in A : OnIt(Q[W[a]], b) <=> b \in W[a]
  BY <1>2 DEF Orders
<1>7. ASSUME Free(A, W, at.found.visited, at.path), y.cycles = <<>> PROVE Free(A, W, y.visited, at.path)
  <2>1. Free(A, W, in.found.visited, in.path)
    BY <1>1, <1>5, <1>7 DEF Free
  <2>2. Free(A, W, y.visited, in.path)
    BY <1>3, <1>7, <2>1 DEF Promise
  <2>3. \A b \in W[a] : b \in y.visited /\ ~OnIt(in.path, b)
    <3> SUFFICES ASSUME NEW b \in W[a] PROVE b \in y.visited /\ ~OnIt(in.path, b)
      OBVIOUS
    <3>1. OnIt(in.agents, b)
      BY <1>1, <1>6
    <3>2. PICK i \in 1..Len(in.agents) : in.agents[i] = b
      BY <3>1 DEF OnIt
    <3> QED
      BY <1>3, <1>7, <3>2 DEF Promise
  <2> SUFFICES ASSUME NEW S \in SUBSET A, Knot(W, S), NEW b \in S, b \in y.visited
               PROVE  OnIt(at.path, b)
    BY DEF Free
  <2>4. OnIt(in.path, b)
    BY <2>2 DEF Free
  <2>5. ASSUME b = a PROVE FALSE
    <3>1. PICK e \in W[a] : e \in S
      BY <2>5 DEF Knot
    <3>2. OnIt(in.path, e)
      BY <2>2, <2>3, <3>1 DEF Free
    <3> QED
      BY <2>3, <3>1, <3>2
  <2> QED
    BY <1>5, <2>4, <2>5
<1>8. ASSUME AlongEdges(W, at), Circles(W, at.found.cycles) PROVE Circles(W, y.cycles)
  <2>1. ASSUME NEW i \in 1..(Len(in.path) - 1) PROVE in.path[i + 1] \in W[in.path[i]]
    <3>1. CASE i = Len(at.path)
      <4>1. at.path # <<>> /\ 1 \in 1..Len(at.agents)
        BY <1>2, <2>1, <3>1
      <4>2. a \in W[at.path[Len(at.path)]]
        BY <1>2, <1>8, <4>1 DEF AlongEdges
      <4>3. i \in 1..Len(at.path)
        BY <1>2, <1>4, <2>1, <3>1
      <4> QED
        BY <1>4, <3>1, <4>2, <4>3
    <3>2. CASE i # Len(at.path)
      <4>1. i \in 1..(Len(at.path) - 1) /\ i \in 1..Len(at.path) /\ i + 1 \in 1..Len(at.path)
        BY <1>2, <1>4, <2>1, <3>2
      <4> QED
        BY <1>4, <1>8, <4>1 DEF AlongEdges
    <3> QED
      BY <3>1, <3>2
  <2>2. ASSUME NEW i \in 1..Len(in.agents) PROVE in.agents[i] \in W[in.path[Len(in.path)]]
    <3>1. in.agents[i] \in A /\ OnIt(Q[W[a]], in.agents[i])
      BY <1>1, <1>6, <2>2, ElementOfSeq DEF OnIt
    <3> QED
      BY <1>4, <1>6, <3>1
  <2>3. AlongEdges(W, in)
    BY <2>1, <2>2 DEF AlongEdges
  <2> QED
    BY <1>1, <1>3, <1>8, <2>3 DEF Promise
<1>9. y.cycles = <<>> => at.found.cycles = <<>>
  BY <1>1, <1>3 DEF Promise
<1>10. y \in FoundIn(A) /\ at.found.visited \subseteq y.visited /\ a \in y.visited
  BY <1>1, <1>3 DEF Promise
<1> QED
  BY <1>3, <1>7, <1>8, <1>9, <1>10 DEF HeadPromise, a

(* And then the others.                                                    *)
LEMMA RestPromises ==
  ASSUME NEW A, NEW W, NEW at \in Searches(A), at.agents # <<>>,
         NEW y, HeadPromise(A, W, at, y), NEW r, Promise(A, W, Rest(at, y), r)
  PROVE  Promise(A, W, at, r)
<1> DEFINE rest == Rest(at, y)
<1>1. rest.agents = Tail(at.agents) /\ rest.path = at.path /\ rest.found = y
  BY DEF Rest, Where
<1>2. Promise(A, W, rest, r)
  OBVIOUS
<1> HIDE DEF rest
<1>3. /\ Head(at.agents) = at.agents[1] /\ Len(Tail(at.agents)) = Len(at.agents) - 1
      /\ Len(at.agents) \in Nat \ {0}
      /\ \A i \in 1..Len(Tail(at.agents)) : Tail(at.agents)[i] = at.agents[i + 1]
  BY HeadIs
<1>4. r \in FoundIn(A) /\ at.found.visited \subseteq r.visited /\ y.visited \subseteq r.visited
      /\ (r.cycles = <<>> => y.cycles = <<>> /\ at.found.cycles = <<>>)
  BY <1>1, <1>2 DEF Promise, HeadPromise
<1>5. ASSUME r.cycles = <<>>, NEW i \in 1..Len(at.agents)
      PROVE  at.agents[i] \in r.visited /\ ~OnIt(at.path, at.agents[i])
  <2>1. CASE i = 1
    BY <1>3, <1>4, <1>5, <2>1 DEF HeadPromise
  <2>2. CASE i # 1
    <3>1. i - 1 \in 1..Len(Tail(at.agents)) /\ (i - 1) + 1 = i
      BY <1>3, <2>2
    <3>2. Tail(at.agents)[i - 1] = at.agents[i]
      BY <1>3, <3>1
    <3> QED
      BY <1>1, <1>2, <1>5, <3>1, <3>2 DEF Promise
  <2> QED
    BY <2>1, <2>2
<1>6. ASSUME Free(A, W, at.found.visited, at.path), r.cycles = <<>> PROVE Free(A, W, r.visited, at.path)
  BY <1>1, <1>2, <1>4, <1>6 DEF Promise, HeadPromise
<1>7. ASSUME AlongEdges(W, at), Circles(W, at.found.cycles) PROVE Circles(W, r.cycles)
  <2>1. Circles(W, y.cycles)
    BY <1>7 DEF HeadPromise
  <2>2. AlongEdges(W, rest)
    <3> SUFFICES ASSUME at.path # <<>>, NEW i \in 1..Len(rest.agents)
                 PROVE  rest.agents[i] \in W[at.path[Len(at.path)]]
      BY <1>1, <1>7 DEF AlongEdges
    <3>1. i + 1 \in 1..Len(at.agents) /\ rest.agents[i] = at.agents[i + 1]
      BY <1>1, <1>3
    <3> QED
      BY <1>7, <3>1 DEF AlongEdges
  <2> QED
    BY <1>1, <1>2, <2>1, <2>2 DEF Promise
<1> QED
  BY <1>4, <1>5, <1>6, <1>7 DEF Promise

(* Every search keeps its promise.                                         *)
LEMMA SearchPromises ==
  ASSUME NEW A, IsFiniteSet(A), NEW W \in [A -> SUBSET A], NEW Q, Orders(A, Q),
         NEW f, f = [at \in Searches(A) |-> Visit(f, W, Q, at)]
  PROVE  \A at \in Searches(A) : Promise(A, W, at, f[at])
<1> DEFINE Bad == {at \in Searches(A) : ~Promise(A, W, at, f[at])}
<1> SUFFICES ASSUME Bad # {} PROVE FALSE
  OBVIOUS
<1>1. PICK at \in Bad : \A c \in Bad : ~Before(A, c, at)
  <2>1. Bad \in SUBSET Searches(A)
    OBVIOUS
  <2> HIDE DEF Bad
  <2> QED
    BY <2>1, LeastSearch
<1>2. at \in Searches(A) /\ ~Promise(A, W, at, f[at])
  BY <1>1
<1>3. \A c \in Searches(A) : Before(A, c, at) => Promise(A, W, c, f[c])
  BY <1>1
<1>4. f[at] = Visit(f, W, Q, at)
  BY <1>2
<1> HIDE DEF Bad
<1>5. CASE at.agents = <<>>
  <2>1. f[at] = at.found /\ at.found \in FoundIn(A) /\ Len(at.agents) = 0
    BY <1>2, <1>4, <1>5 DEF Visit, Searches
  <2> QED
    BY <1>2, <2>1 DEF Promise
<1>6. CASE at.agents # <<>>
  <2> DEFINE y == AfterHead(f, W, Q, at)
  <2>1. HeadPromise(A, W, at, y)
    <3>1. CASE OnIt(at.path, Head(at.agents))
      BY <1>2, <1>6, <3>1, ReportPromises DEF AfterHead
    <3>2. CASE ~OnIt(at.path, Head(at.agents)) /\ Head(at.agents) \in at.found.visited
      BY <1>2, <1>6, <3>2, VisitedPromises DEF AfterHead
    <3>3. CASE ~OnIt(at.path, Head(at.agents)) /\ Head(at.agents) \notin at.found.visited
      <4>1. Inside(W, Q, at) \in Searches(A) /\ Before(A, Inside(W, Q, at), at)
        BY <1>2, <1>6, <3>3, InsideBefore
      <4>2. Promise(A, W, Inside(W, Q, at), f[Inside(W, Q, at)])
        BY <1>3, <4>1
      <4>3. y = f[Inside(W, Q, at)]
        BY <3>3 DEF AfterHead
      <4> QED
        BY <1>2, <1>6, <3>3, <4>2, <4>3, EnteredPromises
    <3> QED
      BY <3>1, <3>2, <3>3
  <2> HIDE DEF y
  <2>2. y \in FoundIn(A) /\ at.found.visited \subseteq y.visited
    BY <2>1 DEF HeadPromise
  <2>3. Rest(at, y) \in Searches(A) /\ Before(A, Rest(at, y), at)
    BY <1>2, <1>6, <2>2, RestBefore
  <2>4. Promise(A, W, Rest(at, y), f[Rest(at, y)])
    BY <1>3, <2>3
  <2>5. f[at] = f[Rest(at, y)]
    BY <1>4, <1>6 DEF Visit, y
  <2>6. Promise(A, W, at, f[Rest(at, y)])
    BY <1>2, <1>6, <2>1, <2>4, RestPromises
  <2> QED
    BY <1>2, <2>5, <2>6
<1> QED
  BY <1>5, <1>6

(* A function that searches, and where it begins.                          *)
IsSearch(A, W, Q, f) == f = [at \in Searches(A) |-> Visit(f, W, Q, at)]
FromAll(A, W, Q) == Where(Q[{a \in A : W[a] # {}}], <<>>, [visited |-> {}, cycles |-> <<>>])

(* The search from every agent that waits finds a cycle exactly if some    *)
(* agents wait only for each other.                                        *)
LEMMA SearchExact ==
  ASSUME NEW A, IsFiniteSet(A), NEW W \in [A -> SUBSET A], NEW Q, Orders(A, Q),
         NEW f, IsSearch(A, W, Q, f)
  PROVE  LET cs == f[FromAll(A, W, Q)].cycles
         IN  /\ cs = <<>> <=> ~\E S \in (SUBSET A) \ {{}} : Knot(W, S)
             /\ Circles(W, cs) /\ cs \in Seq(Seq(A))
<1> DEFINE cs == f[FromAll(A, W, Q)].cycles
<1> DEFINE x == [visited |-> {}, cycles |-> <<>>]
           at == Where(Q[{a \in A : W[a] # {}}], <<>>, x)
           r == f[at]
<1>1. x \in FoundIn(A) /\ x.visited = {} /\ x.cycles = <<>>
  BY DEF FoundIn
<1>2. Q[{a \in A : W[a] # {}}] \in Seq(A) /\ \A a \in A : OnIt(Q[{b \in A : W[b] # {}}], a) <=> W[a] # {}
  BY DEF Orders
<1>3. cs = r.cycles
  BY DEF FromAll
<1> HIDE DEF x
<1>4. at \in Searches(A) /\ at.path = <<>> /\ at.found = x /\ at.agents = Q[{a \in A : W[a] # {}}]
  BY <1>1, <1>2, EmptySeq DEF Where, Searches
<1> HIDE DEF at
<1>5. Promise(A, W, at, r)
  <2>1. f = [c \in Searches(A) |-> Visit(f, W, Q, c)]
    BY DEF IsSearch
  <2> QED
    BY <1>4, <2>1, SearchPromises
<1> HIDE DEF r
<1>6. \A a : ~OnIt(at.path, a)
  BY <1>4 DEF OnIt
<1>7. Circles(W, r.cycles)
  <2>1. AlongEdges(W, at)
    BY <1>4 DEF AlongEdges
  <2>2. Circles(W, at.found.cycles)
    BY <1>1, <1>4 DEF Circles
  <2> QED
    BY <1>5, <2>1, <2>2 DEF Promise
<1>8. ASSUME r.cycles = <<>>, NEW S \in SUBSET A, S # {}, Knot(W, S) PROVE FALSE
  <2>1. Free(A, W, at.found.visited, at.path)
    BY <1>1, <1>4 DEF Free
  <2>2. Free(A, W, r.visited, at.path)
    BY <1>5, <1>8, <2>1 DEF Promise
  <2>3. PICK a \in S : TRUE
    BY <1>8
  <2>4. a \in A /\ W[a] # {}
    BY <1>8, <2>3 DEF Knot
  <2>5. PICK i \in 1..Len(at.agents) : at.agents[i] = a
    BY <1>2, <1>4, <2>4 DEF OnIt
  <2>6. a \in r.visited
    BY <1>5, <1>8, <2>5 DEF Promise
  <2> QED
    BY <1>6, <1>8, <2>2, <2>3, <2>6 DEF Free
<1>9. ASSUME r.cycles # <<>> PROVE \E S \in (SUBSET A) \ {{}} : Knot(W, S)
  <2>1. r.cycles \in Seq(Seq(A))
    BY <1>5 DEF Promise, FoundIn
  <2>2. Len(r.cycles) \in Nat \ {0} /\ DOMAIN r.cycles = 1..Len(r.cycles)
    BY <1>9, <2>1, EmptySeq, LenProperties
  <2> DEFINE c == r.cycles[1]
  <2>3. c \in Seq(A) /\ Circle(W, c)
    BY <1>7, <2>1, <2>2, ElementOfSeq DEF Circles
  <2> HIDE DEF c
  <2>4. Len(c) \in Nat \ {0} /\ \A i \in 1..Len(c) : c[i] \in A
    BY <2>3, EmptySeq, LenProperties, ElementOfSeq DEF Circle
  <2> DEFINE S == {c[i] : i \in 1..Len(c)}
  <2>5. S \in (SUBSET A) \ {{}}
    <3>1. c[1] \in S
      BY <2>4
    <3>2. S \in SUBSET A
      BY <2>4
    <3> QED
      BY <3>1, <3>2
  <2>6. Knot(W, S)
    <3> SUFFICES ASSUME NEW i \in 1..Len(c) PROVE W[c[i]] \cap S # {}
      BY DEF Knot
    <3>1. (IF i = Len(c) THEN 1 ELSE i + 1) \in 1..Len(c)
      BY <2>4
    <3>2. c[IF i = Len(c) THEN 1 ELSE i + 1] \in W[c[i]]
      BY <2>3 DEF Circle
    <3> QED
      BY <3>1, <3>2
  <2> QED
    BY <2>5, <2>6
<1>10. r.cycles \in Seq(Seq(A))
  BY <1>5 DEF Promise, FoundIn
<1> QED
  BY <1>3, <1>7, <1>8, <1>9, <1>10

-----------------------------------------------------------------------------
(* The detector's search is that one.                                      *)
TakenInOrder == [S \in SUBSET DeadlockDetector!Agents |-> DeadlockDetector!InOrder(S)]

LEMMA OrderOfAgents ==
  /\ IsFiniteSet(DeadlockDetector!Agents)
  /\ Orders(DeadlockDetector!Agents, TakenInOrder)
<1> DEFINE A == DeadlockDetector!Agents
<1>1. AgentCount \in Nat
  BY WaitsAssumption DEF DeadlockDetector!DetectorAssumption
<1>2. IsFiniteSet(A)
  BY <1>1, FS_Interval DEF DeadlockDetector!Agents
<1>3. ASSUME NEW S \in SUBSET A
      PROVE  TakenInOrder[S] \in Seq(A) /\ \A a \in A : OnIt(TakenInOrder[S], a) <=> a \in S
  <2>1. IsFiniteSet(S) /\ Cardinality(S) \in Nat /\ ExistsBijection(1..Cardinality(S), S)
    BY <1>2, FS_Subset, FS_CardinalityType
  <2>2. PICK n \in Nat : n = Cardinality(S)
    BY <2>1
  <2>3. PICK b \in Bijection(1..n, S) : TRUE
    BY <2>1, <2>2 DEF ExistsBijection
  <2>4. b \in [1..n -> S] /\ \A i, j \in 1..n : b[i] = b[j] => i = j
    BY <2>3 DEF Bijection, Injection, IsInjective
  <2> DEFINE q == CHOOSE g \in [1..n -> S] : \A i, j \in DOMAIN g : g[i] = g[j] => i = j
  <2>5. q \in [1..n -> S] /\ \A i, j \in DOMAIN q : q[i] = q[j] => i = j
    BY <2>4
  <2>6. TakenInOrder[S] = q
    <3>1. DeadlockDetector!Cardinality(S) = n
      BY <2>2, DetectorCounts
    <3> QED
      BY <3>1 DEF TakenInOrder, DeadlockDetector!InOrder, DeadlockDetector!SetToSeq,
         DeadlockDetector!IsInjective
  <2> HIDE DEF q
  <2>7. q \in Seq(A) /\ Len(q) = n /\ q \in Injection(1..n, S)
    <3>1. q \in [1..n -> A]
      BY <2>5
    <3> QED
      BY <2>5, <3>1 DEF Injection, IsInjective
  <2>8. q \in Surjection(1..n, S)
    <3>1. Cardinality(1..n) = n
      <4>1. \A a, c \in Int : Cardinality(a..c) = IF a > c THEN 0 ELSE c - a + 1
        BY FS_Interval
      <4> QED
        BY <2>2, <4>1
    <3>2. Cardinality(1..n) = Cardinality(S) <=> q \in Surjection(1..n, S)
      BY <2>1, <2>7, FS_Injection
    <3> QED
      BY <2>2, <3>1, <3>2
  <2> QED
    BY <2>5, <2>6, <2>7, <2>8 DEF Surjection, OnIt
<1> QED
  BY <1>2, <1>3 DEF Orders

(* One step of dfs, as the detector has it.                                *)
Entering(f, at) ==
  IF at.agents = <<>> THEN at.found
  ELSE f[DeadlockDetector!Searching(Tail(at.agents), at.path,
           IF DeadlockDetector!OnPath(at.path, Head(at.agents))
           THEN [at.found EXCEPT !.cycles =
                   Append(@, SubSeq(at.path,
                                    DeadlockDetector!Min({i \in DOMAIN at.path : at.path[i] = Head(at.agents)}),
                                    Len(at.path)))]
           ELSE IF Head(at.agents) \in at.found.visited THEN at.found
           ELSE f[DeadlockDetector!Searching(DeadlockDetector!InOrder(waitingOn[Head(at.agents)]),
                                             Append(at.path, Head(at.agents)),
                                             [at.found EXCEPT !.visited = @ \cup {Head(at.agents)}])])]

LEMMA SameSearch ==
  ASSUME waitingOn \in [DeadlockDetector!Agents -> SUBSET DeadlockDetector!Agents], NEW f,
         NEW at \in Searches(DeadlockDetector!Agents)
  PROVE  Entering(f, at) = Visit(f, waitingOn, TakenInOrder, at)
<1> DEFINE A == DeadlockDetector!Agents
           a == Head(at.agents)
<1>1. CASE at.agents = <<>>
  BY <1>1 DEF Entering, Visit
<1>2. CASE at.agents # <<>>
  <2>1. a \in A
    BY <1>2, HeadIs
  <2>2. TakenInOrder[waitingOn[a]] = DeadlockDetector!InOrder(waitingOn[a])
    BY <2>1 DEF TakenInOrder
  <2> HIDE DEF A
  <2>3. \A s, p, x : DeadlockDetector!Searching(s, p, x) = Where(s, p, x)
    BY DEF DeadlockDetector!Searching, Where
  <2>4. DeadlockDetector!OnPath(at.path, a) <=> OnIt(at.path, a)
    BY DEF DeadlockDetector!OnPath, DeadlockDetector!Contains, OnIt
  <2>5. DeadlockDetector!Min({i \in DOMAIN at.path : at.path[i] = a}) = FirstOf(at.path, a)
    BY DEF DeadlockDetector!Min, FirstOf, PlacesOf
  <2> DEFINE old == IF DeadlockDetector!OnPath(at.path, a)
                    THEN [at.found EXCEPT !.cycles =
                            Append(@, SubSeq(at.path, DeadlockDetector!Min({i \in DOMAIN at.path : at.path[i] = a}),
                                             Len(at.path)))]
                    ELSE IF a \in at.found.visited THEN at.found
                    ELSE f[DeadlockDetector!Searching(DeadlockDetector!InOrder(waitingOn[a]), Append(at.path, a),
                                                      [at.found EXCEPT !.visited = @ \cup {a}])]
  <2>6. old = AfterHead(f, waitingOn, TakenInOrder, at)
    <3>1. CASE OnIt(at.path, a)
      <4>1. AfterHead(f, waitingOn, TakenInOrder, at) = Reported(at.path, a, at.found)
        BY <3>1 DEF AfterHead
      <4>2. old = [at.found EXCEPT !.cycles = Append(@, SubSeq(at.path, FirstOf(at.path, a), Len(at.path)))]
        <5> HIDE DEF a
        <5> QED
          BY <2>4, <2>5, <3>1
      <4> QED
        BY <4>1, <4>2 DEF Reported
    <3>2. CASE ~OnIt(at.path, a) /\ a \in at.found.visited
      BY <2>4, <3>2 DEF AfterHead
    <3>3. CASE ~OnIt(at.path, a) /\ a \notin at.found.visited
      <4>1. old = f[DeadlockDetector!Searching(DeadlockDetector!InOrder(waitingOn[a]), Append(at.path, a),
                                               [at.found EXCEPT !.visited = @ \cup {a}])]
        <5> HIDE DEF a
        <5> QED
          BY <2>4, <3>3
      <4>2. AfterHead(f, waitingOn, TakenInOrder, at) = f[Inside(waitingOn, TakenInOrder, at)]
        BY <3>3 DEF AfterHead
      <4>3. Inside(waitingOn, TakenInOrder, at)
              = Where(TakenInOrder[waitingOn[a]], Append(at.path, a), [at.found EXCEPT !.visited = @ \cup {a}])
        BY DEF Inside
      <4> HIDE DEF old, a
      <4> QED
        BY <2>2, <2>3, <4>1, <4>2, <4>3
    <3> QED
      BY <3>1, <3>2, <3>3
  <2>7. Entering(f, at) = f[DeadlockDetector!Searching(Tail(at.agents), at.path, old)]
    BY <1>2 DEF Entering
  <2>8. Visit(f, waitingOn, TakenInOrder, at) = f[Rest(at, AfterHead(f, waitingOn, TakenInOrder, at))]
    BY <1>2 DEF Visit
  <2> HIDE DEF old, a
  <2>9. DeadlockDetector!Searching(Tail(at.agents), at.path, old)
          = Rest(at, AfterHead(f, waitingOn, TakenInOrder, at))
    BY <2>6 DEF DeadlockDetector!Searching, Rest, Where
  <2> QED
    BY <2>7, <2>8, <2>9
<1> QED
  BY <1>1, <1>2

LEMMA DetectorSearches ==
  ASSUME waitingOn \in [DeadlockDetector!Agents -> SUBSET DeadlockDetector!Agents]
  PROVE  DeadlockDetector!dfs = [at \in Searches(DeadlockDetector!Agents) |->
             Visit(DeadlockDetector!dfs, waitingOn, TakenInOrder, at)]
<1>1. PICK g : g = [at \in Searches(DeadlockDetector!Agents) |-> Visit(g, waitingOn, TakenInOrder, at)]
  BY OrderOfAgents, SearchExists
<1>2. DeadlockDetector!Search = Searches(DeadlockDetector!Agents)
  BY DEF DeadlockDetector!Search, DeadlockDetector!Found, Searches, FoundIn
<1>3. \A f : [at \in DeadlockDetector!Search |-> Entering(f, at)]
               = [at \in Searches(DeadlockDetector!Agents) |-> Visit(f, waitingOn, TakenInOrder, at)]
  <2> SUFFICES ASSUME NEW f
               PROVE  [at \in DeadlockDetector!Search |-> Entering(f, at)]
                        = [at \in Searches(DeadlockDetector!Agents) |-> Visit(f, waitingOn, TakenInOrder, at)]
    OBVIOUS
  <2>1. \A at \in Searches(DeadlockDetector!Agents) : Entering(f, at) = Visit(f, waitingOn, TakenInOrder, at)
    BY SameSearch
  <2> QED
    BY <1>2, <2>1
<1>4. g = [at \in DeadlockDetector!Search |-> Entering(g, at)]
  BY <1>1, <1>3
<1>5. DeadlockDetector!dfs = [at \in DeadlockDetector!Search |-> Entering(DeadlockDetector!dfs, at)]
  <2> HIDE <1>1
  <2> QED
    BY <1>4, Zenon DEF DeadlockDetector!dfs, Entering
<1> QED
  BY <1>3, <1>5

LEMMA SearchHolds == DeadlockDetector!TypeOK => SearchIsExact
<1> SUFFICES ASSUME DeadlockDetector!TypeOK PROVE SearchIsExact
  OBVIOUS
<1> DEFINE A == DeadlockDetector!Agents
           cs == DeadlockDetector!FindCycles
<1>1. waitingOn \in [A -> SUBSET A]
  BY DEF DeadlockDetector!TypeOK
<1>2. DeadlockDetector!dfs = [at \in Searches(A) |-> Visit(DeadlockDetector!dfs, waitingOn, TakenInOrder, at)]
  BY <1>1, DetectorSearches
<1>3. cs = DeadlockDetector!dfs[Where(TakenInOrder[{a \in A : waitingOn[a] # {}}], <<>>,
                                      [visited |-> {}, cycles |-> <<>>])].cycles
  <2>1. TakenInOrder[{a \in A : waitingOn[a] # {}}] = DeadlockDetector!InOrder({a \in A : waitingOn[a] # {}})
    BY DEF TakenInOrder
  <2> HIDE DEF A
  <2> QED
    BY <2>1 DEF DeadlockDetector!FindCycles, DeadlockDetector!Searching, Where, A
<1> HIDE DEF cs
<1>4. /\ cs = <<>> <=> ~\E S \in (SUBSET A) \ {{}} : Knot(waitingOn, S)
      /\ Circles(waitingOn, cs) /\ cs \in Seq(Seq(A))
  <2> DEFINE f == DeadlockDetector!dfs
  <2>1. IsSearch(A, waitingOn, TakenInOrder, f)
    BY <1>2 DEF IsSearch
  <2>2. cs = f[FromAll(A, waitingOn, TakenInOrder)].cycles
    BY <1>3 DEF FromAll
  <2>3. IsFiniteSet(A) /\ Orders(A, TakenInOrder)
    BY OrderOfAgents
  <2> HIDE DEF f, A
  <2> QED
    BY <1>1, <2>1, <2>2, <2>3, SearchExact, Zenon
<1>5. cs = <<>> <=> ~DeadlockDetector!Deadlocked
  BY <1>4 DEF DeadlockDetector!Deadlocked, Knot
<1>6. \A n \in DOMAIN cs : \A i \in DOMAIN cs[n] :
         cs[n][IF i = Len(cs[n]) THEN 1 ELSE i + 1] \in waitingOn[cs[n][i]]
  <2> SUFFICES ASSUME NEW n \in DOMAIN cs, NEW i \in DOMAIN cs[n]
               PROVE  cs[n][IF i = Len(cs[n]) THEN 1 ELSE i + 1] \in waitingOn[cs[n][i]]
    OBVIOUS
  <2>1. n \in 1..Len(cs) /\ Circle(waitingOn, cs[n])
    BY <1>4, LenProperties DEF Circles
  <2>2. cs[n] \in Seq(A)
    BY <1>4, <2>1, ElementOfSeq
  <2>3. i \in 1..Len(cs[n])
    BY <2>2, LenProperties
  <2> QED
    BY <2>1, <2>3 DEF Circle
<1> QED
  BY <1>5, <1>6 DEF SearchIsExact, DeadlockDetector!SearchIsExact, cs

-----------------------------------------------------------------------------
(* The memory of an agent.                                                 *)

RecentEntry == [role : {"user", "other"}, tokens : 1..2]

(* The tokens of some entries, and how many they are.                      *)
TokensOf(s) == {p \in (1..Len(s)) \X (1..2) : p[2] <= s[p[1]].tokens}
WeightOf(s) == Cardinality(TokensOf(s))

BufferIInv ==
  /\ recent \in Seq(RecentEntry) /\ system \in 0..2 /\ totalTokens \in Nat
  /\ WeightOf(recent) + system <= totalTokens
  /\ totalTokens > MaxRecentTokens => Len(recent) <= RecentTurns \/ system # 0

EpisodesIInv ==
  /\ \E S : episodes \in Seq(S)
  /\ Len(episodes) <= MaxEpisodes
  /\ \A e \in embeddings : \E i \in 1..Len(episodes) : episodes[i] = e

(* A memory that is to be inserted yet.                                    *)
Fresh(m) == m > added \/ \E j \in jobs : j.kind = "add" /\ j.id = m

(* The memories that are there.                                            *)
Kept == {m \in 1..MaxMemories : memories[m].there}

(* A consolidation under way, as the record it is.                         *)
PlanOf(j) == [kind |-> "consolidate", id |-> 0, tags |-> {}, left |-> j.left, summarised |-> j.summarised]

JobsTyped ==
  /\ \A j \in jobs : j.kind = "consolidate" => j = PlanOf(j)
  /\ \A j \in jobs : j.kind \in {"add", "update"} => j.id \in 1..added /\ j.tags \in SUBSET Tags
  /\ \A j, k \in jobs : j.kind = "add" /\ k.kind = "add" /\ j.id = k.id => j = k
  /\ \A j \in jobs : j.kind = "update" => ~Fresh(j.id)

MemoriesTyped ==
  /\ added \in 0..MaxMemories /\ calls \in 0..MaxCalls
  /\ memories \in [1..MaxMemories -> [there : BOOLEAN, tags : SUBSET Tags]]
  /\ tagsIndex \in [Tags -> SUBSET (1..MaxMemories)] /\ vectors \in SUBSET (1..MaxMemories)

Indexed ==
  /\ \A t \in Tags : \A m \in 1..MaxMemories :
        memories[m].there => (m \in tagsIndex[t] <=> t \in memories[m].tags)
  /\ \A m \in 1..MaxMemories : Fresh(m) => ~memories[m].there /\ \A t \in Tags : m \notin tagsIndex[t]

LongTermIInv == MemoriesTyped /\ JobsTyped /\ Indexed /\ total = Cardinality(Kept)

AgentMemoryIInv == BufferIInv /\ EpisodesIInv /\ LongTermIInv

LEMMA MemoryBounds ==
  /\ MaxRecentTokens \in Nat /\ RecentTurns \in Nat /\ MaxEpisodes \in Nat \ {0}
  /\ MaxMemories \in Nat /\ MaxCalls \in Nat
BY WaitsAssumption DEF AgentMemory!MemoryAssumption

LEMMA MemoryCounts == \A S : AgentMemory!Cardinality(S) = Cardinality(S)
BY DEF AgentMemory!Cardinality, Cardinality

LEMMA TokensFinite ==
  ASSUME NEW s \in Seq(RecentEntry)
  PROVE  IsFiniteSet(TokensOf(s)) /\ WeightOf(s) \in Nat
<1>1. IsFiniteSet(1..Len(s)) /\ IsFiniteSet(1..2)
  <2>1. Len(s) \in Int /\ 1 \in Int /\ 2 \in Int
    OBVIOUS
  <2>2. \A a, b \in Int : IsFiniteSet(a..b)
    BY FS_Interval
  <2> QED
    BY <2>1, <2>2
<1>2. IsFiniteSet((1..Len(s)) \X (1..2))
  BY <1>1, FS_Product
<1>3. TokensOf(s) \in SUBSET ((1..Len(s)) \X (1..2))
  BY DEF TokensOf
<1> QED
  BY <1>2, <1>3, FS_Subset, FS_CardinalityType DEF WeightOf

LEMMA WeightOfNone == WeightOf(<<>>) = 0
<1>1. TokensOf(<<>>) = {}
  BY DEF TokensOf
<1> QED
  BY <1>1, FS_EmptySet DEF WeightOf

LEMMA WeightAppended ==
  ASSUME NEW s \in Seq(RecentEntry), NEW e \in RecentEntry
  PROVE  WeightOf(Append(s, e)) = WeightOf(s) + e.tokens
<1> DEFINE n == Len(s) + 1
           one == TokensOf(s) \cup {<<n, 1>>}
<1>1. /\ Len(s) \in Nat /\ Len(Append(s, e)) = n
      /\ Append(s, e)[n] = e /\ \A i \in 1..Len(s) : Append(s, e)[i] = s[i]
  BY AppendProperties
<1>2. e.tokens = 1 \/ e.tokens = 2
  BY DEF RecentEntry
<1>3. \A p \in (1..n) \X (1..2) : p = <<p[1], p[2]>>
  OBVIOUS
<1>4. \A p \in TokensOf(s) : p[1] # n
  BY <1>1 DEF TokensOf
<1>5. <<n, 1>> \notin TokensOf(s) /\ <<n, 2>> \notin one
  BY <1>4
<1>6. IsFiniteSet(TokensOf(s)) /\ Cardinality(TokensOf(s)) \in Nat
  BY TokensFinite DEF WeightOf
<1>7. IsFiniteSet(one) /\ Cardinality(one) = Cardinality(TokensOf(s)) + 1
  BY <1>5, <1>6, FS_AddElement
<1>8. Cardinality(one \cup {<<n, 2>>}) = Cardinality(TokensOf(s)) + 2
  <2> HIDE DEF one
  <2>1. Cardinality(one \cup {<<n, 2>>}) = Cardinality(one) + 1
    BY <1>5, <1>7, FS_AddElement
  <2> QED
    BY <1>6, <1>7, <2>1
<1>9. CASE e.tokens = 1
  <2>1. TokensOf(Append(s, e)) = one
    BY <1>1, <1>9 DEF TokensOf
  <2> QED
    BY <1>7, <1>9, <2>1 DEF WeightOf
<1>10. CASE e.tokens = 2
  <2>1. TokensOf(Append(s, e)) = one \cup {<<n, 2>>}
    BY <1>1, <1>10 DEF TokensOf
  <2> QED
    BY <1>8, <1>10, <2>1 DEF WeightOf
<1> QED
  BY <1>2, <1>9, <1>10

(* What goes and what stays weigh together what there was.                 *)
LEMMA WeightSplit ==
  ASSUME NEW s \in Seq(RecentEntry), NEW n \in 0..Len(s)
  PROVE  /\ SubSeq(s, 1, n) \in Seq(RecentEntry) /\ SubSeq(s, n + 1, Len(s)) \in Seq(RecentEntry)
         /\ Len(SubSeq(s, n + 1, Len(s))) = Len(s) - n
         /\ WeightOf(s) = WeightOf(SubSeq(s, 1, n)) + WeightOf(SubSeq(s, n + 1, Len(s)))
<1> DEFINE gone == SubSeq(s, 1, n)
           kept == SubSeq(s, n + 1, Len(s))
           A == {p \in TokensOf(s) : p[1] <= n}
           B == {p \in TokensOf(s) : p[1] > n}
<1>0. Len(s) \in Nat /\ n \in Nat /\ n <= Len(s)
  OBVIOUS
<1>1. \A i \in 1..Len(s) : s[i] \in RecentEntry
  BY ElementOfSeq
<1>2. gone \in Seq(RecentEntry) /\ Len(gone) = n /\ \A i \in 1..n : gone[i] = s[i]
  <2>1. \A i \in 1..n : s[i] \in RecentEntry
    BY <1>0, <1>1
  <2>2. /\ gone \in Seq(RecentEntry) /\ Len(gone) = IF 1 <= n THEN n - 1 + 1 ELSE 0
        /\ \A i \in 1..(n - 1 + 1) : gone[i] = s[1 + i - 1]
    BY <1>0, <2>1, SubSeqProperties
  <2> QED
    BY <1>0, <2>2
<1>3. kept \in Seq(RecentEntry) /\ Len(kept) = Len(s) - n /\ \A i \in 1..(Len(s) - n) : kept[i] = s[n + i]
  <2>1. \A i \in (n + 1)..Len(s) : s[i] \in RecentEntry
    BY <1>0, <1>1
  <2>2. /\ kept \in Seq(RecentEntry) /\ Len(kept) = IF n + 1 <= Len(s) THEN Len(s) - (n + 1) + 1 ELSE 0
        /\ \A i \in 1..(Len(s) - (n + 1) + 1) : kept[i] = s[(n + 1) + i - 1]
    BY <1>0, <2>1, SubSeqProperties
  <2> QED
    BY <1>0, <2>2
<1> HIDE DEF gone, kept
<1>4. A = TokensOf(gone)
  BY <1>0, <1>2 DEF TokensOf
<1>5. Cardinality(B) = Cardinality(TokensOf(kept))
  <2> DEFINE f == [p \in TokensOf(kept) |-> <<p[1] + n, p[2]>>]
  <2>1. \A p \in TokensOf(kept) : p[1] \in 1..(Len(s) - n) /\ p[2] \in 1..2 /\ p[2] <= s[n + p[1]].tokens /\ p = <<p[1], p[2]>>
    <3> SUFFICES ASSUME NEW p \in TokensOf(kept)
                 PROVE  /\ p[1] \in 1..(Len(s) - n) /\ p[2] \in 1..2
                        /\ p[2] <= s[n + p[1]].tokens /\ p = <<p[1], p[2]>>
      OBVIOUS
    <3>1. p \in (1..Len(kept)) \X (1..2) /\ p[2] <= kept[p[1]].tokens
      BY DEF TokensOf
    <3>2. p[1] \in 1..(Len(s) - n) /\ p[2] \in 1..2 /\ p = <<p[1], p[2]>>
      BY <1>3, <3>1
    <3>3. kept[p[1]] = s[n + p[1]]
      BY <1>3, <3>2
    <3> QED
      BY <3>1, <3>2, <3>3
  <2>2. ASSUME NEW p \in TokensOf(kept) PROVE f[p] \in B
    <3>1. p[1] + n \in 1..Len(s) /\ p[1] + n > n /\ n + p[1] = p[1] + n
      BY <1>0, <2>1
    <3> QED
      BY <2>1, <3>1 DEF TokensOf
  <2>3. ASSUME NEW p \in TokensOf(kept), NEW q \in TokensOf(kept), f[p] = f[q] PROVE p = q
    <3>1. p[1] + n = q[1] + n /\ p[2] = q[2]
      BY <2>3
    <3>2. p[1] = q[1]
      BY <1>0, <2>1, <3>1
    <3> QED
      BY <2>1, <3>1, <3>2
  <2>4. ASSUME NEW q \in B PROVE \E p \in TokensOf(kept) : f[p] = q
    <3> DEFINE p == <<q[1] - n, q[2]>>
    <3>1. q[1] \in 1..Len(s) /\ q[1] > n /\ q[2] \in 1..2 /\ q[2] <= s[q[1]].tokens /\ q = <<q[1], q[2]>>
      BY DEF TokensOf
    <3>2. q[1] - n \in 1..(Len(s) - n) /\ n + (q[1] - n) = q[1] /\ (q[1] - n) + n = q[1]
      BY <1>0, <3>1
    <3>3. p \in TokensOf(kept)
      BY <1>3, <3>1, <3>2 DEF TokensOf
    <3> QED
      BY <3>1, <3>2, <3>3
  <2>5. f \in Bijection(TokensOf(kept), B)
    <3> HIDE DEF B
    <3>1. f \in [TokensOf(kept) -> B]
      BY <2>2
    <3> HIDE DEF f
    <3> QED
      BY <2>3, <2>4, <3>1 DEF Bijection, Injection, Surjection, IsInjective
  <2>6. ExistsBijection(TokensOf(kept), B)
    BY <2>5 DEF ExistsBijection
  <2> HIDE DEF B
  <2> QED
    BY <1>3, <2>6, TokensFinite, FS_Bijection
<1>6. IsFiniteSet(A) /\ IsFiniteSet(B) /\ A \cap B = {} /\ TokensOf(s) = A \cup B
  <2>1. IsFiniteSet(TokensOf(s)) /\ A \subseteq TokensOf(s) /\ B \subseteq TokensOf(s)
    BY TokensFinite
  <2>2. \A p \in TokensOf(s) : p[1] \in Nat
    BY DEF TokensOf
  <2>3. A \cap B = {} /\ TokensOf(s) = A \cup B
    BY <1>0, <2>2
  <2> HIDE DEF A, B
  <2> QED
    BY <2>1, <2>3, FS_Subset
<1>7. Cardinality(TokensOf(s)) = Cardinality(A) + Cardinality(B)
  <2> HIDE DEF A, B
  <2>1. Cardinality(A \cup B) = Cardinality(A) + Cardinality(B) - Cardinality(A \cap B)
    BY <1>6, FS_Union
  <2>2. Cardinality(A) \in Nat /\ Cardinality(B) \in Nat /\ Cardinality(A \cap B) = 0
    BY <1>6, FS_CardinalityType, FS_EmptySet
  <2> QED
    BY <1>6, <2>1, <2>2
<1> QED
  BY <1>2, <1>3, <1>4, <1>5, <1>7 DEF WeightOf, gone, kept

LEMMA AgentMemoryStarts == AgentMemory!Init => AgentMemoryIInv
<1> SUFFICES ASSUME AgentMemory!Init PROVE AgentMemoryIInv
  OBVIOUS
<1> USE DEF AgentMemory!Init
<1>1. BufferIInv
  <2>1. recent \in Seq(RecentEntry) /\ Len(recent) = 0 /\ WeightOf(recent) = 0
    BY WeightOfNone
  <2> QED
    BY <2>1, MemoryBounds DEF BufferIInv
<1>2. EpisodesIInv
  <2>1. episodes \in Seq({}) /\ Len(episodes) = 0 /\ embeddings = {}
    OBVIOUS
  <2> QED
    BY <2>1, MemoryBounds DEF EpisodesIInv
<1>3. LongTermIInv
  <2>1. MemoriesTyped
    BY MemoryBounds DEF MemoriesTyped, AgentMemory!Ids
  <2>2. JobsTyped /\ Indexed
    BY DEF JobsTyped, Indexed, AgentMemory!Ids
  <2>3. Kept = {}
    BY DEF Kept, AgentMemory!Ids
  <2> QED
    BY <2>1, <2>2, <2>3, FS_EmptySet DEF LongTermIInv
<1> QED
  BY <1>1, <1>2, <1>3 DEF AgentMemoryIInv

(* The buffer: a message in, and what does not fit out.                    *)
LEMMA MessagesIn == BufferIInv /\ AgentMemory!AddMessage => BufferIInv'
<1> SUFFICES ASSUME BufferIInv, AgentMemory!AddMessage PROVE BufferIInv'
  OBVIOUS
<1> USE MemoryBounds
<1>1. WeightOf(recent) \in Nat /\ Len(recent) \in Nat
  BY TokensFinite DEF BufferIInv
<1>2. CASE \E t \in AgentMemory!Tokens : system' = t /\ totalTokens' = totalTokens + t /\ UNCHANGED recent
  BY <1>1, <1>2 DEF BufferIInv, AgentMemory!Tokens
<1>3. ASSUME NEW e \in AgentMemory!Entry,
             LET entries == Append(recent, e)
                 n == AgentMemory!Evicted(entries, totalTokens + e.tokens)
             IN  /\ recent' = SubSeq(entries, n + 1, Len(entries))
                 /\ totalTokens' = (totalTokens + e.tokens) - AgentMemory!Weight(SubSeq(entries, 1, n))
                 /\ UNCHANGED system
      PROVE  BufferIInv'
  <2> DEFINE entries == Append(recent, e)
             sum == totalTokens + e.tokens
             Fits(n) == sum - WeightOf(SubSeq(entries, 1, n)) <= MaxRecentTokens \/ Len(entries) - n <= RecentTurns
             S == {n \in 0..Len(entries) : Fits(n)}
  <2>1. e \in RecentEntry /\ e.tokens \in 1..2
    BY DEF RecentEntry, AgentMemory!Entry, AgentMemory!Tokens
  <2>2. entries \in Seq(RecentEntry) /\ Len(entries) = Len(recent) + 1 /\ WeightOf(entries) = WeightOf(recent) + e.tokens
    BY <2>1, AppendProperties, WeightAppended DEF BufferIInv
  <2>3. \E n \in S : /\ recent' = SubSeq(entries, n + 1, Len(entries))
                    /\ totalTokens' = sum - WeightOf(SubSeq(entries, 1, n))
                    /\ system' = system
    <3> DEFINE k == AgentMemory!Evicted(entries, sum)
    <3>1. S \in SUBSET Nat /\ Len(entries) \in S
      BY <1>1, <2>2
    <3>2. PICK m \in S : \A y \in S : m <= y
      BY <3>1, LeastIn
    <3>3. k \in S
      BY <3>2, MemoryCounts DEF AgentMemory!Evicted, AgentMemory!Min, AgentMemory!Weight, AgentMemory!Tokens, WeightOf, TokensOf
    <3>4. recent' = SubSeq(entries, k + 1, Len(entries)) /\ system' = system
      BY <1>3, Zenon
    <3>5. totalTokens' = sum - AgentMemory!Weight(SubSeq(entries, 1, k))
      BY <1>3, Zenon
    <3>6. \A s : AgentMemory!Weight(s) = WeightOf(s)
      BY MemoryCounts DEF AgentMemory!Weight, AgentMemory!Tokens, WeightOf, TokensOf
    <3> HIDE DEF S, entries, sum, k
    <3> QED
      BY <3>3, <3>4, <3>5, <3>6
  <2>10. PICK n \in S : /\ recent' = SubSeq(entries, n + 1, Len(entries))
                       /\ totalTokens' = sum - WeightOf(SubSeq(entries, 1, n))
                       /\ system' = system
    BY <2>3, Zenon
  <2> HIDE DEF entries
  <2>4. n \in 0..Len(entries) /\ Fits(n)
    OBVIOUS
  <2>5. /\ recent' \in Seq(RecentEntry) /\ Len(recent') = Len(entries) - n
        /\ WeightOf(entries) = WeightOf(SubSeq(entries, 1, n)) + WeightOf(recent')
        /\ WeightOf(SubSeq(entries, 1, n)) \in Nat /\ WeightOf(recent') \in Nat
    BY <2>2, <2>10, <2>4, WeightSplit, TokensFinite
  <2>6. totalTokens' \in Nat /\ WeightOf(recent') + system' <= totalTokens'
    <3> DEFINE was == WeightOf(recent)
               out == WeightOf(SubSeq(entries, 1, n))
               stays == WeightOf(recent')
               more == e.tokens
    <3>1. /\ totalTokens \in Nat /\ system \in Nat /\ more \in Nat /\ system' = system
          /\ was + system <= totalTokens /\ was \in Nat
      BY <1>1, <2>1, <2>10 DEF BufferIInv
    <3>2. totalTokens' = (totalTokens + more) - out
      BY <2>10, Zenon
    <3>3. was + more = out + stays
      BY <2>2, <2>5, Zenon
    <3>4. out \in Nat /\ stays \in Nat
      BY <2>5
    <3> HIDE DEF was, out, stays, more
    <3>5. totalTokens' \in Nat /\ stays + system' <= totalTokens'
      BY <3>1, <3>2, <3>3, <3>4
    <3> QED
      BY <3>5 DEF stays
  <2>7. WeightOf(recent)' = WeightOf(recent')
    BY DEF WeightOf, TokensOf
  <2> QED
    BY <1>1, <2>2, <2>10, <2>4, <2>5, <2>6, <2>7 DEF BufferIInv
<1> QED
  BY <1>2, <1>3 DEF AgentMemory!AddMessage

LEMMA BufferSteps == BufferIInv /\ [AgentMemory!Next]_(AgentMemory!vars) => BufferIInv'
<1> SUFFICES ASSUME BufferIInv, [AgentMemory!Next]_(AgentMemory!vars) PROVE BufferIInv'
  OBVIOUS
<1>1. CASE UNCHANGED <<recent, system, totalTokens>>
  BY <1>1 DEF BufferIInv, WeightOf, TokensOf
<1>2. CASE AgentMemory!ClearExceptSystem
  <2>1. recent' = <<>> /\ totalTokens' = system /\ system' = system
    BY <1>2 DEF AgentMemory!ClearExceptSystem
  <2>2. WeightOf(recent)' = 0 /\ Len(recent') = 0 /\ recent' \in Seq(RecentEntry)
    BY <2>1, WeightOfNone DEF WeightOf, TokensOf
  <2> QED
    BY <2>1, <2>2, MemoryBounds DEF BufferIInv
<1>3. CASE AgentMemory!ClearAll
  <2>1. recent' = <<>> /\ totalTokens' = 0 /\ system' = 0
    BY <1>3 DEF AgentMemory!ClearAll
  <2>2. WeightOf(recent)' = 0 /\ Len(recent') = 0 /\ recent' \in Seq(RecentEntry)
    BY <2>1, WeightOfNone DEF WeightOf, TokensOf
  <2> QED
    BY <2>1, <2>2, MemoryBounds DEF BufferIInv
<1> QED
  BY <1>1, <1>2, <1>3, MessagesIn DEF AgentMemory!Next, AgentMemory!vars, AgentMemory!stm, AgentMemory!AddMemory,
     AgentMemory!UpdateAfterTask, AgentMemory!Consolidate, AgentMemory!Update, AgentMemory!Forget,
     AgentMemory!Prune, AgentMemory!Added, AgentMemory!Updated, AgentMemory!Consolidating

(* The episodes: the oldest out with its embedding when there are too many. *)
LEMMA TaskRemembered == EpisodesIInv /\ AgentMemory!UpdateAfterTask => EpisodesIInv'
<1> SUFFICES ASSUME EpisodesIInv, AgentMemory!UpdateAfterTask PROVE EpisodesIInv'
  OBVIOUS
<1>1. PICK id, new :
        /\ new = {} \/ new = {id}
        /\ episodes' = IF Len(episodes) + 1 > MaxEpisodes THEN Tail(Append(episodes, id)) ELSE Append(episodes, id)
        /\ embeddings' = (embeddings \cup new) \ (IF Len(episodes) + 1 > MaxEpisodes THEN {Head(episodes)} ELSE {})
  BY Zenon DEF AgentMemory!UpdateAfterTask
<1>2. PICK S : episodes \in Seq(S)
  BY DEF EpisodesIInv
<1>3. episodes \in Seq(S \cup {id})
  BY <1>2, SeqMonotonic
<1> DEFINE more == Append(episodes, id)
<1>4. /\ more \in Seq(S \cup {id}) /\ Len(more) = Len(episodes) + 1 /\ Len(episodes) \in Nat
      /\ more[Len(episodes) + 1] = id /\ \A i \in 1..Len(episodes) : more[i] = episodes[i]
  BY <1>3, AppendProperties
<1> HIDE DEF more
<1>5. CASE Len(episodes) + 1 > MaxEpisodes
  <2>1. Len(episodes) = MaxEpisodes /\ MaxEpisodes \in Nat /\ MaxEpisodes >= 1
    BY <1>4, <1>5, MemoryBounds DEF EpisodesIInv
  <2>2. episodes' = Tail(more) /\ embeddings' = (embeddings \cup new) \ {Head(episodes)}
    BY <1>1, <1>5 DEF more
  <2>3. more # <<>> /\ Head(episodes) = episodes[1]
    BY <1>3, <1>4, <2>1
  <2>4. /\ Tail(more) \in Seq(S \cup {id}) /\ Len(Tail(more)) = Len(more) - 1
        /\ \A i \in 1..(Len(more) - 1) : Tail(more)[i] = more[i + 1]
    BY <1>4, <2>3, HeadTailProperties
  <2>5. ASSUME NEW e \in embeddings' PROVE \E i \in 1..Len(episodes') : episodes'[i] = e
    <3>1. e # episodes[1] /\ (e = id \/ e \in embeddings)
      BY <1>1, <2>2, <2>3
    <3>2. CASE e = id
      <4>1. MaxEpisodes \in 1..Len(episodes') /\ episodes'[MaxEpisodes] = more[MaxEpisodes + 1]
        BY <1>4, <2>1, <2>2, <2>4
      <4> QED
        BY <1>4, <2>1, <3>2, <4>1
    <3>3. CASE e \in embeddings
      <4>1. PICK i \in 1..Len(episodes) : episodes[i] = e
        BY <3>3 DEF EpisodesIInv
      <4>2. i - 1 \in 1..Len(episodes') /\ episodes'[i - 1] = more[(i - 1) + 1] /\ (i - 1) + 1 = i
        BY <1>4, <2>1, <2>2, <2>4, <3>1, <4>1
      <4>3. episodes'[i - 1] = e
        BY <1>4, <4>1, <4>2
      <4> QED
        BY <4>2, <4>3
    <3> QED
      BY <3>1, <3>2, <3>3
  <2>6. episodes' \in Seq(S \cup {id}) /\ Len(episodes') <= MaxEpisodes
    BY <1>4, <2>1, <2>2, <2>4
  <2> QED
    BY <2>5, <2>6 DEF EpisodesIInv
<1>6. CASE ~(Len(episodes) + 1 > MaxEpisodes)
  <2>1. episodes' = more /\ embeddings' = embeddings \cup new
    BY <1>1, <1>6 DEF more
  <2>2. ASSUME NEW e \in embeddings' PROVE \E i \in 1..Len(episodes') : episodes'[i] = e
    <3>1. CASE e = id
      BY <1>4, <2>1, <3>1
    <3>2. CASE e \in embeddings
      <4>1. PICK i \in 1..Len(episodes) : episodes[i] = e
        BY <3>2 DEF EpisodesIInv
      <4> QED
        BY <1>4, <2>1, <4>1
    <3> QED
      BY <1>1, <2>1, <3>1, <3>2
  <2>3. episodes' \in Seq(S \cup {id}) /\ Len(episodes') <= MaxEpisodes
    BY <1>4, <1>6, <2>1, MemoryBounds
  <2> QED
    BY <2>2, <2>3 DEF EpisodesIInv
<1> QED
  BY <1>5, <1>6

LEMMA EpisodesPruned ==
  ASSUME EpisodesIInv, NEW n \in 1..MaxEpisodes, AgentMemory!Prune(n)
  PROVE  EpisodesIInv'
<1>1. /\ n \in 1..Len(episodes)
      /\ episodes' = SubSeq(episodes, n + 1, Len(episodes))
      /\ embeddings' = embeddings \ {episodes[i] : i \in 1..n}
  BY DEF AgentMemory!Prune
<1>2. PICK S : episodes \in Seq(S)
  BY DEF EpisodesIInv
<1>3. Len(episodes) \in Nat /\ n \in Nat /\ 1 <= n /\ n <= Len(episodes)
  BY <1>1, <1>2
<1>4. /\ episodes' \in Seq(S) /\ Len(episodes') = Len(episodes) - n
      /\ \A i \in 1..(Len(episodes) - n) : episodes'[i] = episodes[n + i]
  <2>1. \A i \in (n + 1)..Len(episodes) : episodes[i] \in S
    BY <1>2, <1>3, ElementOfSeq
  <2>2. /\ episodes' \in Seq(S)
        /\ Len(episodes') = IF n + 1 <= Len(episodes) THEN Len(episodes) - (n + 1) + 1 ELSE 0
        /\ \A i \in 1..(Len(episodes) - (n + 1) + 1) : episodes'[i] = episodes[(n + 1) + i - 1]
    BY <1>1, <1>3, <2>1, SubSeqProperties
  <2> QED
    BY <1>3, <2>2
<1>5. ASSUME NEW e \in embeddings' PROVE \E i \in 1..Len(episodes') : episodes'[i] = e
  <2>1. PICK i \in 1..Len(episodes) : episodes[i] = e
    BY <1>1 DEF EpisodesIInv
  <2>2. i \notin 1..n
    BY <1>1, <2>1
  <2>3. i - n \in 1..(Len(episodes) - n) /\ n + (i - n) = i
    BY <1>3, <2>1, <2>2
  <2> QED
    BY <1>4, <2>1, <2>3
<1>6. Len(episodes') <= MaxEpisodes
  BY <1>3, <1>4, MemoryBounds DEF EpisodesIInv
<1> QED
  BY <1>4, <1>5, <1>6 DEF EpisodesIInv

LEMMA EpisodesSteps == EpisodesIInv /\ [AgentMemory!Next]_(AgentMemory!vars) => EpisodesIInv'
<1> SUFFICES ASSUME EpisodesIInv, [AgentMemory!Next]_(AgentMemory!vars) PROVE EpisodesIInv'
  OBVIOUS
<1>1. CASE UNCHANGED <<episodes, embeddings>>
  BY <1>1 DEF EpisodesIInv
<1>2. CASE AgentMemory!ClearAll
  <2>1. episodes' = <<>> /\ embeddings' = {}
    BY <1>2 DEF AgentMemory!ClearAll
  <2>2. episodes' \in Seq({}) /\ Len(episodes') = 0
    BY <2>1
  <2> QED
    BY <2>1, <2>2, MemoryBounds DEF EpisodesIInv
<1> QED
  BY <1>1, <1>2, TaskRemembered, EpisodesPruned DEF AgentMemory!Next, AgentMemory!vars, AgentMemory!epm, AgentMemory!AddMemory,
     AgentMemory!AddMessage, AgentMemory!ClearExceptSystem, AgentMemory!Consolidate, AgentMemory!Update, AgentMemory!Forget,
     AgentMemory!Added, AgentMemory!Updated, AgentMemory!Consolidating

(* A memory goes in: one that was to be inserted, and is no more.          *)
LEMMA MemoryInserted ==
  ASSUME LongTermIInv, NEW m \in 1..MaxMemories, NEW tags \in SUBSET Tags, Fresh(m),
         memories' = [memories EXCEPT ![m] = [there |-> TRUE, tags |-> tags]],
         tagsIndex' = [t \in Tags |-> IF t \in tags THEN tagsIndex[t] \cup {m} ELSE tagsIndex[t]],
         total' = total + 1,
         vectors' \in {vectors, vectors \cup {m}},
         added' \in 0..MaxMemories, calls' \in 0..MaxCalls, JobsTyped',
         \A k \in 1..MaxMemories : Fresh(k)' => Fresh(k) /\ k # m
  PROVE  LongTermIInv'
<1>0. ~memories[m].there /\ \A t \in Tags : m \notin tagsIndex[t]
  BY DEF LongTermIInv, Indexed
<1>1. MemoriesTyped'
  <2>1. [there |-> TRUE, tags |-> tags] \in [there : BOOLEAN, tags : SUBSET Tags]
    OBVIOUS
  <2>2. memories' \in [1..MaxMemories -> [there : BOOLEAN, tags : SUBSET Tags]]
    BY <2>1 DEF LongTermIInv, MemoriesTyped
  <2>3. tagsIndex' \in [Tags -> SUBSET (1..MaxMemories)]
    <3>1. \A t \in Tags : tagsIndex[t] \in SUBSET (1..MaxMemories)
      BY DEF LongTermIInv, MemoriesTyped
    <3> QED
      BY <3>1
  <2>4. vectors' \in SUBSET (1..MaxMemories)
    BY DEF LongTermIInv, MemoriesTyped
  <2> QED
    BY <2>2, <2>3, <2>4 DEF MemoriesTyped
<1>2. /\ memories'[m].there /\ memories'[m].tags = tags
      /\ \A k \in 1..MaxMemories : k # m => memories'[k] = memories[k]
  BY DEF LongTermIInv, MemoriesTyped
<1>3. /\ \A t \in Tags : m \in tagsIndex'[t] <=> t \in tags
      /\ \A t \in Tags : \A k \in 1..MaxMemories : k # m => (k \in tagsIndex'[t] <=> k \in tagsIndex[t])
  BY <1>0
<1>4. Indexed'
  <2>1. ASSUME NEW t \in Tags, NEW k \in 1..MaxMemories, memories'[k].there
        PROVE  k \in tagsIndex'[t] <=> t \in memories'[k].tags
    BY <1>2, <1>3, <2>1 DEF LongTermIInv, Indexed
  <2>2. ASSUME NEW k \in 1..MaxMemories, Fresh(k)'
        PROVE  ~memories'[k].there /\ \A t \in Tags : k \notin tagsIndex'[t]
    <3>1. Fresh(k) /\ k # m
      BY <2>2
    <3> QED
      BY <1>2, <1>3, <3>1 DEF LongTermIInv, Indexed
  <2> QED
    BY <2>1, <2>2 DEF Indexed
<1>5. total' = Cardinality(Kept)'
  <2>1. Kept' = Kept \cup {m} /\ m \notin Kept
    BY <1>0, <1>2 DEF Kept
  <2>2. IsFiniteSet(Kept)
    <3>1. Kept \subseteq 1..MaxMemories /\ MaxMemories \in Int /\ 1 \in Int
      BY MemoryBounds DEF Kept
    <3>2. \A a, b \in Int : IsFiniteSet(a..b)
      BY FS_Interval
    <3> QED
      BY <3>1, <3>2, FS_Subset
  <2>3. Cardinality(Kept \cup {m}) = Cardinality(Kept) + 1
    BY <2>1, <2>2, FS_AddElement
  <2> QED
    BY <2>1, <2>3 DEF LongTermIInv
<1> QED
  BY <1>1, <1>4, <1>5 DEF LongTermIInv

(* What leaves the memories and their index alone.                         *)
LEMMA MemoriesLeft ==
  ASSUME LongTermIInv, UNCHANGED <<memories, tagsIndex, total>>, vectors' \in SUBSET (1..MaxMemories),
         added' \in 0..MaxMemories, calls' \in 0..MaxCalls, JobsTyped',
         \A k \in 1..MaxMemories : Fresh(k)' => Fresh(k)
  PROVE  LongTermIInv'
<1>1. Indexed'
  BY DEF LongTermIInv, Indexed
<1> QED
  BY <1>1 DEF LongTermIInv, MemoriesTyped, Kept

(* A memory that waits for its embedding.                                  *)
LEMMA MemoryBegun ==
  ASSUME LongTermIInv, calls' \in 0..MaxCalls, added < MaxMemories, added' = added + 1,
         UNCHANGED <<memories, tagsIndex, vectors, total>>,
         NEW tags \in SUBSET Tags, jobs' = jobs \cup {[kind |-> "add", id |-> added + 1, tags |-> tags]}
  PROVE  LongTermIInv'
<1> DEFINE job == [kind |-> "add", id |-> added + 1, tags |-> tags]
<1>0. added \in Nat /\ MaxMemories \in Nat /\ job.kind = "add" /\ job.id = added + 1 /\ job.tags = tags
  BY MemoryBounds DEF LongTermIInv, MemoriesTyped
<1> HIDE DEF job
<1>1. jobs' = jobs \cup {job}
  BY DEF job
<1>2. \A k \in 1..MaxMemories : Fresh(k)' => Fresh(k)
  BY <1>0, <1>1 DEF Fresh
<1>3. \A j \in jobs : j.kind \in {"add", "update"} => j.id \in 1..added /\ j.id \in 1..added' /\ j.tags \in SUBSET Tags
  BY <1>0 DEF LongTermIInv, JobsTyped
<1>4. JobsTyped'
  <2>1. ASSUME NEW j \in jobs', j.kind \in {"add", "update"} PROVE j.id \in 1..added' /\ j.tags \in SUBSET Tags
    BY <1>0, <1>1, <1>3, <2>1
  <2>2. ASSUME NEW j \in jobs', NEW k \in jobs', j.kind = "add", k.kind = "add", j.id = k.id PROVE j = k
    <3>1. \A l \in jobs : l.kind = "add" => l.id # job.id
      BY <1>0, <1>3
    <3> QED
      BY <1>1, <2>2, <3>1 DEF LongTermIInv, JobsTyped
  <2>3. ASSUME NEW j \in jobs', j.kind = "update" PROVE ~Fresh(j.id)'
    <3>1. j \in jobs /\ ~Fresh(j.id) /\ j.id \in 1..added
      BY <1>0, <1>1, <1>3, <2>3 DEF LongTermIInv, JobsTyped
    <3> QED
      BY <1>0, <1>1, <3>1 DEF Fresh
  <2> QED
    BY <1>0, <1>1, <2>1, <2>2, <2>3 DEF LongTermIInv, JobsTyped
<1>5. vectors' \in SUBSET (1..MaxMemories) /\ added' \in 0..MaxMemories
  BY <1>0 DEF LongTermIInv, MemoriesTyped
<1> QED
  BY <1>2, <1>4, <1>5, MemoriesLeft

(* Jobs of other kinds, and jobs that go, leave the memories to insert.    *)
LEMMA JobsLeft ==
  ASSUME LongTermIInv, added' = added, 
         \A j \in jobs' : j \in jobs \/ (j.kind = "consolidate" /\ j = PlanOf(j))
  PROVE  JobsTyped' /\ \A k \in 1..MaxMemories : Fresh(k)' => Fresh(k)
<1>1. \A j \in jobs' : j.kind \in {"add", "update"} => j \in jobs
  OBVIOUS
<1>2. \A k : Fresh(k)' => Fresh(k)
  BY <1>1 DEF Fresh
<1> QED
  BY <1>1, <1>2 DEF LongTermIInv, JobsTyped

LEMMA AddedSteps ==
  ASSUME LongTermIInv, NEW job \in jobs, AgentMemory!Added(job)
  PROVE  LongTermIInv'
<1>1. /\ job.kind = "add" /\ jobs' = jobs \ {job} /\ UNCHANGED <<added, calls>>
      /\ memories' = [memories EXCEPT ![job.id] = [there |-> TRUE, tags |-> job.tags]]
      /\ tagsIndex' = [t \in Tags |-> IF t \in job.tags THEN tagsIndex[t] \cup {job.id} ELSE tagsIndex[t]]
      /\ total' = total + 1
      /\ vectors' \in {vectors, vectors \cup {job.id}}
  BY DEF AgentMemory!Added, AgentMemory!Insert
<1>2. /\ added \in 0..MaxMemories /\ calls \in 0..MaxCalls /\ MaxMemories \in Nat
      /\ job.id \in 1..added /\ job.tags \in SUBSET Tags
  BY <1>1, MemoryBounds DEF LongTermIInv, MemoriesTyped, JobsTyped
<1>3. job.id \in 1..MaxMemories /\ Fresh(job.id)
  BY <1>1, <1>2 DEF Fresh
<1>4. JobsTyped' /\ \A k \in 1..MaxMemories : Fresh(k)' => Fresh(k)
  BY <1>1, JobsLeft
<1>5. ~Fresh(job.id)'
  BY <1>1, <1>2 DEF Fresh, LongTermIInv, JobsTyped
<1>6. \A k \in 1..MaxMemories : Fresh(k)' => Fresh(k) /\ k # job.id
  BY <1>4, <1>5
<1> QED
  BY <1>1, <1>2, <1>3, <1>4, <1>6, MemoryInserted

LEMMA UpdatedSteps ==
  ASSUME LongTermIInv, NEW job \in jobs, AgentMemory!Updated(job)
  PROVE  LongTermIInv'
<1> DEFINE m == job.id
           old == memories[m].tags
<1>1. /\ job.kind = "update" /\ jobs' = jobs \ {job} /\ UNCHANGED <<vectors, total, added, calls>>
      /\ tagsIndex' = [t \in Tags |-> IF t \in job.tags \ old THEN tagsIndex[t] \cup {m}
                                      ELSE IF t \in old \ job.tags THEN tagsIndex[t] \ {m}
                                      ELSE tagsIndex[t]]
      /\ memories' = [memories EXCEPT ![m].tags = job.tags]
  BY DEF AgentMemory!Updated
<1>2. m \in 1..MaxMemories /\ job.tags \in SUBSET Tags /\ ~Fresh(m) /\ job \in jobs
  BY <1>1, MemoryBounds DEF LongTermIInv, MemoriesTyped, JobsTyped
<1>3. JobsTyped' /\ \A k \in 1..MaxMemories : Fresh(k)' => Fresh(k)
  BY <1>1, JobsLeft
<1>4. /\ memories \in [1..MaxMemories -> [there : BOOLEAN, tags : SUBSET Tags]]
      /\ \A t \in Tags : tagsIndex[t] \in SUBSET (1..MaxMemories)
  BY DEF LongTermIInv, MemoriesTyped
<1> HIDE DEF m
<1>5. /\ memories' \in [1..MaxMemories -> [there : BOOLEAN, tags : SUBSET Tags]]
      /\ \A k \in 1..MaxMemories : memories'[k].there = memories[k].there
      /\ \A k \in 1..MaxMemories : k # m => memories'[k].tags = memories[k].tags
      /\ memories'[m].tags = job.tags
  BY <1>1, <1>2, <1>4
<1>6. \A t \in Tags : \A k \in 1..MaxMemories : k # m => (k \in tagsIndex'[t] <=> k \in tagsIndex[t])
  BY <1>1
<1>7. tagsIndex' \in [Tags -> SUBSET (1..MaxMemories)]
  BY <1>1, <1>2, <1>4
<1>8. MemoriesTyped'
  BY <1>1, <1>5, <1>7 DEF LongTermIInv, MemoriesTyped
<1>9. Indexed'
  <2>1. ASSUME NEW t \in Tags, NEW k \in 1..MaxMemories, memories'[k].there
        PROVE  k \in tagsIndex'[t] <=> t \in memories'[k].tags
    <3>1. memories[k].there /\ (k \in tagsIndex[t] <=> t \in memories[k].tags)
      BY <1>5, <2>1 DEF LongTermIInv, Indexed
    <3>2. CASE k = m
      BY <1>1, <1>5, <3>1, <3>2
    <3>3. CASE k # m
      BY <1>5, <1>6, <3>1, <3>3
    <3> QED
      BY <3>2, <3>3
  <2>2. ASSUME NEW k \in 1..MaxMemories, Fresh(k)'
        PROVE  ~memories'[k].there /\ \A t \in Tags : k \notin tagsIndex'[t]
    <3>1. Fresh(k) /\ k # m
      BY <1>2, <1>3, <2>2
    <3> QED
      BY <1>5, <1>6, <3>1 DEF LongTermIInv, Indexed
  <2> QED
    BY <2>1, <2>2 DEF Indexed
<1>10. Kept' = Kept
  BY <1>5 DEF Kept
<1> QED
  BY <1>1, <1>3, <1>8, <1>9, <1>10 DEF LongTermIInv

LEMMA ForgetSteps ==
  ASSUME LongTermIInv, NEW ms, AgentMemory!Forget(ms)
  PROVE  LongTermIInv'
<1>1. /\ ms \subseteq Kept /\ UNCHANGED <<jobs, added>> /\ calls' = calls + 1 /\ calls < MaxCalls
      /\ memories' = [m \in 1..MaxMemories |-> IF m \in ms THEN [memories[m] EXCEPT !.there = FALSE] ELSE memories[m]]
      /\ tagsIndex' = [t \in Tags |-> tagsIndex[t] \ {m \in ms : t \in memories[m].tags}]
      /\ total' = total - Cardinality(ms)
      /\ \E failed \in SUBSET ms : vectors' = vectors \ (ms \ failed)
  BY MemoryCounts DEF AgentMemory!Forget, AgentMemory!Call, AgentMemory!Held, AgentMemory!Ids, Kept
<1>2. /\ memories \in [1..MaxMemories -> [there : BOOLEAN, tags : SUBSET Tags]]
      /\ tagsIndex \in [Tags -> SUBSET (1..MaxMemories)] /\ vectors \in SUBSET (1..MaxMemories)
      /\ calls \in 0..MaxCalls /\ MaxCalls \in Nat
  BY MemoryBounds DEF LongTermIInv, MemoriesTyped
<1>3. /\ memories' \in [1..MaxMemories -> [there : BOOLEAN, tags : SUBSET Tags]]
      /\ \A k \in 1..MaxMemories : memories'[k].there <=> memories[k].there /\ k \notin ms
      /\ \A k \in 1..MaxMemories : memories'[k].tags = memories[k].tags
  BY <1>1, <1>2
<1>4. \A t \in Tags : \A k : k \in tagsIndex'[t] <=> k \in tagsIndex[t] /\ ~(k \in ms /\ t \in memories[k].tags)
  BY <1>1
<1>5. MemoriesTyped'
  <2>1. tagsIndex' \in [Tags -> SUBSET (1..MaxMemories)]
    BY <1>1, <1>2
  <2>2. vectors' \in SUBSET (1..MaxMemories) /\ calls' \in 0..MaxCalls
    BY <1>1, <1>2
  <2> QED
    BY <1>1, <1>3, <2>1, <2>2 DEF LongTermIInv, MemoriesTyped
<1>6. JobsTyped' /\ \A k \in 1..MaxMemories : Fresh(k)' => Fresh(k)
  BY <1>1, JobsLeft
<1>7. Indexed'
  BY <1>3, <1>4, <1>6 DEF LongTermIInv, Indexed
<1>8. total' = Cardinality(Kept)'
  <2>1. Kept' = Kept \ ms
    BY <1>3 DEF Kept
  <2>2. IsFiniteSet(Kept)
    <3>1. Kept \subseteq 1..MaxMemories /\ MaxMemories \in Int /\ 1 \in Int
      BY MemoryBounds DEF Kept
    <3>2. \A a, b \in Int : IsFiniteSet(a..b)
      BY FS_Interval
    <3> QED
      BY <3>1, <3>2, FS_Subset
  <2>3. Cardinality(Kept \ ms) = Cardinality(Kept) - Cardinality(Kept \cap ms) /\ Kept \cap ms = ms
    BY <1>1, <2>2, FS_Difference
  <2> QED
    BY <1>1, <2>1, <2>3 DEF LongTermIInv
<1> QED
  BY <1>5, <1>6, <1>7, <1>8 DEF LongTermIInv

LEMMA ConsolidatingSteps ==
  ASSUME LongTermIInv, NEW job \in jobs, AgentMemory!Consolidating(job)
  PROVE  LongTermIInv'
<1>1. job.kind = "consolidate" /\ job = PlanOf(job)
  BY DEF AgentMemory!Consolidating, LongTermIInv, JobsTyped
<1>2. \A l : \A d : /\ [job EXCEPT !.left = l].kind = "consolidate" /\ [job EXCEPT !.left = l] = PlanOf([job EXCEPT !.left = l])
                  /\ [job EXCEPT !.summarised = d].kind = "consolidate" /\ [job EXCEPT !.summarised = d] = PlanOf([job EXCEPT !.summarised = d])
  BY <1>1 DEF PlanOf
<1>3. CASE jobs' = (jobs \ {job}) \cup {[job EXCEPT !.summarised = TRUE]} /\ UNCHANGED <<memories, tagsIndex, vectors, total, added, calls>>
  <2>1. JobsTyped' /\ \A k \in 1..MaxMemories : Fresh(k)' => Fresh(k)
    BY <1>2, <1>3, JobsLeft
  <2> QED
    BY <1>3, <2>1, MemoriesLeft DEF LongTermIInv, MemoriesTyped
<1>4. ASSUME NEW tags \in SUBSET Tags, added < MaxMemories, added' = added + 1, calls' = calls,
             memories' = [memories EXCEPT ![added + 1] = [there |-> TRUE, tags |-> tags]],
             tagsIndex' = [t \in Tags |-> IF t \in tags THEN tagsIndex[t] \cup {added + 1} ELSE tagsIndex[t]],
             total' = total + 1,
             vectors' \in {vectors, vectors \cup {added + 1}},
             jobs' = (jobs \ {job}) \cup (IF job.left = 1 THEN {} ELSE {[job EXCEPT !.left = @ - 1]})
      PROVE  LongTermIInv'
  <2>0. added \in 0..MaxMemories /\ calls \in 0..MaxCalls /\ MaxMemories \in Nat
    BY MemoryBounds DEF LongTermIInv, MemoriesTyped
  <2>1. added + 1 \in 1..MaxMemories /\ added' \in 0..MaxMemories /\ Fresh(added + 1)
    BY <1>4, <2>0 DEF Fresh
  <2>2. \A j \in jobs' : j \in jobs \/ (j.kind = "consolidate" /\ j = PlanOf(j))
    BY <1>2, <1>4
  <2>3. \A j \in jobs : j.kind \in {"add", "update"} => j.id \in 1..added /\ j.id \in 1..added' /\ j.id # added + 1
    BY <1>4, <2>0 DEF LongTermIInv, JobsTyped
  <2>4. \A k \in 1..MaxMemories : Fresh(k)' => Fresh(k) /\ k # added + 1
    BY <1>4, <2>0, <2>2, <2>3 DEF Fresh
  <2>5. JobsTyped'
    <3>1. \A j \in jobs' : j.kind \in {"add", "update"} => j \in jobs /\ j.id \in 1..MaxMemories
      BY <2>0, <2>2, <2>3
    <3> QED
      BY <2>2, <2>3, <2>4, <3>1 DEF LongTermIInv, JobsTyped
  <2> QED
    BY <1>4, <2>0, <2>1, <2>4, <2>5, MemoryInserted
<1> QED
  BY <1>3, <1>4 DEF AgentMemory!Consolidating, AgentMemory!Insert, AgentMemory!ltm

LEMMA LongTermSteps == LongTermIInv /\ [AgentMemory!Next]_(AgentMemory!vars) => LongTermIInv'
<1> SUFFICES ASSUME LongTermIInv, [AgentMemory!Next]_(AgentMemory!vars) PROVE LongTermIInv'
  OBVIOUS
<1>0. /\ added \in 0..MaxMemories /\ calls \in 0..MaxCalls /\ MaxMemories \in Nat /\ MaxCalls \in Nat
      /\ vectors \in SUBSET (1..MaxMemories)
  BY MemoryBounds DEF LongTermIInv, MemoriesTyped
<1>1. AgentMemory!Call => calls' \in 0..MaxCalls
  BY <1>0 DEF AgentMemory!Call
<1>2. ASSUME UNCHANGED <<memories, tagsIndex, vectors, total, added>>, calls' \in 0..MaxCalls,
             \A j \in jobs' : j \in jobs \/ (j.kind = "consolidate" /\ j = PlanOf(j))
      PROVE  LongTermIInv'
  <2>1. JobsTyped' /\ \A k \in 1..MaxMemories : Fresh(k)' => Fresh(k)
    BY <1>2, JobsLeft
  <2> QED
    BY <1>0, <1>2, <2>1, MemoriesLeft
<1>3. CASE AgentMemory!AddMemory \/ AgentMemory!UpdateAfterTask
  BY <1>1, <1>3, MemoryBegun DEF AgentMemory!AddMemory, AgentMemory!UpdateAfterTask, AgentMemory!Adding, AgentMemory!ltm
<1>4. CASE AgentMemory!Consolidate
  <2>1. PICK left : jobs' = jobs \cup {[kind |-> "consolidate", id |-> 0, tags |-> {}, summarised |-> FALSE, left |-> left]}
    BY <1>4 DEF AgentMemory!Consolidate
  <2>2. \A j \in jobs' : j \in jobs \/ (j.kind = "consolidate" /\ j = PlanOf(j))
    BY <2>1 DEF PlanOf
  <2> QED
    BY <1>1, <1>2, <1>4, <2>2 DEF AgentMemory!Consolidate, AgentMemory!ltm
<1>5. ASSUME NEW m \in AgentMemory!Ids, NEW tags \in SUBSET Tags, AgentMemory!Update(m, tags)
      PROVE  LongTermIInv'
  <2>1. /\ memories[m].there /\ UNCHANGED <<memories, tagsIndex, vectors, total, added>> /\ calls' \in 0..MaxCalls
        /\ jobs' = jobs \cup {[kind |-> "update", id |-> m, tags |-> tags]}
    BY <1>1, <1>5 DEF AgentMemory!Update, AgentMemory!ltm
  <2> DEFINE job == [kind |-> "update", id |-> m, tags |-> tags]
  <2>2. job.kind = "update" /\ job.id = m /\ job.tags = tags
    OBVIOUS
  <2> HIDE DEF job
  <2>3. jobs' = jobs \cup {job}
    BY <2>1 DEF job
  <2>4. ~Fresh(m) /\ m \in 1..MaxMemories
    BY <2>1 DEF LongTermIInv, Indexed, AgentMemory!Ids
  <2>5. m \in 1..added
    BY <1>0, <2>4 DEF Fresh
  <2>6. \A k : Fresh(k)' <=> Fresh(k)
    BY <2>1, <2>2, <2>3 DEF Fresh
  <2>7. JobsTyped'
    BY <2>1, <2>2, <2>3, <2>4, <2>5, <2>6 DEF LongTermIInv, JobsTyped
  <2> QED
    BY <1>0, <2>1, <2>6, <2>7, MemoriesLeft
<1>6. CASE AgentMemory!ClearAll
  <2>1. /\ memories' = [m \in 1..MaxMemories |-> [memories[m] EXCEPT !.there = FALSE]]
        /\ tagsIndex' = [t \in Tags |-> {}] /\ total' = 0 /\ UNCHANGED <<vectors, jobs, added>>
    BY <1>6 DEF AgentMemory!ClearAll, AgentMemory!Ids
  <2>2. /\ memories' \in [1..MaxMemories -> [there : BOOLEAN, tags : SUBSET Tags]]
        /\ \A k \in 1..MaxMemories : ~memories'[k].there
    BY <2>1 DEF LongTermIInv, MemoriesTyped
  <2>3. MemoriesTyped' /\ Indexed'
    BY <1>0, <1>1, <1>6, <2>1, <2>2 DEF MemoriesTyped, Indexed, AgentMemory!ClearAll
  <2>4. JobsTyped'
    BY <2>1, JobsLeft
  <2>5. Kept' = {}
    BY <2>2 DEF Kept
  <2> QED
    BY <2>1, <2>3, <2>4, <2>5, FS_EmptySet DEF LongTermIInv
<1>7. CASE UNCHANGED AgentMemory!vars
  BY <1>0, <1>2, <1>7 DEF AgentMemory!vars, AgentMemory!ltm
<1>8. CASE AgentMemory!AddMessage \/ AgentMemory!ClearExceptSystem \/ \E n \in 1..MaxEpisodes : AgentMemory!Prune(n)
  BY <1>1, <1>2, <1>8 DEF AgentMemory!AddMessage, AgentMemory!ClearExceptSystem, AgentMemory!Prune, AgentMemory!ltm
<1> QED
  BY <1>3, <1>4, <1>5, <1>6, <1>7, <1>8, ForgetSteps, AddedSteps, UpdatedSteps, ConsolidatingSteps DEF AgentMemory!Next

LEMMA AgentMemorySteps == AgentMemoryIInv /\ [AgentMemory!Next]_(AgentMemory!vars) => AgentMemoryIInv'
BY BufferSteps, EpisodesSteps, LongTermSteps DEF AgentMemoryIInv

LEMMA AgentMemoryHolds == AgentMemoryIInv => AgentMemory!MemoryInv
<1> SUFFICES ASSUME AgentMemoryIInv PROVE AgentMemory!MemoryInv
  OBVIOUS
<1> USE MemoryBounds DEF AgentMemoryIInv
<1>1. AgentMemory!TypeOK
  <2>1. recent \in Seq(AgentMemory!Entry) /\ system \in {0} \cup AgentMemory!Tokens /\ totalTokens \in Nat
    BY DEF BufferIInv, RecentEntry, AgentMemory!Entry, AgentMemory!Tokens
  <2>2. \A m \in 1..MaxMemories : memories[m].there \in BOOLEAN /\ memories[m].tags \subseteq Tags
    BY DEF LongTermIInv, MemoriesTyped
  <2>3. total \in 0..MaxMemories
    <3>1. Kept \subseteq 1..MaxMemories
      BY DEF Kept
    <3>2. \A a, b \in Int : IsFiniteSet(a..b) /\ Cardinality(a..b) = IF a > b THEN 0 ELSE b - a + 1
      BY FS_Interval
    <3>3. IsFiniteSet(1..MaxMemories) /\ Cardinality(1..MaxMemories) = MaxMemories
      <4>1. /\ IsFiniteSet(1..MaxMemories)
            /\ Cardinality(1..MaxMemories) = IF 1 > MaxMemories THEN 0 ELSE MaxMemories - 1 + 1
        BY <3>2
      <4> QED
        BY <4>1
    <3>4. Cardinality(Kept) \in Nat /\ Cardinality(Kept) <= MaxMemories
      BY <3>1, <3>3, FS_Subset, FS_CardinalityType
    <3> QED
      BY <3>4 DEF LongTermIInv
  <2> QED
    BY <2>1, <2>2, <2>3 DEF AgentMemory!TypeOK, AgentMemory!Ids, EpisodesIInv, LongTermIInv, MemoriesTyped
<1>2. AgentMemory!TagsAgree
  <2>1. \A t \in Tags : tagsIndex[t] \subseteq 1..MaxMemories
    BY DEF LongTermIInv, MemoriesTyped
  <2>2. AgentMemory!Held(AgentMemory!Ids) = Kept
    BY DEF AgentMemory!Held, AgentMemory!Ids, Kept
  <2>3. ASSUME NEW t \in Tags
        PROVE  {m \in tagsIndex[t] : memories[m].there} = {m \in Kept : t \in memories[m].tags}
    BY <2>1 DEF LongTermIInv, Indexed, Kept
  <2>4. total = AgentMemory!Cardinality(Kept)
    BY MemoryCounts DEF LongTermIInv
  <2> QED
    BY <2>3, <2>4 DEF AgentMemory!TagsAgree, AgentMemory!ListByTag, AgentMemory!Held, AgentMemory!Ids, Kept
<1>3. AgentMemory!TokensCovered
  BY MemoryCounts DEF BufferIInv, WeightOf, TokensOf, AgentMemory!TokensCovered, AgentMemory!Weight, AgentMemory!Tokens
<1>4. AgentMemory!EmbeddingsCurrent
  <2>1. DOMAIN episodes = 1..Len(episodes)
    BY DEF EpisodesIInv
  <2> QED
    BY <2>1 DEF EpisodesIInv, AgentMemory!EmbeddingsCurrent
<1> QED
  BY <1>1, <1>2, <1>3, <1>4 DEF AgentMemory!MemoryInv

-----------------------------------------------------------------------------
(* The tools that agents call.                                             *)

LEMMA ToolsBounds ==
  /\ IsFiniteSet(ToolNames) /\ IsFiniteSet(Callers) /\ IsFiniteSet(Servers) /\ IsFiniteSet(Searchers)
  /\ None # "success" /\ MaxRetries \in Nat /\ Offered \subseteq Servers \X ToolNames
  /\ MaxOperations \in Nat /\ HistoryKept \in Nat /\ LoopThreshold \in Nat /\ BatchSize \in Nat
  /\ \A a \in DOMAIN Limited : \A b \in Limited[a] : b \in DOMAIN Limited /\ Limited[b] = Limited[a]
BY WaitsAssumption DEF Tools!ToolsAssumption, Tools!IsFiniteSet, IsFiniteSet

LEMMA ToolsCount == \A S : Tools!Cardinality(S) = Cardinality(S)
BY DEF Tools!Cardinality, Cardinality

(* A run is about one part of the tools: the others stay as they are.      *)
LEMMA OneOfTheTools ==
  [Tools!Next]_(Tools!vars) =>
    /\ Tools!RegistryNext \/ UNCHANGED <<tools, byCategory, usage, executions, executed>>
    /\ Tools!DiscoveryNext \/ UNCHANGED <<listed, discovered, byServer, foundBy>>
    /\ Tools!ServerNext \/ UNCHANGED <<pool, served, errors, reply, called>>
    /\ (\E a \in Actions : Tools!Act(a)) \/ UNCHANGED acted
    /\ (\E fails \in BOOLEAN : Tools!AuditCall(fails)) \/ UNCHANGED <<log, file, missed>>
BY DEF Tools!Next, Tools!vars, Tools!registryVars, Tools!discoveryVars, Tools!serverVars, Tools!logVars

(* What is in a sequence.                                                  *)
In(t, s) == \E i \in 1..Len(s) : s[i] = t

(* What is left of a sequence when one place of it goes.                   *)
LEMMA PlaceRemoved ==
  ASSUME NEW S, NEW s \in Seq(S), NEW p \in 1..Len(s)
  PROVE  LET r == SubSeq(s, 1, p - 1) \o SubSeq(s, p + 1, Len(s))
         IN  /\ r \in Seq(S) /\ Len(r) = Len(s) - 1
             /\ \A i \in 1..(Len(s) - 1) : r[i] = IF i < p THEN s[i] ELSE s[i + 1]
<1> DEFINE a == SubSeq(s, 1, p - 1)
           b == SubSeq(s, p + 1, Len(s))
<1>0. Len(s) \in Nat /\ p \in Nat /\ 1 <= p /\ p <= Len(s)
  OBVIOUS
<1>1. a \in Seq(S) /\ Len(a) = p - 1 /\ \A i \in 1..(p - 1) : a[i] = s[i]
  <2>1. \A i \in 1..(p - 1) : s[i] \in S
    BY <1>0, ElementOfSeq
  <2>2. /\ a \in Seq(S) /\ Len(a) = IF 1 <= p - 1 THEN (p - 1) - 1 + 1 ELSE 0
        /\ \A i \in 1..((p - 1) - 1 + 1) : a[i] = s[1 + i - 1]
    BY <1>0, <2>1, SubSeqProperties
  <2> QED
    BY <1>0, <2>2
<1>2. b \in Seq(S) /\ Len(b) = Len(s) - p /\ \A i \in 1..(Len(s) - p) : b[i] = s[p + i]
  <2>1. \A i \in (p + 1)..Len(s) : s[i] \in S
    BY <1>0, ElementOfSeq
  <2>2. /\ b \in Seq(S) /\ Len(b) = IF p + 1 <= Len(s) THEN Len(s) - (p + 1) + 1 ELSE 0
        /\ \A i \in 1..(Len(s) - (p + 1) + 1) : b[i] = s[(p + 1) + i - 1]
    BY <1>0, <2>1, SubSeqProperties
  <2> QED
    BY <1>0, <2>2
<1> HIDE DEF a, b
<1>3. /\ a \o b \in Seq(S) /\ Len(a \o b) = Len(a) + Len(b)
      /\ \A i \in 1..(Len(a) + Len(b)) : (a \o b)[i] = IF i <= Len(a) THEN a[i] ELSE b[i - Len(a)]
  BY <1>1, <1>2, ConcatProperties
<1>4. ASSUME NEW i \in 1..(Len(s) - 1) PROVE (a \o b)[i] = IF i < p THEN s[i] ELSE s[i + 1]
  <2>1. CASE i < p
    BY <1>0, <1>1, <1>2, <1>3, <2>1
  <2>2. CASE ~(i < p)
    <3>1. i - (p - 1) \in 1..(Len(s) - p) /\ p + (i - (p - 1)) = i + 1
      BY <1>0, <2>2
    <3>2. (a \o b)[i] = b[i - (p - 1)]
      BY <1>0, <1>1, <1>2, <1>3, <2>2
    <3> QED
      BY <1>2, <2>2, <3>1, <3>2
  <2> QED
    BY <2>1, <2>2
<1>5. Len(a) + Len(b) = Len(s) - 1
  BY <1>0, <1>1, <1>2
<1>6. a \o b \in Seq(S) /\ Len(a \o b) = Len(s) - 1
  BY <1>3, <1>5
<1> QED
  BY <1>4, <1>6 DEF a, b

(* The place of t goes.                                                    *)
Left(s, t, r) ==
  \E p \in 1..Len(s) :
    /\ s[p] = t /\ Len(r) = Len(s) - 1
    /\ \A i \in 1..(Len(s) - 1) : r[i] = IF i < p THEN s[i] ELSE s[i + 1]

LEMMA WithoutLeaves ==
  ASSUME NEW s \in Seq(ToolNames), NEW t, In(t, s)
  PROVE  LET i == CHOOSE i \in 1..Len(s) : s[i] = t
             r == SubSeq(s, 1, i - 1) \o SubSeq(s, i + 1, Len(s))
         IN  r \in Seq(ToolNames) /\ Left(s, t, r)
<1> DEFINE p == CHOOSE i \in 1..Len(s) : s[i] = t
           r == SubSeq(s, 1, p - 1) \o SubSeq(s, p + 1, Len(s))
<1>1. p \in 1..Len(s) /\ s[p] = t
  BY DEF In
<1> HIDE DEF p
<1>2. /\ r \in Seq(ToolNames) /\ Len(r) = Len(s) - 1
      /\ \A i \in 1..(Len(s) - 1) : r[i] = IF i < p THEN s[i] ELSE s[i + 1]
  BY <1>1, PlaceRemoved
<1> HIDE DEF r
<1>3. r \in Seq(ToolNames) /\ Left(s, t, r)
  BY <1>1, <1>2 DEF Left
<1> QED
  BY <1>3 DEF r, p

(* Where what stays was before, and where what was there is now.           *)
LEMMA LeftPlaces ==
  ASSUME NEW s \in Seq(ToolNames), NEW t, NEW r, Left(s, t, r),
         \A i, j \in 1..Len(s) : i < j => s[i] # s[j]
  PROVE  /\ \A i, j \in 1..Len(r) : i < j => \E k, l \in 1..Len(s) : k < l /\ s[k] = r[i] /\ s[l] = r[j]
         /\ \A k, l \in 1..Len(s) : k < l /\ s[k] # t /\ s[l] # t =>
               \E i, j \in 1..Len(r) : i < j /\ r[i] = s[k] /\ r[j] = s[l]
         /\ \A u : In(u, r) <=> In(u, s) /\ u # t
<1>1. PICK p \in 1..Len(s) : /\ s[p] = t /\ Len(r) = Len(s) - 1
                             /\ \A i \in 1..(Len(s) - 1) : r[i] = IF i < p THEN s[i] ELSE s[i + 1]
  BY DEF Left
<1>0. Len(s) \in Nat /\ p \in Nat /\ 1 <= p /\ p <= Len(s)
  OBVIOUS
<1> DEFINE Was(i) == IF i < p THEN i ELSE i + 1
           Is(k) == IF k < p THEN k ELSE k - 1
<1>2. \A i \in 1..Len(r) : Was(i) \in 1..Len(s) /\ r[i] = s[Was(i)] /\ Was(i) # p
  BY <1>0, <1>1
<1>3. \A i, j \in 1..Len(r) : i < j => Was(i) < Was(j)
  BY <1>0, <1>1
<1>4. \A k \in 1..Len(s) : k # p => Is(k) \in 1..Len(r) /\ r[Is(k)] = s[k]
  BY <1>0, <1>1
<1>5. \A k, l \in 1..Len(s) : k < l /\ k # p /\ l # p => Is(k) < Is(l)
  BY <1>0
<1>6. \A k \in 1..Len(s) : k # p => s[k] # t
  BY <1>0, <1>1
<1> HIDE DEF Was, Is
<1>7. ASSUME NEW i \in 1..Len(r), NEW j \in 1..Len(r), i < j
      PROVE  \E k, l \in 1..Len(s) : k < l /\ s[k] = r[i] /\ s[l] = r[j]
  BY <1>2, <1>3, <1>7
<1>8. ASSUME NEW k \in 1..Len(s), NEW l \in 1..Len(s), k < l, s[k] # t, s[l] # t
      PROVE  \E i, j \in 1..Len(r) : i < j /\ r[i] = s[k] /\ r[j] = s[l]
  BY <1>1, <1>4, <1>5, <1>8
<1>9. ASSUME NEW u PROVE In(u, r) <=> In(u, s) /\ u # t
  <2>1. In(u, r) => In(u, s) /\ u # t
    BY <1>2, <1>6 DEF In
  <2>2. In(u, s) /\ u # t => In(u, r)
    BY <1>1, <1>4 DEF In
  <2> QED
    BY <2>1, <2>2
<1> QED
  BY <1>7, <1>8, <1>9

(* The registry: no tool after one it conflicts with, and the list of a    *)
(* category in the order of the registrations.                             *)
Kinds == {Category[t] : t \in ToolNames}
Apart(s) == \A i, j \in 1..Len(s) : i < j => s[i] # s[j] /\ s[i] \notin Conflicts[s[j]]
Sorted(s, list, c) ==
  /\ \A t : In(t, list) <=> In(t, s) /\ Category[t] = c
  /\ \A i, j \in 1..Len(list) : i < j => \E k, l \in 1..Len(s) : k < l /\ s[k] = list[i] /\ s[l] = list[j]

RegistryIInv ==
  /\ tools \in Seq(ToolNames) /\ byCategory \in [Kinds -> Seq(ToolNames)]
  /\ Apart(tools) /\ \A c \in Kinds : Sorted(tools, byCategory[c], c)

LEMMA ToolRegistered ==
  ASSUME NEW s \in Seq(ToolNames), NEW t \in ToolNames, ~In(t, s), Apart(s),
         \A u : In(u, s) => u \notin Conflicts[t],
         NEW list \in Seq(ToolNames), NEW c, Sorted(s, list, c)
  PROVE  /\ Apart(Append(s, t))
         /\ Category[t] = c => Sorted(Append(s, t), Append(list, t), c)
         /\ Category[t] # c => Sorted(Append(s, t), list, c)
<1> DEFINE r == Append(s, t)
           longer == Append(list, t)
<1>1. Len(s) \in Nat /\ Len(r) = Len(s) + 1 /\ r[Len(s) + 1] = t /\ \A i \in 1..Len(s) : r[i] = s[i]
  BY AppendProperties
<1>2. /\ Len(list) \in Nat /\ Len(longer) = Len(list) + 1 /\ longer[Len(list) + 1] = t
      /\ \A i \in 1..Len(list) : longer[i] = list[i]
  BY AppendProperties
<1> HIDE DEF r, longer
<1>3. /\ \A u : In(u, r) <=> In(u, s) \/ u = t
      /\ \A u : In(u, longer) <=> In(u, list) \/ u = t
  <2>1. \A u : In(u, r) => In(u, s) \/ u = t
    <3>1. \A i \in 1..Len(r) : i \in 1..Len(s) \/ i = Len(s) + 1
      BY <1>1
    <3> QED
      BY <1>1, <3>1 DEF In
  <2>2. \A u : In(u, longer) => In(u, list) \/ u = t
    <3>1. \A i \in 1..Len(longer) : i \in 1..Len(list) \/ i = Len(list) + 1
      BY <1>2
    <3> QED
      BY <1>2, <3>1 DEF In
  <2>3. 1..Len(s) \subseteq 1..Len(r) /\ Len(s) + 1 \in 1..Len(r)
    BY <1>1
  <2>4. 1..Len(list) \subseteq 1..Len(longer) /\ Len(list) + 1 \in 1..Len(longer)
    BY <1>2
  <2>5. \A u : In(u, s) \/ u = t => In(u, r)
    BY <1>1, <2>3 DEF In
  <2>6. \A u : In(u, list) \/ u = t => In(u, longer)
    BY <1>2, <2>4 DEF In
  <2> QED
    BY <2>1, <2>2, <2>5, <2>6
<1>4. \A k \in 1..Len(s) : k \in 1..Len(r) /\ k < Len(s) + 1
  BY <1>1
<1>5. Apart(r)
  <2> SUFFICES ASSUME NEW i \in 1..Len(r), NEW j \in 1..Len(r), i < j
               PROVE  r[i] # r[j] /\ r[i] \notin Conflicts[r[j]]
    BY DEF Apart
  <2>1. i \in 1..Len(s) /\ (j \in 1..Len(s) \/ j = Len(s) + 1)
    BY <1>1
  <2>2. CASE j \in 1..Len(s)
    BY <1>1, <2>1, <2>2 DEF Apart
  <2>3. CASE j = Len(s) + 1
    <3>1. In(s[i], s)
      BY <2>1 DEF In
    <3> QED
      BY <1>1, <2>1, <2>3, <3>1
  <2> QED
    BY <2>1, <2>2, <2>3
<1>6. ASSUME NEW i \in 1..Len(list), NEW j \in 1..Len(list), i < j
      PROVE  \E k, l \in 1..Len(r) : k < l /\ r[k] = list[i] /\ r[l] = list[j]
  BY <1>1, <1>4, <1>6 DEF Sorted
<1>7. ASSUME Category[t] # c PROVE Sorted(r, list, c)
  BY <1>3, <1>6, <1>7 DEF Sorted
<1>8. ASSUME Category[t] = c PROVE Sorted(r, longer, c)
  <2>1. \A u : In(u, longer) <=> In(u, r) /\ Category[u] = c
    BY <1>3, <1>8 DEF Sorted
  <2>2. ASSUME NEW i \in 1..Len(longer), NEW j \in 1..Len(longer), i < j
        PROVE  \E k, l \in 1..Len(r) : k < l /\ r[k] = longer[i] /\ r[l] = longer[j]
    <3>1. i \in 1..Len(list) /\ (j \in 1..Len(list) \/ j = Len(list) + 1)
      BY <1>2, <2>2
    <3>2. CASE j \in 1..Len(list)
      <4>1. longer[i] = list[i] /\ longer[j] = list[j]
        BY <1>2, <3>1, <3>2
      <4> QED
        BY <1>6, <2>2, <3>1, <3>2, <4>1
    <3>3. CASE j = Len(list) + 1
      <4>1. In(list[i], s)
        BY <3>1 DEF In, Sorted
      <4>2. PICK k \in 1..Len(s) : s[k] = list[i]
        BY <4>1 DEF In
      <4>3. Len(s) + 1 \in 1..Len(r) /\ k \in 1..Len(r) /\ k < Len(s) + 1
        BY <1>1, <1>4
      <4>4. r[k] = longer[i] /\ r[Len(s) + 1] = longer[j]
        BY <1>1, <1>2, <3>1, <3>3, <4>2
      <4>5. PICK l \in 1..Len(r) : l = Len(s) + 1
        BY <4>3
      <4>6. k < l /\ r[k] = longer[i] /\ r[l] = longer[j]
        BY <4>3, <4>4, <4>5
      <4> QED
        BY <4>3, <4>6
    <3> QED
      BY <3>1, <3>2, <3>3
  <2> QED
    BY <2>1, <2>2 DEF Sorted
<1> QED
  BY <1>5, <1>7, <1>8 DEF r, longer

LEMMA ToolUnregistered ==
  ASSUME NEW s \in Seq(ToolNames), NEW t, NEW r, Left(s, t, r), Apart(s),
         NEW list \in Seq(ToolNames), NEW c, Sorted(s, list, c), NEW shorter
  PROVE  /\ Apart(r)
         /\ Left(list, t, shorter) /\ Category[t] = c => Sorted(r, shorter, c)
         /\ Category[t] # c => Sorted(r, list, c)
<1>1. \A i, j \in 1..Len(s) : i < j => s[i] # s[j]
  BY DEF Apart
<1>2. /\ \A i, j \in 1..Len(r) : i < j => \E k, l \in 1..Len(s) : k < l /\ s[k] = r[i] /\ s[l] = r[j]
      /\ \A k, l \in 1..Len(s) : k < l /\ s[k] # t /\ s[l] # t =>
            \E i, j \in 1..Len(r) : i < j /\ r[i] = s[k] /\ r[j] = s[l]
      /\ \A u : In(u, r) <=> In(u, s) /\ u # t
  BY <1>1, LeftPlaces
<1>3. ASSUME NEW i \in 1..Len(r), NEW j \in 1..Len(r), i < j
      PROVE  r[i] # r[j] /\ r[i] \notin Conflicts[r[j]]
  <2>1. PICK k \in 1..Len(s), l \in 1..Len(s) : k < l /\ s[k] = r[i] /\ s[l] = r[j]
    BY <1>2, <1>3
  <2>2. s[k] # s[l] /\ s[k] \notin Conflicts[s[l]]
    BY <2>1 DEF Apart
  <2> QED
    BY <2>1, <2>2
<1>4. Len(list) \in Nat /\ \A i, j \in 1..Len(list) : i < j => list[i] # list[j]
  BY <1>1 DEF Sorted
<1>5. ASSUME NEW i \in 1..Len(list), NEW j \in 1..Len(list), i < j, list[i] # t, list[j] # t
      PROVE  \E k, l \in 1..Len(r) : k < l /\ r[k] = list[i] /\ r[l] = list[j]
  <2>1. PICK k \in 1..Len(s), l \in 1..Len(s) : k < l /\ s[k] = list[i] /\ s[l] = list[j]
    BY <1>5 DEF Sorted
  <2> QED
    BY <1>2, <1>5, <2>1
<1>6. ASSUME Category[t] # c PROVE Sorted(r, list, c)
  <2>1. \A i \in 1..Len(list) : list[i] # t
    BY <1>6 DEF Sorted, In
  <2>2. \A u : In(u, list) <=> In(u, r) /\ Category[u] = c
    BY <1>2, <1>6 DEF Sorted
  <2> QED
    BY <1>5, <2>1, <2>2 DEF Sorted
<1>7. ASSUME Left(list, t, shorter), Category[t] = c PROVE Sorted(r, shorter, c)
  <2>1. /\ \A i, j \in 1..Len(shorter) : i < j => \E k, l \in 1..Len(list) : k < l /\ list[k] = shorter[i] /\ list[l] = shorter[j]
        /\ \A u : In(u, shorter) <=> In(u, list) /\ u # t
    BY <1>4, <1>7, LeftPlaces
  <2>2. \A u : In(u, shorter) <=> In(u, r) /\ Category[u] = c
    BY <1>2, <2>1 DEF Sorted
  <2>3. \A i \in 1..Len(shorter) : shorter[i] # t
    BY <2>1 DEF In
  <2>4. ASSUME NEW i \in 1..Len(shorter), NEW j \in 1..Len(shorter), i < j
        PROVE  \E k, l \in 1..Len(r) : k < l /\ r[k] = shorter[i] /\ r[l] = shorter[j]
    <3>1. PICK k \in 1..Len(list), l \in 1..Len(list) : k < l /\ list[k] = shorter[i] /\ list[l] = shorter[j]
      BY <2>1, <2>4
    <3> QED
      BY <1>5, <2>3, <3>1
  <2> QED
    BY <2>2, <2>4 DEF Sorted
<1>8. Apart(r)
  BY <1>3 DEF Apart
<1> QED
  BY <1>6, <1>7, <1>8

LEMMA InToSet == \A t, s : s \in Seq(ToolNames) /\ t \in Tools!ToSet(s) => In(t, s)
BY DEF Tools!ToSet, In

LEMMA ToSetIn == \A t, s : s \in Seq(ToolNames) /\ In(t, s) => t \in Tools!ToSet(s)
BY DEF Tools!ToSet, In

LEMMA RegistryStarts == Tools!Init => RegistryIInv
<1> SUFFICES ASSUME Tools!Init PROVE RegistryIInv
  OBVIOUS
<1>1. tools = <<>> /\ byCategory = [c \in Kinds |-> <<>>]
  BY DEF Tools!Init, Tools!Categories, Kinds
<1>2. <<>> \in Seq(ToolNames) /\ Len(<<>>) = 0
  BY EmptySeq
<1>3. byCategory \in [Kinds -> Seq(ToolNames)] /\ \A c \in Kinds : byCategory[c] = <<>>
  BY <1>1, <1>2
<1> QED
  BY <1>1, <1>2, <1>3 DEF RegistryIInv, Apart, Sorted, In

LEMMA RegistrySteps == RegistryIInv /\ [Tools!Next]_(Tools!vars) => RegistryIInv'
<1> SUFFICES ASSUME RegistryIInv, [Tools!Next]_(Tools!vars) PROVE RegistryIInv'
  OBVIOUS
<1> USE DEF RegistryIInv
<1>1. CASE UNCHANGED <<tools, byCategory>>
  <2>1. tools' = tools /\ byCategory' = byCategory
    BY <1>1
  <2>2. Apart(tools') /\ \A c \in Kinds : Sorted(tools', byCategory'[c], c)
    BY <2>1
  <2> QED
    BY <2>1, <2>2
<1>2. ASSUME NEW t \in ToolNames, Tools!Register(t) PROVE RegistryIInv'
  <2>1. /\ t \notin Tools!ToSet(tools) /\ Conflicts[t] \cap Tools!ToSet(tools) = {}
        /\ tools' = Append(tools, t)
        /\ byCategory' = [byCategory EXCEPT ![Category[t]] = Append(byCategory[Category[t]], t)]
    BY <1>2 DEF Tools!Register
  <2>2. ~In(t, tools) /\ \A u : In(u, tools) => u \notin Conflicts[t]
    BY <2>1, ToSetIn
  <2>3. Category[t] \in Kinds
    BY DEF Kinds
  <2>4. tools' \in Seq(ToolNames) /\ byCategory' \in [Kinds -> Seq(ToolNames)]
    BY <2>1, <2>3
  <2>5. \A c \in Kinds : byCategory'[c] = IF c = Category[t] THEN Append(byCategory[c], t) ELSE byCategory[c]
    BY <2>1
  <2>6. ASSUME NEW c \in Kinds PROVE Apart(tools') /\ Sorted(tools', byCategory'[c], c)
    <3>1. byCategory[c] \in Seq(ToolNames) /\ Sorted(tools, byCategory[c], c)
      OBVIOUS
    <3>2. /\ Apart(Append(tools, t))
          /\ Category[t] = c => Sorted(Append(tools, t), Append(byCategory[c], t), c)
          /\ Category[t] # c => Sorted(Append(tools, t), byCategory[c], c)
      BY <2>2, <3>1, ToolRegistered
    <3> QED
      BY <2>1, <2>5, <3>2, Zenon
  <2> QED
    BY <2>3, <2>4, <2>6 DEF Apart, Sorted, In
<1>3. ASSUME NEW t \in ToolNames, Tools!Unregister(t) PROVE RegistryIInv'
  <2>1. /\ t \in Tools!ToSet(tools) /\ tools' = Tools!Without(tools, t)
        /\ byCategory' = [byCategory EXCEPT ![Category[t]] = Tools!Without(byCategory[Category[t]], t)]
    BY <1>3 DEF Tools!Unregister
  <2>2. Category[t] \in Kinds
    BY DEF Kinds
  <2>3. In(t, tools) /\ In(t, byCategory[Category[t]])
    BY <2>1, <2>2, InToSet DEF Sorted
  <2>4. \A s \in Seq(ToolNames) : In(t, s) =>
          Tools!Without(s, t) \in Seq(ToolNames) /\ Left(s, t, Tools!Without(s, t))
    <3> SUFFICES ASSUME NEW s \in Seq(ToolNames), In(t, s)
                 PROVE  Tools!Without(s, t) \in Seq(ToolNames) /\ Left(s, t, Tools!Without(s, t))
      OBVIOUS
    <3>1. DOMAIN s = 1..Len(s)
      OBVIOUS
    <3> QED
      BY <3>1, WithoutLeaves, Zenon DEF Tools!Without
  <2>5. /\ tools' \in Seq(ToolNames) /\ Left(tools, t, tools')
        /\ byCategory' \in [Kinds -> Seq(ToolNames)]
        /\ \A c \in Kinds : IF c = Category[t] THEN Left(byCategory[c], t, byCategory'[c])
                                               ELSE byCategory'[c] = byCategory[c]
    BY <2>1, <2>2, <2>3, <2>4
  <2>6. ASSUME NEW c \in Kinds PROVE Apart(tools') /\ Sorted(tools', byCategory'[c], c)
    <3>1. byCategory[c] \in Seq(ToolNames) /\ Sorted(tools, byCategory[c], c)
      OBVIOUS
    <3>2. /\ Apart(tools')
          /\ Left(byCategory[c], t, byCategory'[c]) /\ Category[t] = c => Sorted(tools', byCategory'[c], c)
          /\ Category[t] # c => Sorted(tools', byCategory[c], c)
      BY <2>5, <3>1, ToolUnregistered
    <3> QED
      BY <2>5, <3>2
  <2> QED
    BY <2>2, <2>5, <2>6 DEF Apart, Sorted, In
<1>4. Tools!RegistryNext \/ UNCHANGED <<tools, byCategory>>
  BY OneOfTheTools
<1>5. \A c, t, valid : Tools!Execute(c, t, valid) => UNCHANGED <<tools, byCategory>>
  BY DEF Tools!Execute
<1>6. \A c, s : Tools!ToolReturns(c, s) \/ Tools!ToolRaises(c, s) \/ Tools!Retry(c) => UNCHANGED <<tools, byCategory>>
  BY DEF Tools!ToolReturns, Tools!ToolRaises, Tools!Retry
<1> QED
  BY <1>1, <1>2, <1>3, <1>4, <1>5, <1>6 DEF Tools!RegistryNext

LEMMA RegistryGives == RegistryIInv => Tools!RegistryAgrees
<1> SUFFICES ASSUME RegistryIInv PROVE Tools!RegistryAgrees
  OBVIOUS
<1>1. DOMAIN tools = 1..Len(tools)
  BY DEF RegistryIInv
<1>2. ASSUME NEW c \in Kinds
      PROVE  /\ Tools!ToSet(byCategory[c]) = {t \in Tools!ToSet(tools) : Category[t] = c}
             /\ \A i, j \in DOMAIN byCategory[c] : i < j =>
                    \E k, l \in DOMAIN tools : k < l /\ tools[k] = byCategory[c][i] /\ tools[l] = byCategory[c][j]
  <2>1. byCategory[c] \in Seq(ToolNames) /\ Sorted(tools, byCategory[c], c) /\ tools \in Seq(ToolNames)
    BY DEF RegistryIInv
  <2>2. \A t : t \in Tools!ToSet(byCategory[c]) <=> In(t, byCategory[c])
    BY <2>1, InToSet, ToSetIn
  <2>3. \A t : t \in Tools!ToSet(tools) <=> In(t, tools)
    BY <2>1, InToSet, ToSetIn
  <2>4. DOMAIN byCategory[c] = 1..Len(byCategory[c])
    BY <2>1
  <2>5. \A t : t \in Tools!ToSet(byCategory[c]) <=> t \in Tools!ToSet(tools) /\ Category[t] = c
    BY <2>1, <2>2, <2>3 DEF Sorted
  <2>6. Tools!ToSet(byCategory[c]) = {t \in Tools!ToSet(tools) : Category[t] = c}
    BY <2>5
  <2>7. \A i, j \in 1..Len(byCategory[c]) : i < j =>
          \E k, l \in 1..Len(tools) : k < l /\ tools[k] = byCategory[c][i] /\ tools[l] = byCategory[c][j]
    BY <2>1 DEF Sorted
  <2>8. ASSUME NEW i \in DOMAIN byCategory[c], NEW j \in DOMAIN byCategory[c], i < j
        PROVE  \E k, l \in DOMAIN tools : k < l /\ tools[k] = byCategory[c][i] /\ tools[l] = byCategory[c][j]
    BY <1>1, <2>4, <2>7, <2>8
  <2> QED
    BY <2>6, <2>8
<1> QED
  BY <1>1, <1>2 DEF RegistryIInv, Apart, Kinds, Tools!RegistryAgrees, Tools!Categories

(* What is counted for each of D, as a set of that many pairs.             *)
Pairs(D, f) == UNION {{y} \X (1..f[y]) : y \in D}

LEMMA InPairs ==
  ASSUME NEW D, NEW f
  PROVE  \A q : q \in Pairs(D, f) <=> \E y \in D : \E i \in 1..f[y] : q = <<y, i>>
BY DEF Pairs

LEMMA NoPairs ==
  ASSUME NEW D, NEW f, \A y \in D : f[y] = 0
  PROVE  IsFiniteSet(Pairs(D, f)) /\ Cardinality(Pairs(D, f)) = 0
<1>1. \A y \in D : 1..f[y] = {}
  OBVIOUS
<1>2. Pairs(D, f) = {}
  BY <1>1, InPairs
<1> QED
  BY <1>2, FS_EmptySet

LEMMA PairsGrow ==
  ASSUME NEW D, NEW f \in [D -> Nat], NEW g \in [D -> Nat], NEW x \in D, NEW k \in Nat,
         g[x] = f[x] + k, \A y \in D : y # x => g[y] = f[y], IsFiniteSet(Pairs(D, f))
  PROVE  IsFiniteSet(Pairs(D, g)) /\ Cardinality(Pairs(D, g)) = Cardinality(Pairs(D, f)) + k
<1> DEFINE new == (f[x] + 1)..(f[x] + k)
           more == {x} \X new
<1>1. IsFiniteSet(new) /\ Cardinality(new) = k
  <2>1. f[x] + 1 \in Int /\ f[x] + k \in Int /\ k >= 0
    OBVIOUS
  <2>2. \A a, b \in Int : IsFiniteSet(a..b) /\ Cardinality(a..b) = IF a > b THEN 0 ELSE b - a + 1
    BY FS_Interval
  <2>3. /\ IsFiniteSet(new)
        /\ Cardinality(new) = IF f[x] + 1 > f[x] + k THEN 0 ELSE (f[x] + k) - (f[x] + 1) + 1
    BY <2>1, <2>2
  <2>4. f[x] \in Nat
    OBVIOUS
  <2> HIDE DEF new
  <2> QED
    BY <2>3, <2>4
<1>2. IsFiniteSet(more) /\ Cardinality(more) = k
  <2>1. IsFiniteSet({x}) /\ Cardinality({x}) = 1
    BY FS_Singleton
  <2> HIDE DEF new
  <2>2. IsFiniteSet(more) /\ Cardinality(more) = 1 * Cardinality(new)
    BY <1>1, <2>1, FS_Product
  <2> QED
    BY <1>1, <2>2
<1>3. \A q : q \in more <=> \E i \in new : q = <<x, i>>
  OBVIOUS
<1>4. Pairs(D, g) = Pairs(D, f) \cup more
  <2>1. ASSUME NEW q, q \in Pairs(D, g) PROVE q \in Pairs(D, f) \cup more
    <3>1. PICK y \in D : \E i \in 1..g[y] : q = <<y, i>>
      BY <2>1, InPairs
    <3>2. PICK i \in 1..g[y] : q = <<y, i>>
      BY <3>1
    <3>3. y # x => i \in 1..f[y]
      BY <3>2
    <3>4. y = x => i \in 1..f[y] \/ i \in new
      BY <3>2
    <3>5. i \in 1..f[y] => q \in Pairs(D, f)
      BY <3>2, InPairs
    <3>6. y = x /\ i \in new => q \in more
      BY <1>3, <3>2
    <3> QED
      BY <3>3, <3>4, <3>5, <3>6
  <2>2. ASSUME NEW q, q \in Pairs(D, f) PROVE q \in Pairs(D, g)
    <3>1. PICK y \in D : \E i \in 1..f[y] : q = <<y, i>>
      BY <2>2, InPairs
    <3>2. PICK i \in 1..f[y] : q = <<y, i>>
      BY <3>1
    <3>3. f[y] \in Nat /\ g[y] \in Nat /\ f[y] <= g[y]
      OBVIOUS
    <3>4. i \in 1..g[y]
      BY <3>2, <3>3
    <3> QED
      BY <3>2, <3>4, InPairs
  <2>3. ASSUME NEW q, q \in more PROVE q \in Pairs(D, g)
    <3>1. PICK i \in new : q = <<x, i>>
      BY <1>3, <2>3
    <3>2. i \in 1..g[x]
      BY <3>1
    <3> QED
      BY <3>1, <3>2, InPairs
  <2> QED
    BY <2>1, <2>2, <2>3
<1>5. Pairs(D, f) \cap more = {}
  <2> SUFFICES ASSUME NEW q, q \in Pairs(D, f), q \in more PROVE FALSE
    OBVIOUS
  <2>1. PICK y \in D : \E i \in 1..f[y] : q = <<y, i>>
    BY InPairs
  <2>2. PICK i \in 1..f[y] : q = <<y, i>>
    BY <2>1
  <2>3. PICK j \in new : q = <<x, j>>
    BY <1>3
  <2>4. y = x /\ i = j
    BY <2>2, <2>3
  <2> QED
    BY <2>2, <2>3, <2>4
<1> HIDE DEF more
<1>6. /\ IsFiniteSet(Pairs(D, f) \cup more)
      /\ Cardinality(Pairs(D, f) \cup more) = Cardinality(Pairs(D, f)) + Cardinality(more) - Cardinality(Pairs(D, f) \cap more)
  BY <1>2, FS_Union
<1>7. Cardinality({}) = 0 /\ Cardinality(Pairs(D, f)) \in Nat
  BY FS_EmptySet, FS_CardinalityType
<1> QED
  BY <1>2, <1>4, <1>5, <1>6, <1>7

(* The executions: what a call of a tool has done, and what it is told.    *)
Said == {None, "success", "retryable_error", "timeout", "fatal_error", "invalid_args"}
Running(c) == executions[c].at \in {"running", "waiting"}
Busy == {c \in Callers : Running(c)}
Used == [t \in ToolNames |-> usage[t].calls]

ExecutionOk(e) ==
  /\ e.runs <= MaxRetries + 1
  /\ e.at = "waiting" => e.runs <= MaxRetries
  /\ e.at \in {"running", "waiting"} => e.tool \in ToolNames /\ e.status = None
  /\ e.at = "answered" /\ e.runs > 0 => e.status = e.last
  /\ e.status = "success" => e.last = "success"

ExecutionsTyped ==
  /\ executed \in Nat
  /\ executions \in [Callers -> [at : {"idle", "running", "waiting", "answered"}, tool : ToolNames \cup {None},
                                 runs : Nat, last : Said, status : Said]]
  /\ \A c \in Callers : ExecutionOk(executions[c])
  /\ usage \in [ToolNames -> [calls : Nat, errors : Nat]]
  /\ \A t \in ToolNames : usage[t].errors <= usage[t].calls

ExecutionsIInv ==
  /\ ExecutionsTyped
  /\ IsFiniteSet(Pairs(ToolNames, Used)) /\ Cardinality(Pairs(ToolNames, Used)) + Cardinality(Busy) <= executed

LEMMA BusyFinite == IsFiniteSet(Busy) /\ Cardinality(Busy) \in Nat
BY ToolsBounds, FS_Subset, FS_CardinalityType DEF Busy

LEMMA ExecutionsStart == Tools!Init => ExecutionsIInv
<1> SUFFICES ASSUME Tools!Init PROVE ExecutionsIInv
  OBVIOUS
<1>1. /\ executed = 0 /\ usage = [t \in ToolNames |-> [calls |-> 0, errors |-> 0]]
      /\ executions = [c \in Callers |-> [at |-> "idle", tool |-> None, runs |-> 0, last |-> None, status |-> None]]
  BY DEF Tools!Init, Tools!Idle
<1>2. ExecutionsTyped
  BY <1>1, ToolsBounds DEF ExecutionsTyped, ExecutionOk, Said
<1>3. \A t \in ToolNames : Used[t] = 0
  BY <1>1 DEF Used
<1>4. Busy = {}
  BY <1>1 DEF Busy, Running
<1> QED
  BY <1>1, <1>2, <1>3, <1>4, NoPairs, FS_EmptySet DEF ExecutionsIInv

LEMMA ExecuteKeeps ==
  ASSUME NEW c \in Callers, NEW t \in ToolNames, NEW valid \in BOOLEAN, ExecutionsIInv, Tools!Execute(c, t, valid)
  PROVE  ExecutionsIInv'
<1> DEFINE e == executions'[c]
<1>1. /\ executed' = executed + 1 /\ usage' = usage
      /\ executions' = [executions EXCEPT ![c] = e]
      /\ \/ e = [at |-> "running", tool |-> t, runs |-> 1, last |-> None, status |-> None]
         \/ e = [at |-> "answered", tool |-> t, runs |-> 0, last |-> None, status |-> "fatal_error"]
         \/ e = [at |-> "answered", tool |-> t, runs |-> 0, last |-> None, status |-> "invalid_args"]
  BY DEF Tools!Execute, Tools!Idle, ExecutionsIInv, ExecutionsTyped
<1>2. ExecutionOk(e) /\ e \in [at : {"idle", "running", "waiting", "answered"}, tool : ToolNames \cup {None},
                               runs : Nat, last : Said, status : Said]
  BY <1>1, ToolsBounds DEF ExecutionOk, Said
<1> HIDE DEF e
<1>3. ExecutionsTyped'
  BY <1>1, <1>2 DEF ExecutionsIInv, ExecutionsTyped, ExecutionOk
<1>4. Pairs(ToolNames, Used)' = Pairs(ToolNames, Used)
  BY <1>1 DEF Pairs, Used
<1>5. Busy' \in SUBSET (Busy \cup {c})
  BY <1>1 DEF ExecutionsIInv, ExecutionsTyped, Busy, Running
<1>6. PICK B, C : B = Busy /\ C = Busy'
  OBVIOUS
<1>7. IsFiniteSet(B) /\ Cardinality(B) \in Nat
  BY <1>6, BusyFinite
<1>8. IsFiniteSet(B \cup {c}) /\ Cardinality(B \cup {c}) <= Cardinality(B) + 1
  <2>1. IsFiniteSet(B \cup {c}) /\ Cardinality(B \cup {c}) = IF c \in B THEN Cardinality(B) ELSE Cardinality(B) + 1
    BY <1>7, FS_AddElement
  <2> QED
    BY <1>7, <2>1
<1>9. IsFiniteSet(C) /\ Cardinality(C) <= Cardinality(B \cup {c})
  BY <1>5, <1>6, <1>8, FS_Subset
<1>10. Cardinality(C) \in Nat /\ Cardinality(B \cup {c}) \in Nat /\ Cardinality(Pairs(ToolNames, Used)) \in Nat
  BY <1>8, <1>9, FS_CardinalityType DEF ExecutionsIInv
<1>11. Cardinality(Pairs(ToolNames, Used)) + Cardinality(C) <= executed + 1
  BY <1>6, <1>7, <1>8, <1>9, <1>10 DEF ExecutionsIInv, ExecutionsTyped
<1> QED
  BY <1>1, <1>3, <1>4, <1>6, <1>11 DEF ExecutionsIInv

LEMMA ExecutionChanges ==
  ASSUME NEW c \in Callers, NEW e, ExecutionsTyped, UNCHANGED executed,
         executions' = [executions EXCEPT ![c] = e], ExecutionOk(e),
         e \in [at : {"idle", "running", "waiting", "answered"}, tool : ToolNames \cup {None},
                runs : Nat, last : Said, status : Said],
         usage' \in [ToolNames -> [calls : Nat, errors : Nat]],
         \A t \in ToolNames : usage'[t].errors <= usage'[t].calls
  PROVE  ExecutionsTyped'
BY DEF ExecutionsTyped, ExecutionOk

LEMMA ReturnKeeps ==
  ASSUME NEW c \in Callers, NEW status \in {"success", "retryable_error"}, ExecutionsIInv, Tools!ToolReturns(c, status)
  PROVE  ExecutionsIInv'
<1> DEFINE t == executions[c].tool
           more == IF status = "success" THEN 0 ELSE 1
           u == [calls |-> usage[t].calls + 1, errors |-> usage[t].errors + more]
           e == [at |-> "answered", tool |-> t, runs |-> executions[c].runs, last |-> status, status |-> status]
<1>1. executions[c].at = "running" /\ t \in ToolNames /\ ExecutionOk(executions[c]) /\ c \in Busy
  BY DEF Tools!ToolReturns, ExecutionsIInv, ExecutionsTyped, ExecutionOk, Busy, Running
<1>2. executed' = executed /\ executions' = [executions EXCEPT ![c] = e]
  <2>1. executions'[c] = e
    BY DEF Tools!ToolReturns, ExecutionsIInv, ExecutionsTyped
  <2>2. executed' = executed /\ executions' = [executions EXCEPT ![c] = executions'[c]]
    BY DEF Tools!ToolReturns, ExecutionsIInv, ExecutionsTyped
  <2> QED
    BY <2>1, <2>2, Zenon
<1>3. usage' = [usage EXCEPT ![t] = u]
  <2>1. usage' = [usage EXCEPT ![t].calls = @ + 1, ![t].errors = @ + more]
    BY DEF Tools!ToolReturns
  <2>2. usage \in [ToolNames -> [calls : Nat, errors : Nat]] /\ t \in ToolNames /\ more \in Nat
    BY <1>1 DEF ExecutionsIInv, ExecutionsTyped
  <2> HIDE DEF t, more
  <2>3. usage'[t] = u
    BY <2>1, <2>2
  <2>4. usage' = [usage EXCEPT ![t] = usage'[t]]
    BY <2>1, <2>2
  <2> QED
    BY <2>3, <2>4, Zenon
<1>4. usage[t].calls \in Nat /\ usage[t].errors \in Nat /\ usage[t].errors <= usage[t].calls
  BY <1>1 DEF ExecutionsIInv, ExecutionsTyped
<1>5. ExecutionOk(e) /\ e \in [at : {"idle", "running", "waiting", "answered"}, tool : ToolNames \cup {None},
                               runs : Nat, last : Said, status : Said]
  BY <1>1 DEF ExecutionOk, Said, ExecutionsIInv, ExecutionsTyped
<1>6. u \in [calls : Nat, errors : Nat] /\ u.errors <= u.calls /\ u.calls = usage[t].calls + 1
  BY <1>4
<1> HIDE DEF e, u
<1>7. /\ usage' \in [ToolNames -> [calls : Nat, errors : Nat]]
      /\ \A n \in ToolNames : usage'[n].errors <= usage'[n].calls
  BY <1>1, <1>3, <1>6 DEF ExecutionsIInv, ExecutionsTyped
<1>8. ExecutionsTyped'
  BY <1>2, <1>5, <1>7, ExecutionChanges DEF ExecutionsIInv
<1>9. PICK f, g : f = Used /\ g = Used'
  OBVIOUS
<1>10. /\ f \in [ToolNames -> Nat] /\ g \in [ToolNames -> Nat] /\ g[t] = f[t] + 1
       /\ \A n \in ToolNames : n # t => g[n] = f[n]
  BY <1>1, <1>3, <1>6, <1>7, <1>9 DEF Used, ExecutionsIInv, ExecutionsTyped
<1>11. IsFiniteSet(Pairs(ToolNames, f)) /\ Cardinality(Pairs(ToolNames, f)) + Cardinality(Busy) <= executed
  BY <1>9 DEF ExecutionsIInv
<1>12. IsFiniteSet(Pairs(ToolNames, g)) /\ Cardinality(Pairs(ToolNames, g)) = Cardinality(Pairs(ToolNames, f)) + 1
  BY <1>1, <1>10, <1>11, PairsGrow
<1>13. Pairs(ToolNames, Used)' = Pairs(ToolNames, g)
  BY <1>9 DEF Pairs
<1>14. Busy' = Busy \ {c}
  BY <1>2 DEF e, Busy, Running, ExecutionsIInv, ExecutionsTyped
<1>15. PICK B, C : B = Busy /\ C = Busy'
  OBVIOUS
<1>16. Cardinality(B) \in Nat /\ Cardinality(B \ {c}) = Cardinality(B) - 1
  BY <1>1, <1>15, BusyFinite, FS_RemoveElement
<1>17. Cardinality(Pairs(ToolNames, f)) \in Nat
  BY <1>11, FS_CardinalityType
<1>18. Cardinality(Pairs(ToolNames, g)) + Cardinality(C) <= executed
  BY <1>11, <1>12, <1>14, <1>15, <1>16, <1>17 DEF ExecutionsIInv, ExecutionsTyped
<1> QED
  BY <1>2, <1>8, <1>12, <1>13, <1>15, <1>18 DEF ExecutionsIInv

(* A tool that raises is tried again, or its caller is told; the counts    *)
(* stay.                                                                   *)
LEMMA AgainKeeps ==
  ASSUME NEW c \in Callers, NEW e, ExecutionsIInv, UNCHANGED <<executed, usage>>, c \in Busy,
         executions' = [executions EXCEPT ![c] = e], ExecutionOk(e),
         e \in [at : {"idle", "running", "waiting", "answered"}, tool : ToolNames \cup {None},
                runs : Nat, last : Said, status : Said]
  PROVE  ExecutionsIInv'
<1>1. /\ usage' \in [ToolNames -> [calls : Nat, errors : Nat]]
      /\ \A n \in ToolNames : usage'[n].errors <= usage'[n].calls
  BY DEF ExecutionsIInv, ExecutionsTyped
<1>2. ExecutionsTyped'
  BY <1>1, ExecutionChanges DEF ExecutionsIInv
<1>3. Pairs(ToolNames, Used)' = Pairs(ToolNames, Used)
  BY DEF Pairs, Used
<1>4. Busy' \in SUBSET Busy
  BY DEF Busy, Running, ExecutionsIInv, ExecutionsTyped
<1>5. PICK B, C : B = Busy /\ C = Busy'
  OBVIOUS
<1>6. IsFiniteSet(B) /\ Cardinality(B) \in Nat
  BY <1>5, BusyFinite
<1>7. IsFiniteSet(C) /\ Cardinality(C) <= Cardinality(B) /\ Cardinality(C) \in Nat
  BY <1>4, <1>5, <1>6, FS_Subset, FS_CardinalityType
<1>8. Cardinality(Pairs(ToolNames, Used)) \in Nat
  BY FS_CardinalityType DEF ExecutionsIInv
<1>9. Cardinality(Pairs(ToolNames, Used)) + Cardinality(C) <= executed
  BY <1>5, <1>6, <1>7, <1>8 DEF ExecutionsIInv, ExecutionsTyped
<1> QED
  BY <1>2, <1>3, <1>5, <1>9 DEF ExecutionsIInv

LEMMA RaiseKeeps ==
  ASSUME NEW c \in Callers, NEW what \in {"timeout", "retryable_error", "fatal_error"},
         ExecutionsIInv, Tools!ToolRaises(c, what)
  PROVE  ExecutionsIInv'
<1> DEFINE n == executions[c].runs
           last == n = MaxRetries + 1
           e == [at |-> IF last THEN "answered" ELSE "waiting", tool |-> executions[c].tool, runs |-> n,
                 last |-> what, status |-> IF last THEN what ELSE None]
<1>1. executions[c].at = "running" /\ ExecutionOk(executions[c]) /\ c \in Busy
  BY DEF Tools!ToolRaises, ExecutionsIInv, ExecutionsTyped, Busy, Running
<1>2. executions' = [executions EXCEPT ![c] = e] /\ UNCHANGED <<executed, usage>>
  BY <1>1 DEF Tools!ToolRaises, ExecutionsIInv, ExecutionsTyped
<1>3. n \in Nat /\ n <= MaxRetries + 1 /\ MaxRetries \in Nat /\ None # "success"
  BY <1>1, ToolsBounds DEF ExecutionOk, ExecutionsIInv, ExecutionsTyped
<1>4. ExecutionOk(e)
  BY <1>1, <1>3 DEF ExecutionOk
<1>5. e \in [at : {"idle", "running", "waiting", "answered"}, tool : ToolNames \cup {None},
             runs : Nat, last : Said, status : Said]
  BY <1>1, <1>3 DEF ExecutionOk, Said, ExecutionsIInv, ExecutionsTyped
<1> QED
  BY <1>1, <1>2, <1>4, <1>5, AgainKeeps

LEMMA RetryKeeps ==
  ASSUME NEW c \in Callers, ExecutionsIInv, Tools!Retry(c)
  PROVE  ExecutionsIInv'
<1> DEFINE n == executions[c].runs
           e == [at |-> "running", tool |-> executions[c].tool, runs |-> n + 1,
                 last |-> executions[c].last, status |-> executions[c].status]
<1>1. executions[c].at = "waiting" /\ ExecutionOk(executions[c]) /\ c \in Busy
  BY DEF Tools!Retry, ExecutionsIInv, ExecutionsTyped, Busy, Running
<1>2. executions' = [executions EXCEPT ![c] = e] /\ UNCHANGED <<executed, usage>>
  BY <1>1 DEF Tools!Retry, ExecutionsIInv, ExecutionsTyped
<1>3. n \in Nat /\ n <= MaxRetries /\ MaxRetries \in Nat /\ None # "success"
  BY <1>1, ToolsBounds DEF ExecutionOk, ExecutionsIInv, ExecutionsTyped
<1>4. ExecutionOk(e)
  BY <1>1, <1>3 DEF ExecutionOk
<1>5. e \in [at : {"idle", "running", "waiting", "answered"}, tool : ToolNames \cup {None},
             runs : Nat, last : Said, status : Said]
  BY <1>1, <1>3 DEF ExecutionOk, Said, ExecutionsIInv, ExecutionsTyped
<1> QED
  BY <1>1, <1>2, <1>4, <1>5, AgainKeeps

LEMMA ExecutionsSteps == ExecutionsIInv /\ [Tools!Next]_(Tools!vars) => ExecutionsIInv'
<1> SUFFICES ASSUME ExecutionsIInv, [Tools!Next]_(Tools!vars) PROVE ExecutionsIInv'
  OBVIOUS
<1>1. CASE UNCHANGED <<usage, executions, executed>>
  <2>1. usage' = usage /\ executions' = executions /\ executed' = executed
    BY <1>1
  <2> QED
    BY <2>1 DEF ExecutionsIInv, ExecutionsTyped, ExecutionOk, Pairs, Used, Busy, Running
<1>2. Tools!RegistryNext \/ UNCHANGED <<usage, executions, executed>>
  BY OneOfTheTools
<1>3. \A t : Tools!Register(t) \/ Tools!Unregister(t) => UNCHANGED <<usage, executions, executed>>
  BY DEF Tools!Register, Tools!Unregister
<1> QED
  BY <1>1, <1>2, <1>3, ExecuteKeeps, ReturnKeeps, RaiseKeeps, RetryKeeps DEF Tools!RegistryNext

LEMMA ExecutionsGive == ExecutionsIInv => Tools!RetriesAreBounded
<1> SUFFICES ASSUME ExecutionsIInv PROVE Tools!RetriesAreBounded
  OBVIOUS
<1>1. UNION {{t} \X (1..usage[t].calls) : t \in ToolNames} = Pairs(ToolNames, Used)
  BY DEF Pairs, Used
<1>2. Cardinality(Busy) \in Nat /\ Cardinality(Pairs(ToolNames, Used)) \in Nat
  BY BusyFinite, FS_CardinalityType DEF ExecutionsIInv
<1>3. Cardinality(Pairs(ToolNames, Used)) <= executed
  BY <1>2 DEF ExecutionsIInv, ExecutionsTyped
<1> QED
  BY <1>1, <1>3, ToolsCount DEF ExecutionsIInv, ExecutionsTyped, ExecutionOk, Tools!RetriesAreBounded

(* The servers: what they list, once each in what was found.               *)
Once(s) == \A i, j \in 1..Len(s) : i # j => s[i] # s[j]

LEMMA EachOnce ==
  ASSUME NEW S \in SUBSET ToolNames
  PROVE  LET q == Tools!SetToSeq(S)
         IN  q \in Seq(ToolNames) /\ Once(q) /\ \A t : In(t, q) <=> t \in S
<1>1. IsFiniteSet(S) /\ Cardinality(S) \in Nat /\ ExistsBijection(1..Cardinality(S), S)
  BY ToolsBounds, FS_Subset, FS_CardinalityType
<1>2. PICK n \in Nat : n = Cardinality(S)
  BY <1>1
<1>3. PICK b \in Bijection(1..n, S) : TRUE
  BY <1>1, <1>2 DEF ExistsBijection
<1>4. b \in [1..n -> S] /\ \A i, j \in 1..n : b[i] = b[j] => i = j
  BY <1>3 DEF Bijection, Injection, IsInjective
<1> DEFINE q == CHOOSE f \in [1..n -> S] : \A i, j \in DOMAIN f : f[i] = f[j] => i = j
<1>5. q \in [1..n -> S] /\ \A i, j \in DOMAIN q : q[i] = q[j] => i = j
  BY <1>4
<1>6. Tools!SetToSeq(S) = q
  BY <1>2, ToolsCount DEF Tools!SetToSeq, Tools!IsInjective
<1> HIDE DEF q
<1>7. q \in Seq(ToolNames) /\ Len(q) = n /\ q \in Injection(1..n, S)
  <2>1. q \in [1..n -> ToolNames]
    BY <1>5
  <2> QED
    BY <1>5, <2>1 DEF Injection, IsInjective
<1>8. q \in Surjection(1..n, S)
  <2>1. Cardinality(1..n) = n
    <3>1. \A a, c \in Int : Cardinality(a..c) = IF a > c THEN 0 ELSE c - a + 1
      BY FS_Interval
    <3> QED
      BY <1>2, <3>1
  <2>2. Cardinality(1..n) = Cardinality(S) <=> q \in Surjection(1..n, S)
    BY <1>1, <1>7, FS_Injection
  <2> QED
    BY <1>2, <2>1, <2>2
<1>9. \A t : In(t, q) <=> t \in S
  BY <1>5, <1>7, <1>8 DEF Surjection, In
<1> QED
  BY <1>5, <1>6, <1>7, <1>9 DEF Once

LEMMA OnceTogether ==
  ASSUME NEW a \in Seq(ToolNames), NEW b \in Seq(ToolNames), Once(a), Once(b),
         \A t : ~(In(t, a) /\ In(t, b))
  PROVE  /\ a \o b \in Seq(ToolNames) /\ Once(a \o b)
         /\ \A t : In(t, a \o b) <=> In(t, a) \/ In(t, b)
<1> DEFINE r == a \o b
<1>1. /\ r \in Seq(ToolNames) /\ Len(r) = Len(a) + Len(b) /\ Len(a) \in Nat /\ Len(b) \in Nat
      /\ \A i \in 1..(Len(a) + Len(b)) : r[i] = IF i <= Len(a) THEN a[i] ELSE b[i - Len(a)]
  BY ConcatProperties
<1> HIDE DEF r
<1>2. \A i \in 1..Len(r) : \/ i \in 1..Len(a) /\ r[i] = a[i]
                           \/ i - Len(a) \in 1..Len(b) /\ r[i] = b[i - Len(a)]
  BY <1>1
<1>3. \A i \in 1..Len(a) : i \in 1..Len(r) /\ r[i] = a[i]
  BY <1>1
<1>4. \A i \in 1..Len(b) : i + Len(a) \in 1..Len(r) /\ r[i + Len(a)] = b[i]
  BY <1>1
<1>5. ASSUME NEW t PROVE In(t, r) <=> In(t, a) \/ In(t, b)
  <2>1. ASSUME In(t, r) PROVE In(t, a) \/ In(t, b)
    <3>1. PICK i \in 1..Len(r) : r[i] = t
      BY <2>1 DEF In
    <3>2. \/ i \in 1..Len(a) /\ r[i] = a[i]
          \/ i - Len(a) \in 1..Len(b) /\ r[i] = b[i - Len(a)]
      BY <1>2
    <3> QED
      BY <3>1, <3>2 DEF In
  <2>2. ASSUME In(t, a) PROVE In(t, r)
    BY <1>3, <2>2 DEF In
  <2>3. ASSUME In(t, b) PROVE In(t, r)
    <3>1. PICK i \in 1..Len(b) : b[i] = t
      BY <2>3 DEF In
    <3>2. i + Len(a) \in 1..Len(r) /\ r[i + Len(a)] = b[i]
      BY <1>4
    <3> QED
      BY <3>1, <3>2 DEF In
  <2> QED
    BY <2>1, <2>2, <2>3
<1>6. ASSUME NEW i \in 1..Len(r), NEW j \in 1..Len(r), i # j PROVE r[i] # r[j]
  <2>1. (i \in 1..Len(a) /\ r[i] = a[i]) \/ (i - Len(a) \in 1..Len(b) /\ r[i] = b[i - Len(a)])
    BY <1>2
  <2>2. (j \in 1..Len(a) /\ r[j] = a[j]) \/ (j - Len(a) \in 1..Len(b) /\ r[j] = b[j - Len(a)])
    BY <1>2
  <2>3. \A k \in 1..Len(a), l \in 1..Len(b) : a[k] # b[l]
    BY DEF In
  <2>4. i - Len(a) # j - Len(a)
    BY <1>1, <1>6
  <2> QED
    BY <1>6, <2>1, <2>2, <2>3, <2>4 DEF Once
<1>7. Once(r)
  BY <1>6 DEF Once
<1> QED
  BY <1>1, <1>5, <1>7 DEF r

FoundIInv ==
  /\ listed \in [Servers -> SUBSET ToolNames] /\ discovered \in SUBSET (Servers \X ToolNames)
  /\ byServer \in [Servers -> Seq(ToolNames)] /\ foundBy \in [Searchers -> Nat]
  /\ IsFiniteSet(Pairs(Searchers, foundBy)) /\ Cardinality(Pairs(Searchers, foundBy)) = Cardinality(discovered)
  /\ \A s \in Servers : Once(byServer[s]) /\ \A t : In(t, byServer[s]) <=> <<s, t>> \in discovered

LEMMA FoundStarts == Tools!Init => FoundIInv
<1> SUFFICES ASSUME Tools!Init PROVE FoundIInv
  OBVIOUS
<1>1. /\ listed = [s \in Servers |-> {}] /\ discovered = {}
      /\ byServer = [s \in Servers |-> <<>>] /\ foundBy = [w \in Searchers |-> 0]
  BY DEF Tools!Init
<1>2. <<>> \in Seq(ToolNames) /\ Len(<<>>) = 0
  BY EmptySeq
<1>3. \A w \in Searchers : foundBy[w] = 0
  BY <1>1
<1>4. byServer \in [Servers -> Seq(ToolNames)] /\ \A s \in Servers : byServer[s] = <<>>
  BY <1>1, <1>2
<1> QED
  BY <1>1, <1>2, <1>3, <1>4, NoPairs, FS_EmptySet DEF FoundIInv, Once, In

LEMMA ListsKeep ==
  ASSUME NEW w \in Searchers, NEW s \in Servers, NEW answer \in SUBSET ToolNames, FoundIInv,
         Tools!ServerLists(w, s, answer)
  PROVE  FoundIInv'
<1> DEFINE new == {t \in answer : <<s, t>> \notin discovered}
           q == Tools!SetToSeq(new)
           k == Cardinality(new)
<1>1. /\ discovered' = discovered \cup {<<s, t>> : t \in new} /\ listed' = listed
      /\ byServer' = [byServer EXCEPT ![s] = byServer[s] \o q]
      /\ foundBy' = [foundBy EXCEPT ![w] = foundBy[w] + k]
  BY ToolsCount DEF Tools!ServerLists, Tools!Unknown
<1>2. new \in SUBSET ToolNames /\ \A t \in new : <<s, t>> \notin discovered
  OBVIOUS
<1> HIDE DEF new
<1>3. q \in Seq(ToolNames) /\ Once(q) /\ \A t : In(t, q) <=> t \in new
  BY <1>2, EachOnce
<1>4. IsFiniteSet(new) /\ k \in Nat
  BY <1>2, ToolsBounds, FS_Subset, FS_CardinalityType
<1> HIDE DEF q, k
<1>5. byServer[s] \in Seq(ToolNames) /\ Once(byServer[s]) /\ \A t : In(t, byServer[s]) <=> <<s, t>> \in discovered
  BY DEF FoundIInv
<1>6. /\ byServer[s] \o q \in Seq(ToolNames) /\ Once(byServer[s] \o q)
      /\ \A t : In(t, byServer[s] \o q) <=> <<s, t>> \in discovered \/ t \in new
  <2>1. \A t : ~(In(t, byServer[s]) /\ In(t, q))
    BY <1>2, <1>3, <1>5
  <2>2. /\ byServer[s] \o q \in Seq(ToolNames) /\ Once(byServer[s] \o q)
        /\ \A t : In(t, byServer[s] \o q) <=> In(t, byServer[s]) \/ In(t, q)
    BY <1>3, <1>5, <2>1, OnceTogether
  <2> QED
    BY <1>3, <1>5, <2>2
<1>7. discovered' \in SUBSET (Servers \X ToolNames)
  BY <1>1, <1>2 DEF FoundIInv
<1>8. byServer' \in [Servers -> Seq(ToolNames)] /\ foundBy' \in [Searchers -> Nat]
  BY <1>1, <1>4, <1>6 DEF FoundIInv
<1>9. ASSUME NEW v \in Servers PROVE Once(byServer'[v]) /\ \A t : In(t, byServer'[v]) <=> <<v, t>> \in discovered'
  <2>1. CASE v = s
    <3>1. byServer'[v] = byServer[s] \o q
      BY <1>1, <2>1 DEF FoundIInv
    <3>2. \A t : <<s, t>> \in discovered' <=> <<s, t>> \in discovered \/ t \in new
      BY <1>1
    <3> QED
      BY <1>6, <2>1, <3>1, <3>2
  <2>2. CASE v # s
    <3>1. byServer'[v] = byServer[v]
      BY <1>1, <2>2 DEF FoundIInv
    <3>2. \A t : <<v, t>> \in discovered' <=> <<v, t>> \in discovered
      BY <1>1, <2>2
    <3> QED
      BY <3>1, <3>2 DEF FoundIInv
  <2> QED
    BY <2>1, <2>2
<1>10. IsFiniteSet(discovered) /\ Cardinality(discovered) \in Nat
  <2>1. IsFiniteSet(Servers \X ToolNames)
    BY ToolsBounds, FS_Product
  <2> QED
    BY <2>1, FS_Subset, FS_CardinalityType DEF FoundIInv
<1>11. Cardinality(discovered') = Cardinality(discovered) + k
  <2> DEFINE more == {s} \X new
  <2>1. {<<s, t>> : t \in new} = more
    OBVIOUS
  <2>2. IsFiniteSet({s}) /\ Cardinality({s}) = 1
    BY FS_Singleton
  <2>3. IsFiniteSet(more) /\ Cardinality(more) = 1 * k
    BY <1>4, <2>2, FS_Product DEF k
  <2>4. discovered \cap more = {}
    BY <1>2
  <2> HIDE DEF more
  <2>5. Cardinality(discovered \cup more)
          = Cardinality(discovered) + Cardinality(more) - Cardinality(discovered \cap more)
    BY <1>10, <2>3, FS_Union
  <2>6. Cardinality(discovered \cap more) = 0
    BY <2>4, FS_EmptySet
  <2>7. Cardinality(more) = k
    BY <1>4, <2>3
  <2>8. discovered' = discovered \cup more
    BY <1>1, <2>1
  <2> QED
    BY <1>4, <1>10, <2>5, <2>6, <2>7, <2>8
<1>12. PICK f, g : f = foundBy /\ g = foundBy'
  OBVIOUS
<1>13. IsFiniteSet(Pairs(Searchers, g)) /\ Cardinality(Pairs(Searchers, g)) = Cardinality(Pairs(Searchers, f)) + k
  <2>1. /\ f \in [Searchers -> Nat] /\ g \in [Searchers -> Nat] /\ g[w] = f[w] + k
        /\ \A y \in Searchers : y # w => g[y] = f[y]
    BY <1>1, <1>8, <1>12 DEF FoundIInv
  <2>2. IsFiniteSet(Pairs(Searchers, f))
    BY <1>12 DEF FoundIInv
  <2> QED
    BY <1>4, <2>1, <2>2, PairsGrow
<1>14. Pairs(Searchers, foundBy)' = Pairs(Searchers, g)
  BY <1>12 DEF Pairs
<1>15. /\ IsFiniteSet(Pairs(Searchers, foundBy))'
       /\ Cardinality(Pairs(Searchers, foundBy))' = Cardinality(discovered)'
  BY <1>11, <1>12, <1>13, <1>14 DEF FoundIInv
<1> QED
  BY <1>1, <1>7, <1>8, <1>9, <1>15 DEF FoundIInv

LEMMA FoundSteps == FoundIInv /\ [Tools!Next]_(Tools!vars) => FoundIInv'
<1> SUFFICES ASSUME FoundIInv, [Tools!Next]_(Tools!vars) PROVE FoundIInv'
  OBVIOUS
<1>1. ASSUME UNCHANGED <<discovered, byServer, foundBy>>, listed' \in [Servers -> SUBSET ToolNames]
      PROVE  FoundIInv'
  <2>1. discovered' = discovered /\ byServer' = byServer /\ foundBy' = foundBy
    BY <1>1
  <2>2. Pairs(Searchers, foundBy)' = Pairs(Searchers, foundBy)
    BY <2>1 DEF Pairs
  <2>3. \A s \in Servers : Once(byServer'[s]) /\ \A t : In(t, byServer'[s]) <=> <<s, t>> \in discovered'
    BY <2>1 DEF FoundIInv
  <2> QED
    BY <1>1, <2>1, <2>2, <2>3 DEF FoundIInv
<1>2. \A w : Tools!SearchAll(w) => UNCHANGED <<listed, discovered, byServer, foundBy>>
  BY DEF Tools!SearchAll
<1>3. \A s \in Servers, t \in ToolNames : Tools!Offer(s, t) =>
        UNCHANGED <<discovered, byServer, foundBy>> /\ listed' \in [Servers -> SUBSET ToolNames]
  BY DEF Tools!Offer, FoundIInv
<1>4. \A o \in Offered : o[1] \in Servers /\ o[2] \in ToolNames
  BY ToolsBounds
<1>5. \A s \in Servers : listed[s] \in SUBSET ToolNames /\ {} \in SUBSET ToolNames
  BY DEF FoundIInv
<1>6. listed \in [Servers -> SUBSET ToolNames]
  BY DEF FoundIInv
<1>7. Tools!DiscoveryNext \/ UNCHANGED <<listed, discovered, byServer, foundBy>>
  BY OneOfTheTools
<1>8. ASSUME Tools!DiscoveryNext PROVE FoundIInv'
  <2>1. ASSUME NEW w \in Searchers, NEW s \in Servers, Tools!ServerLists(w, s, listed[s]) \/ Tools!ServerLists(w, s, {})
        PROVE  FoundIInv'
    BY <1>5, <2>1, ListsKeep
  <2>2. ASSUME NEW o \in Offered, Tools!Offer(o[1], o[2]) PROVE FoundIInv'
    BY <1>1, <1>3, <1>4, <2>2
  <2>3. ASSUME NEW w \in Searchers, Tools!SearchAll(w) PROVE FoundIInv'
    BY <1>1, <1>2, <1>6, <2>3
  <2> QED
    BY <1>8, <2>1, <2>2, <2>3 DEF Tools!DiscoveryNext
<1> QED
  BY <1>1, <1>6, <1>7, <1>8

LEMMA FoundGives == FoundIInv => Tools!FoundOnce
<1> SUFFICES ASSUME FoundIInv PROVE Tools!FoundOnce
  OBVIOUS
<1>1. UNION {{w} \X (1..foundBy[w]) : w \in Searchers} = Pairs(Searchers, foundBy)
  BY DEF Pairs
<1>2. ASSUME NEW s \in Servers
      PROVE  /\ Tools!ToSet(byServer[s]) = {t \in ToolNames : <<s, t>> \in discovered}
             /\ \A i, j \in DOMAIN byServer[s] : i # j => byServer[s][i] # byServer[s][j]
  <2>1. byServer[s] \in Seq(ToolNames) /\ Once(byServer[s])
    BY DEF FoundIInv
  <2>2. \A t : t \in Tools!ToSet(byServer[s]) <=> In(t, byServer[s])
    BY <2>1, InToSet, ToSetIn
  <2>3. \A t : t \in Tools!ToSet(byServer[s]) <=> t \in ToolNames /\ <<s, t>> \in discovered
    BY <2>2 DEF FoundIInv
  <2>4. DOMAIN byServer[s] = 1..Len(byServer[s])
    BY <2>1
  <2> QED
    BY <2>1, <2>3, <2>4 DEF Once
<1> QED
  BY <1>1, <1>2, ToolsCount DEF FoundIInv, Tools!FoundOnce

(* The server of tools: the last request and what was called for it.       *)
ServedIInv ==
  /\ served \in Nat /\ errors \in Nat /\ errors <= served /\ reply.id = served
  /\ called \in {<<>>, <<"before">>, <<"before", "tool">>, <<"before", "tool", "after">>}
  /\ reply.asked = "call" => (reply.kind \in {"result", "result_is_error"} <=> called = <<"before", "tool", "after">>)

LEMMA ServedStarts == Tools!Init => ServedIInv
BY WaitsAssumption DEF Tools!Init, Tools!NoReply, ServedIInv

LEMMA Answered ==
  ASSUME NEW kind, NEW asked, NEW counted \in BOOLEAN, ServedIInv, Tools!Answer(kind, asked, counted),
         called' \in {<<>>, <<"before">>, <<"before", "tool">>, <<"before", "tool", "after">>},
         asked = "call" => (kind \in {"result", "result_is_error"} <=> called' = <<"before", "tool", "after">>)
  PROVE  ServedIInv'
<1>1. served' = served + 1 /\ errors' = errors + (IF counted THEN 1 ELSE 0)
      /\ reply' = [id |-> served + 1, asked |-> asked, kind |-> kind]
  BY DEF Tools!Answer
<1> QED
  BY <1>1 DEF ServedIInv

LEMMA ServedSteps == ServedIInv /\ [Tools!Next]_(Tools!vars) => ServedIInv'
<1> SUFFICES ASSUME ServedIInv, [Tools!Next]_(Tools!vars) PROVE ServedIInv'
  OBVIOUS
<1>1. CASE UNCHANGED <<served, errors, reply, called>>
  BY <1>1 DEF ServedIInv
<1>2. Tools!ServerNext \/ UNCHANGED <<served, errors, reply, called>>
  BY OneOfTheTools
<1>3. ASSUME NEW k \in {"parse_error", "invalid_request", "method_not_found", "internal_error"}, Tools!HandleMalformed(k)
      PROVE  ServedIInv'
  <2>1. Tools!Answer(k, "malformed", k # "method_not_found") /\ called' = <<>>
    BY <1>3 DEF Tools!HandleMalformed
  <2> QED
    BY <2>1, Answered
<1>4. ASSUME Tools!HandlePlain PROVE ServedIInv'
  <2>1. Tools!Answer("result", "plain", FALSE) /\ called' = <<>>
    BY <1>4 DEF Tools!HandlePlain
  <2> QED
    BY <2>1, Answered
<1>5. ASSUME NEW known \in BOOLEAN, NEW b \in {"returns", "raises"}, NEW a \in {"returns", "raises"},
             NEW o \in {"success", "error", "raises"}, Tools!HandleCall(known, b, o, a)
      PROVE  ServedIInv'
  <2> DEFINE kind == IF ~known THEN "invalid_params"
                     ELSE IF b = "raises" \/ o = "raises" THEN "internal_error"
                     ELSE IF o = "success" THEN "result" ELSE "result_is_error"
  <2>1. /\ Tools!Answer(kind, "call", FALSE)
        /\ called' = IF ~known THEN <<>>
                     ELSE IF b = "raises" THEN <<"before">>
                     ELSE IF o = "raises" THEN <<"before", "tool">> ELSE <<"before", "tool", "after">>
    BY <1>5 DEF Tools!HandleCall
  <2>2. kind \in {"result", "result_is_error"} <=> called' = <<"before", "tool", "after">>
    BY <2>1
  <2>3. called' \in {<<>>, <<"before">>, <<"before", "tool">>, <<"before", "tool", "after">>}
    BY <2>1
  <2> HIDE DEF kind
  <2> QED
    BY <2>1, <2>2, <2>3, Answered
<1>6. ASSUME NEW r, NEW raises \in BOOLEAN, Tools!HandleRead(r, raises) PROVE ServedIInv'
  <2> DEFINE kind == IF r \notin resources THEN "invalid_params" ELSE IF raises THEN "internal_error" ELSE "result"
  <2>1. Tools!Answer(kind, "read", FALSE) /\ called' = <<>>
    BY <1>6 DEF Tools!HandleRead
  <2> HIDE DEF kind
  <2> QED
    BY <2>1, Answered
<1>7. \A r : Tools!RegisterResource(r) => UNCHANGED <<served, errors, reply, called>>
  BY DEF Tools!RegisterResource
<1>8. \A s, n : Tools!ConnectPeer(s) \/ Tools!DisconnectPeer(s) \/ Tools!RegisterPeer(s, n) => UNCHANGED <<served, errors, reply, called>>
  BY DEF Tools!ConnectPeer, Tools!DisconnectPeer, Tools!RegisterPeer
<1> QED
  BY <1>1, <1>2, <1>3, <1>4, <1>5, <1>6, <1>7, <1>8 DEF Tools!ServerNext

LEMMA ServedGives == ServedIInv => Tools!HooksGuard
<1> SUFFICES ASSUME ServedIInv PROVE Tools!HooksGuard
  OBVIOUS
<1>1. Tools!Contains(called, "tool") => called[1] = "before"
  BY DEF ServedIInv, Tools!Contains
<1> QED
  BY <1>1 DEF ServedIInv, Tools!HooksGuard

(* The pool of the peers.                                                  *)
Peer == [name : Servers, connected : BOOLEAN, tools : Nat]
PoolIInv == pool \in Seq(Peer) /\ \A i, j \in 1..Len(pool) : i # j => pool[i].name # pool[j].name

LEMMA PeersReplaced ==
  ASSUME NEW p, PoolIInv, pool' = [i \in DOMAIN pool |-> p[i]],
         \A i \in 1..Len(pool) : p[i] \in Peer /\ p[i].name = pool[i].name
  PROVE  PoolIInv'
<1>1. DOMAIN pool = 1..Len(pool) /\ Len(pool) \in Nat
  BY DEF PoolIInv
<1>2. pool' = [i \in 1..Len(pool) |-> p[i]]
  BY <1>1
<1>3. pool' \in Seq(Peer) /\ Len(pool') = Len(pool) /\ \A i \in 1..Len(pool) : pool'[i] = p[i]
  BY <1>1, <1>2, IsASeq
<1> QED
  BY <1>3 DEF PoolIInv

LEMMA PeerAdded ==
  ASSUME NEW p \in Peer, PoolIInv, pool' = Append(pool, p), ~\E i \in 1..Len(pool) : pool[i].name = p.name
  PROVE  PoolIInv'
<1>1. /\ pool' \in Seq(Peer) /\ Len(pool) \in Nat /\ Len(pool') = Len(pool) + 1 /\ pool'[Len(pool) + 1] = p
      /\ \A i \in 1..Len(pool) : pool'[i] = pool[i]
  BY AppendProperties DEF PoolIInv
<1> QED
  BY <1>1 DEF PoolIInv

LEMMA PoolSteps == PoolIInv /\ [Tools!Next]_(Tools!vars) => PoolIInv'
<1> SUFFICES ASSUME PoolIInv, [Tools!Next]_(Tools!vars) PROVE PoolIInv'
  OBVIOUS
<1>0. DOMAIN pool = 1..Len(pool) /\ \A i \in 1..Len(pool) : pool[i] \in Peer
  BY ElementOfSeq DEF PoolIInv
<1>1. CASE pool' = pool
  BY <1>1 DEF PoolIInv
<1>2. ASSUME NEW s \in Servers, Tools!ConnectPeer(s) PROVE PoolIInv'
  <2>1. CASE \E i \in DOMAIN pool : pool[i].name = s
    <3> DEFINE p == [i \in DOMAIN pool |-> IF pool[i].name = s THEN [pool[i] EXCEPT !.connected = TRUE] ELSE pool[i]]
    <3>1. pool' = [i \in DOMAIN pool |-> p[i]]
      BY <1>2, <2>1 DEF Tools!ConnectPeer
    <3>2. \A i \in 1..Len(pool) : p[i] \in Peer /\ p[i].name = pool[i].name
      BY <1>0 DEF Peer
    <3> HIDE DEF p
    <3> QED
      BY <3>1, <3>2, PeersReplaced
  <2>2. CASE ~\E i \in DOMAIN pool : pool[i].name = s
    <3> DEFINE p == [name |-> s, connected |-> TRUE, tools |-> 0]
    <3>1. pool' = Append(pool, p)
      BY <1>2, <2>2 DEF Tools!ConnectPeer
    <3>2. p \in Peer /\ ~\E i \in 1..Len(pool) : pool[i].name = p.name
      BY <1>0, <2>2 DEF Peer
    <3> HIDE DEF p
    <3> QED
      BY <3>1, <3>2, PeerAdded
  <2> QED
    BY <2>1, <2>2
<1>3. ASSUME NEW s \in Servers, NEW n \in {0, 2}, Tools!RegisterPeer(s, n) PROVE PoolIInv'
  <2> DEFINE peer == [name |-> s, connected |-> TRUE, tools |-> n]
  <2>0. peer \in Peer /\ peer.name = s
    BY DEF Peer
  <2>1. CASE \E i \in DOMAIN pool : pool[i].name = s
    <3> DEFINE p == [i \in DOMAIN pool |-> IF pool[i].name = s THEN peer ELSE pool[i]]
    <3>1. pool' = [i \in DOMAIN pool |-> p[i]]
      BY <1>3, <2>1 DEF Tools!RegisterPeer
    <3>2. \A i \in 1..Len(pool) : p[i] \in Peer /\ p[i].name = pool[i].name
      BY <1>0, <2>0
    <3> HIDE DEF p
    <3> QED
      BY <3>1, <3>2, PeersReplaced
  <2>2. CASE ~\E i \in DOMAIN pool : pool[i].name = s
    <3>1. pool' = Append(pool, peer)
      BY <1>3, <2>2 DEF Tools!RegisterPeer
    <3>2. ~\E i \in 1..Len(pool) : pool[i].name = peer.name
      BY <1>0, <2>0, <2>2
    <3> HIDE DEF peer
    <3> QED
      BY <2>0, <3>1, <3>2, PeerAdded
  <2> QED
    BY <2>1, <2>2
<1>4. ASSUME NEW s \in Servers, Tools!DisconnectPeer(s) PROVE PoolIInv'
  <2> DEFINE p == [i \in DOMAIN pool |-> IF pool[i].name = s THEN [pool[i] EXCEPT !.connected = FALSE] ELSE pool[i]]
  <2>1. pool' = [i \in DOMAIN pool |-> p[i]]
    BY <1>4 DEF Tools!DisconnectPeer
  <2>2. \A i \in 1..Len(pool) : p[i] \in Peer /\ p[i].name = pool[i].name
    BY <1>0 DEF Peer
  <2> HIDE DEF p
  <2> QED
    BY <2>1, <2>2, PeersReplaced
<1>5. Tools!ServerNext \/ pool' = pool
  BY OneOfTheTools
<1>6. \A k, b, o, a : Tools!HandleMalformed(k) \/ Tools!HandlePlain \/ Tools!HandleCall(k, b, o, a)
                       \/ Tools!HandleRead(k, a) \/ Tools!RegisterResource(k) => pool' = pool
  BY DEF Tools!HandleMalformed, Tools!HandlePlain, Tools!HandleCall, Tools!HandleRead, Tools!RegisterResource
<1> QED
  BY <1>1, <1>2, <1>3, <1>4, <1>5, <1>6 DEF Tools!ServerNext

LEMMA PoolStarts == Tools!Init => PoolIInv
<1>1. Tools!Init => pool = <<>> /\ <<>> \in Seq(Peer) /\ Len(<<>>) = 0
  BY EmptySeq DEF Tools!Init
<1> QED
  BY <1>1 DEF PoolIInv

LEMMA PoolGives == PoolIInv => Tools!PeersOnce
BY DEF PoolIInv, Tools!PeersOnce

(* The guard of the agents: what an agent did.                             *)
RecentOf(h, n, A) == {i \in 1..n : i + HistoryKept > n /\ h[i] \in A}

GuardIInv ==
  /\ acted \in Seq(Actions)
  /\ \A n \in 0..(Len(acted) - 1) : ~Tools!Loop(SubSeq(acted, 1, n))
  /\ \A a \in DOMAIN Limited : \A n \in 0..Len(acted) : Cardinality(RecentOf(acted, n, Limited[a])) <= MaxOperations

LEMMA RecentFinite ==
  ASSUME NEW h, NEW n \in Nat, NEW A
  PROVE  IsFiniteSet(RecentOf(h, n, A)) /\ Cardinality(RecentOf(h, n, A)) \in Nat
<1>1. RecentOf(h, n, A) \in SUBSET (1..n)
  BY DEF RecentOf
<1>2. IsFiniteSet(1..n)
  <2>1. \A a, b \in Int : IsFiniteSet(a..b)
    BY FS_Interval
  <2> QED
    BY <2>1
<1> QED
  BY <1>1, <1>2, FS_Subset, FS_CardinalityType

LEMMA GuardStarts == Tools!Init => GuardIInv
<1> SUFFICES ASSUME Tools!Init PROVE GuardIInv
  OBVIOUS
<1>1. acted = <<>>
  BY DEF Tools!Init
<1>2. acted \in Seq(Actions) /\ Len(acted) = 0
  BY <1>1, EmptySeq
<1>3. \A A : RecentOf(acted, 0, A) = {}
  BY DEF RecentOf
<1>4. /\ 0..(Len(acted) - 1) = {}
      /\ \A n \in 0..Len(acted) : n = 0
  BY <1>2
<1>5. \A A : Cardinality(RecentOf(acted, 0, A)) <= MaxOperations
  BY <1>3, FS_EmptySet, ToolsBounds
<1>6. \A a \in DOMAIN Limited : \A n \in 0..Len(acted) : Cardinality(RecentOf(acted, n, Limited[a])) <= MaxOperations
  BY <1>4, <1>5
<1> QED
  BY <1>2, <1>4, <1>6 DEF GuardIInv

LEMMA GuardSteps == GuardIInv /\ [Tools!Next]_(Tools!vars) => GuardIInv'
<1> SUFFICES ASSUME GuardIInv, [Tools!Next]_(Tools!vars) PROVE GuardIInv'
  OBVIOUS
<1>1. CASE acted' = acted
  BY <1>1 DEF GuardIInv, RecentOf, Tools!Loop, Tools!LastOf
<1>2. ASSUME NEW act \in Actions, Tools!Act(act) PROVE GuardIInv'
  <2> DEFINE n == Len(acted)
  <2>1. ~Tools!Loop(acted) /\ Tools!Permitted(acted, act) /\ acted' = Append(acted, act)
    BY <1>2 DEF Tools!Act
  <2>2. acted \in Seq(Actions) /\ n \in Nat
    BY DEF GuardIInv
  <2>3. /\ acted' \in Seq(Actions) /\ Len(acted') = n + 1 /\ acted'[n + 1] = act
        /\ \A i \in 1..n : acted'[i] = acted[i]
    BY <2>1, <2>2, AppendProperties
  <2>4. ASSUME NEW m \in 0..n PROVE SubSeq(acted', 1, m) = SubSeq(acted, 1, m)
    <3>1. \A i \in 1..m : acted'[i] = acted[i] /\ acted[i] \in Actions /\ acted'[i] \in Actions
      BY <2>2, <2>3, ElementOfSeq
    <3>2. m \in Int /\ 1 \in Int
      OBVIOUS
    <3>3. /\ SubSeq(acted, 1, m) \in Seq(Actions) /\ Len(SubSeq(acted, 1, m)) = IF 1 <= m THEN m - 1 + 1 ELSE 0
          /\ \A i \in 1..(m - 1 + 1) : SubSeq(acted, 1, m)[i] = acted[1 + i - 1]
      BY <2>2, <3>1, <3>2, SubSeqProperties
    <3>4. /\ SubSeq(acted', 1, m) \in Seq(Actions) /\ Len(SubSeq(acted', 1, m)) = IF 1 <= m THEN m - 1 + 1 ELSE 0
          /\ \A i \in 1..(m - 1 + 1) : SubSeq(acted', 1, m)[i] = acted'[1 + i - 1]
      BY <2>3, <3>1, <3>2, SubSeqProperties
    <3>5. PICK a, b : a = SubSeq(acted, 1, m) /\ b = SubSeq(acted', 1, m)
      OBVIOUS
    <3>6. a \in Seq(Actions) /\ b \in Seq(Actions) /\ Len(a) = m /\ Len(b) = m
      BY <3>3, <3>4, <3>5
    <3>7. \A i \in 1..m : a[i] = b[i]
      BY <3>1, <3>3, <3>4, <3>5
    <3>8. a = b
      BY <3>6, <3>7, SeqEqual
    <3> QED
      BY <3>5, <3>8
  <2>5. SubSeq(acted, 1, n) = acted
    <3>1. \A i \in 1..n : acted[i] \in Actions
      BY <2>2, ElementOfSeq
    <3>2. /\ SubSeq(acted, 1, n) \in Seq(Actions) /\ Len(SubSeq(acted, 1, n)) = IF 1 <= n THEN n - 1 + 1 ELSE 0
          /\ \A i \in 1..(n - 1 + 1) : SubSeq(acted, 1, n)[i] = acted[1 + i - 1]
      BY <2>2, <3>1, SubSeqProperties
    <3>3. PICK a : a = SubSeq(acted, 1, n)
      OBVIOUS
    <3>4. a \in Seq(Actions) /\ Len(a) = n /\ \A i \in 1..n : a[i] = acted[i]
      BY <2>2, <3>2, <3>3
    <3> QED
      BY <2>2, <3>3, <3>4, SeqEqual
  <2>6. ASSUME NEW m \in 0..(Len(acted') - 1) PROVE ~Tools!Loop(SubSeq(acted', 1, m))
    <3>1. m \in 0..n /\ (m = n \/ m \in 0..(n - 1))
      BY <2>2, <2>3
    <3>2. SubSeq(acted', 1, m) = SubSeq(acted, 1, m)
      BY <2>4, <3>1
    <3>3. ~Tools!Loop(SubSeq(acted, 1, m))
      BY <2>1, <2>5, <3>1 DEF GuardIInv
    <3> QED
      BY <3>2, <3>3, Zenon
  <2>7. ASSUME NEW a \in DOMAIN Limited, NEW m \in 0..Len(acted')
        PROVE  Cardinality(RecentOf(acted', m, Limited[a])) <= MaxOperations
    <3> DEFINE A == Limited[a]
    <3>1. CASE m \in 0..n
      <4>1. RecentOf(acted', m, A) = RecentOf(acted, m, A)
        BY <2>2, <2>3, <3>1 DEF RecentOf
      <4> QED
        BY <3>1, <4>1 DEF GuardIInv
    <3>2. CASE m = n + 1
      <4>1. PICK B, C : B = RecentOf(acted, n, A) /\ C = RecentOf(acted', m, A)
        OBVIOUS
      <4>2. IsFiniteSet(B) /\ Cardinality(B) \in Nat /\ Cardinality(B) <= MaxOperations /\ MaxOperations \in Nat
        BY <2>2, <4>1, RecentFinite, ToolsBounds DEF GuardIInv
      <4>3. CASE act \in A
        <5>1. act \in DOMAIN Limited /\ Limited[act] = A
          BY <4>3, ToolsBounds
        <5>2. Cardinality(B) < MaxOperations
          BY <2>1, <4>1, <5>1, ToolsCount DEF RecentOf, Tools!Permitted, Tools!Recently
        <5>3. C \in SUBSET (B \cup {n + 1})
          BY <2>2, <2>3, <3>2, <4>1, ToolsBounds DEF RecentOf
        <5>4. IsFiniteSet(B \cup {n + 1}) /\ Cardinality(B \cup {n + 1}) = IF n + 1 \in B THEN Cardinality(B) ELSE Cardinality(B) + 1
          BY <4>2, FS_AddElement
        <5>5. IsFiniteSet(C) /\ Cardinality(C) <= Cardinality(B \cup {n + 1}) /\ Cardinality(C) \in Nat
          BY <5>3, <5>4, FS_Subset, FS_CardinalityType
        <5> QED
          BY <4>1, <4>2, <5>2, <5>4, <5>5
      <4>4. CASE act \notin A
        <5>1. C \in SUBSET B
          BY <2>2, <2>3, <3>2, <4>1, <4>4, ToolsBounds DEF RecentOf
        <5>2. Cardinality(C) <= Cardinality(B) /\ Cardinality(C) \in Nat
          BY <4>2, <5>1, FS_Subset, FS_CardinalityType
        <5> QED
          BY <4>1, <4>2, <5>2
      <4> QED
        BY <4>3, <4>4
    <3> QED
      BY <2>2, <2>3, <3>1, <3>2
  <2> QED
    BY <2>3, <2>6, <2>7 DEF GuardIInv
<1> QED
  BY <1>1, <1>2, OneOfTheTools

LEMMA GuardGives == GuardIInv => Tools!AgentIsHeld
BY ToolsCount DEF GuardIInv, RecentOf, Tools!AgentIsHeld, Tools!Recently

(* The log of what was called, and the file that follows it.               *)
AuditIInv ==
  /\ log \in Nat /\ missed \in [now : Nat, most : Nat] /\ file \in Seq(Nat)
  /\ missed.now <= missed.most /\ missed.now <= log
  /\ missed.most < BatchSize => Tools!ToSet(file) = 1..(log - missed.now)

LEMMA LesserOf ==
  ASSUME NEW a \in Nat, NEW b \in Nat
  PROVE  Tools!Min({a, b}) = IF a <= b THEN a ELSE b
BY DEF Tools!Min

LEMMA GreaterOf ==
  ASSUME NEW a \in Nat, NEW b \in Nat
  PROVE  Tools!Max({a, b}) = IF a <= b THEN b ELSE a
BY DEF Tools!Max

LEMMA BatchOf ==
  ASSUME NEW n \in Nat, NEW k \in Nat
  PROVE  LET s == [i \in 1..n |-> i]
             r == Tools!LastOf(s, k)
         IN  /\ r \in Seq(Nat)
             /\ \A i : i \in Tools!ToSet(r) <=> i \in 1..n /\ i + k > n
<1> DEFINE s == [i \in 1..n |-> i]
           m == IF k <= n THEN k ELSE n
           r == SubSeq(s, n + 1 - m, n)
<1>1. s \in Seq(Nat) /\ Len(s) = n /\ \A i \in 1..n : s[i] = i
  BY IsASeq
<1>2. Tools!Min({k, n}) = m
  BY LesserOf
<1>3. Tools!LastOf(s, k) = r
  BY <1>1, <1>2, Zenon DEF Tools!LastOf
<1> HIDE DEF s
<1>4. m \in Nat /\ m <= n /\ n + 1 - m \in Nat
  OBVIOUS
<1>5. /\ r \in Seq(Nat) /\ Len(r) = m /\ \A i \in 1..m : r[i] = n - m + i
  <2>1. \A i \in (n + 1 - m)..n : s[i] \in Nat
    BY <1>1, <1>4
  <2>2. /\ r \in Seq(Nat) /\ Len(r) = IF n + 1 - m <= n THEN n - (n + 1 - m) + 1 ELSE 0
        /\ \A i \in 1..(n - (n + 1 - m) + 1) : r[i] = s[(n + 1 - m) + i - 1]
    BY <1>1, <1>4, <2>1, SubSeqProperties
  <2> QED
    BY <1>1, <1>4, <2>2
<1> HIDE DEF r
<1>6. \A i : i \in Tools!ToSet(r) <=> \E j \in 1..m : i = n - m + j
  <2>1. DOMAIN r = 1..m
    BY <1>5
  <2>2. \A i : i \in Tools!ToSet(r) <=> \E j \in 1..m : i = r[j]
    BY <2>1 DEF Tools!ToSet
  <2> QED
    BY <1>5, <2>2
<1>7. ASSUME NEW i PROVE i \in Tools!ToSet(r) <=> i \in 1..n /\ i + k > n
  <2>1. ASSUME NEW j \in 1..m, i = n - m + j PROVE i \in 1..n /\ i + k > n
    BY <1>4, <2>1
  <2>2. ASSUME i \in 1..n, i + k > n PROVE i - (n - m) \in 1..m /\ i = n - m + (i - (n - m))
    BY <1>4, <2>2
  <2> QED
    BY <1>6, <2>1, <2>2
<1> QED
  BY <1>3, <1>5, <1>7 DEF s

LEMMA AuditStarts == Tools!Init => AuditIInv
<1> SUFFICES ASSUME Tools!Init PROVE AuditIInv
  OBVIOUS
<1>1. log = 0 /\ file = <<>> /\ missed = [now |-> 0, most |-> 0]
  BY DEF Tools!Init
<1>2. file \in Seq(Nat) /\ Len(file) = 0
  BY <1>1, EmptySeq
<1>3. Tools!ToSet(file) = {}
  BY <1>2 DEF Tools!ToSet
<1> QED
  BY <1>1, <1>2, <1>3 DEF AuditIInv

LEMMA AuditSteps == AuditIInv /\ [Tools!Next]_(Tools!vars) => AuditIInv'
<1> SUFFICES ASSUME AuditIInv, [Tools!Next]_(Tools!vars) PROVE AuditIInv'
  OBVIOUS
<1>1. CASE UNCHANGED <<log, file, missed>>
  BY <1>1 DEF AuditIInv, Tools!ToSet
<1>2. ASSUME Tools!AuditCall(TRUE) PROVE AuditIInv'
  <2>1. /\ log' = log + 1 /\ file' = file
        /\ missed' = [now |-> missed.now + 1, most |-> Tools!Max({missed.most, missed.now + 1})]
    BY <1>2 DEF Tools!AuditCall
  <2>2. missed.most \in Nat /\ missed.now \in Nat
    BY DEF AuditIInv
  <2>3. Tools!Max({missed.most, missed.now + 1}) = IF missed.most <= missed.now + 1 THEN missed.now + 1 ELSE missed.most
    BY <2>2, GreaterOf
  <2>4. /\ missed'.now = missed.now + 1
        /\ missed'.most = IF missed.most <= missed.now + 1 THEN missed.now + 1 ELSE missed.most
    BY <2>1, <2>3
  <2>5. missed' \in [now : Nat, most : Nat]
    BY <2>1, <2>2, <2>3
  <2>6. Tools!ToSet(file)' = Tools!ToSet(file)
    BY <2>1 DEF Tools!ToSet
  <2>7. log' - missed'.now = log - missed.now
    BY <2>1, <2>2, <2>4 DEF AuditIInv
  <2> QED
    BY <2>1, <2>2, <2>4, <2>5, <2>6, <2>7, ToolsBounds DEF AuditIInv
<1>3. ASSUME Tools!AuditCall(FALSE) PROVE AuditIInv'
  <2> DEFINE r == Tools!LastOf([i \in 1..(log + 1) |-> i], BatchSize)
  <2>1. log' = log + 1 /\ file' = file \o r /\ missed' = [missed EXCEPT !.now = 0]
    BY <1>3 DEF Tools!AuditCall
  <2>2. log + 1 \in Nat /\ BatchSize \in Nat
    BY ToolsBounds DEF AuditIInv
  <2>3. r \in Seq(Nat) /\ \A i : i \in Tools!ToSet(r) <=> i \in 1..(log + 1) /\ i + BatchSize > log + 1
    BY <2>2, BatchOf
  <2> HIDE DEF r
  <2>4. missed' \in [now : Nat, most : Nat] /\ missed'.now = 0 /\ missed'.most = missed.most
    BY <2>1 DEF AuditIInv
  <2>5. file' \in Seq(Nat) /\ \A i : i \in Tools!ToSet(file') <=> i \in Tools!ToSet(file) \/ i \in Tools!ToSet(r)
    <3>1. file \in Seq(Nat)
      BY DEF AuditIInv
    <3>2. /\ file \o r \in Seq(Nat) /\ Len(file \o r) = Len(file) + Len(r) /\ Len(file) \in Nat /\ Len(r) \in Nat
          /\ \A i \in 1..(Len(file) + Len(r)) : (file \o r)[i] = IF i <= Len(file) THEN file[i] ELSE r[i - Len(file)]
      BY <2>3, <3>1, ConcatProperties
    <3>3. PICK q : q = file \o r
      OBVIOUS
    <3>4. q \in Seq(Nat) /\ DOMAIN q = 1..(Len(file) + Len(r)) /\ DOMAIN file = 1..Len(file) /\ DOMAIN r = 1..Len(r)
      BY <2>3, <3>1, <3>2, <3>3
    <3>5. \A i \in 1..Len(file) : i \in DOMAIN q /\ q[i] = file[i]
      BY <3>2, <3>3, <3>4
    <3>6. \A i \in 1..Len(r) : i + Len(file) \in DOMAIN q /\ q[i + Len(file)] = r[i]
      BY <3>2, <3>3, <3>4
    <3>7. \A i \in DOMAIN q : (i \in DOMAIN file /\ q[i] = file[i]) \/ (i - Len(file) \in DOMAIN r /\ q[i] = r[i - Len(file)])
      BY <3>2, <3>3, <3>4
    <3>8. \A i : i \in Tools!ToSet(q) <=> i \in Tools!ToSet(file) \/ i \in Tools!ToSet(r)
      <4>1. \A s : \A i : i \in Tools!ToSet(s) <=> \E j \in DOMAIN s : i = s[j]
        BY DEF Tools!ToSet
      <4>2. ASSUME NEW j \in DOMAIN q PROVE (\E k \in DOMAIN file : q[j] = file[k]) \/ (\E k \in DOMAIN r : q[j] = r[k])
        BY <3>7
      <4> QED
        BY <3>5, <3>6, <4>1, <4>2
    <3> QED
      BY <2>1, <3>3, <3>4, <3>8
  <2>6. ASSUME missed'.most < BatchSize PROVE Tools!ToSet(file') = 1..(log' - missed'.now)
    <3>1. Tools!ToSet(file) = 1..(log - missed.now)
      BY <2>4, <2>6 DEF AuditIInv
    <3>2. missed.now < BatchSize /\ missed.now \in Nat /\ missed.now <= log /\ log \in Nat
      BY <2>2, <2>4, <2>6 DEF AuditIInv
    <3>3. ASSUME NEW i PROVE i \in Tools!ToSet(file') <=> i \in 1..(log + 1)
      <4>1. i \in Tools!ToSet(file') <=> i \in 1..(log - missed.now) \/ i \in Tools!ToSet(r)
        BY <2>5, <3>1
      <4>2. i \in Tools!ToSet(file') <=> i \in 1..(log - missed.now) \/ (i \in 1..(log + 1) /\ i + BatchSize > log + 1)
        BY <2>3, <4>1
      <4> QED
        BY <2>2, <3>2, <4>2
    <3>4. Tools!ToSet(file') = 1..(log + 1)
      <4>1. PICK S : S = Tools!ToSet(file')
        OBVIOUS
      <4>2. \A i : i \in S <=> i \in 1..(log + 1)
        BY <3>3, <4>1
      <4>3. S = 1..(log + 1)
        BY <4>2
      <4> QED
        BY <4>1, <4>3
    <3>5. log' - missed'.now = log + 1
      BY <2>1, <2>2, <2>4
    <3> QED
      BY <3>4, <3>5, Zenon
  <2> QED
    BY <2>1, <2>2, <2>4, <2>5, <2>6 DEF AuditIInv
<1> QED
  BY <1>1, <1>2, <1>3, OneOfTheTools

LEMMA AuditGives == AuditIInv => Tools!AuditCatchesUp
BY DEF AuditIInv, Tools!AuditCatchesUp

ToolsIInv ==
  /\ RegistryIInv /\ ExecutionsIInv /\ FoundIInv
  /\ ServedIInv /\ PoolIInv /\ GuardIInv /\ AuditIInv

LEMMA ToolsStart == Tools!Init => ToolsIInv
BY RegistryStarts, ExecutionsStart, FoundStarts, ServedStarts, PoolStarts, GuardStarts, AuditStarts DEF ToolsIInv

LEMMA ToolsSteps == ToolsIInv /\ [Tools!Next]_(Tools!vars) => ToolsIInv'
BY RegistrySteps, ExecutionsSteps, FoundSteps, ServedSteps, PoolSteps, GuardSteps, AuditSteps DEF ToolsIInv

LEMMA ToolsHold == ToolsIInv => ToolsInv
BY RegistryGives, ExecutionsGive, FoundGives, ServedGives, PoolGives, GuardGives, AuditGives
   DEF ToolsIInv, ToolsInv, Tools!ToolsInv

-----------------------------------------------------------------------------
(* A step of the parts is a step of each of them or leaves it alone.       *)
LEMMA OneMoves ==
  [PartsNext]_partsVars => /\ [StreamInterrupter!Next]_(StreamInterrupter!vars)
                           /\ [Bus!Next]_(Bus!vars)
                           /\ [Board!Next]_(Board!vars)
                           /\ [DeadlockDetector!Next]_(DeadlockDetector!vars)
                           /\ [Memory!Next]_(Memory!vars)
                           /\ [AgentMemory!Next]_(AgentMemory!vars)
                           /\ [Tools!Next]_(Tools!vars)
BY DEF PartsNext, Others, partsVars, interrupterVars, busVars, boardVars,
   detectorVars, conversationVars, DeadlockDetector!vars,
   StreamInterrupter!vars, Bus!vars, Board!vars, Memory!vars, memoryVars,
   AgentMemory!vars, AgentMemory!stm, AgentMemory!ltm, AgentMemory!epm,
   toolsVars, Tools!vars, Tools!registryVars, Tools!discoveryVars, Tools!serverVars, Tools!logVars

(* An interrupted stream keeps exactly the text it had.                    *)
THEOREM InterrupterSafe == PartsSpec => []InterrupterInv
<1>1. StreamInterrupter!StreamInterrupterAssumption
  BY WaitsAssumption
<1>2. PartsInit => InterrupterInv
  BY <1>1, StreamInterrupter!StartsSafe DEF PartsInit, InterrupterInv
<1>3. InterrupterInv /\ [PartsNext]_partsVars => InterrupterInv'
  BY <1>1, OneMoves, StreamInterrupter!StepsSafe DEF InterrupterInv
<1> QED
  BY <1>2, <1>3, PTL DEF PartsSpec

(* A reason that forbids resuming stays with its stream.                   *)
THEOREM ReasonsStay == PartsSpec => NonResumableStays
<1>1. StreamInterrupter!Spec => NonResumableStays
  BY WaitsAssumption, StreamInterrupter!ReasonStays DEF NonResumableStays
<1>2. PartsInit => StreamInterrupter!Init
  BY DEF PartsInit
<1> QED
  BY <1>1, <1>2, OneMoves, PTL DEF PartsSpec, StreamInterrupter!Spec

(* What a request of an agent returns is the answer of the agent it asked, *)
(* to this request; and a wait that is over leaves no future behind.       *)
THEOREM BusSafe == PartsSpec => []BusInv
<1>1. PartsInit => BusIInv
  BY BusStarts DEF PartsInit
<1>2. BusIInv /\ [PartsNext]_partsVars => BusIInv'
  BY BusSteps, OneMoves
<1> QED
  BY <1>1, <1>2, BusHolds, PTL DEF PartsSpec

(* A write that names the version it has read replaces the value it has    *)
(* read, as long as the key was there all the time.                        *)
THEOREM BlackboardSafe == PartsSpec => []BlackboardInv
<1>1. PartsInit => BoardIInv
  BY BoardStarts DEF PartsInit
<1>2. BoardIInv /\ [PartsNext]_partsVars => BoardIInv'
  BY BoardSteps, OneMoves
<1>3. BoardIInv => BlackboardInv
  BY DEF BoardIInv, BlackboardInv, Board!BlackboardInv
<1> QED
  BY <1>1, <1>2, <1>3, PTL DEF PartsSpec

(* An agent waits in the graph of the detector only for an agent that has  *)
(* a request of it, whatever is answered, runs out or is dropped.          *)
THEOREM DetectorSafe == PartsSpec => []DetectorInv
<1>1. PartsInit => DetectorIInv
  BY DetectorStarts DEF PartsInit
<1>2. DetectorIInv /\ [PartsNext]_partsVars => DetectorIInv'
  BY DetectorSteps, OneMoves
<1>3. DetectorIInv => DetectorInv
  BY DEF DetectorIInv, DetectorInv, DeadlockDetector!DetectorInv
<1> QED
  BY <1>1, <1>2, <1>3, PTL DEF PartsSpec

(* The search of the detector agrees with the definition of a deadlock, on *)
(* every graph: it reports no cycle exactly if no agents wait only for     *)
(* each other, and all it reports are cycles of the graph.                 *)
THEOREM SearchExactly == PartsSpec => []SearchIsExact
<1>1. PartsInit => DetectorIInv
  BY DetectorStarts DEF PartsInit
<1>2. DetectorIInv /\ [PartsNext]_partsVars => DetectorIInv'
  BY DetectorSteps, OneMoves
<1>3. DetectorIInv => SearchIsExact
  BY SearchHolds DEF DetectorIInv
<1> QED
  BY <1>1, <1>2, <1>3, PTL DEF PartsSpec

(* Whatever calls overlap, the messages of a conversation are in order,    *)
(* what was cleared stays cleared, and a chat that none overlaps is        *)
(* answered from a context with its own message.  What an agent remembers  *)
(* agrees with its indexes: a tag lists just the memories that have it,    *)
(* through every update and deletion that overtake each other, the count   *)
(* of tokens covers what the buffer holds, and no embedding is left of an  *)
(* episode that is gone.                                                   *)
THEOREM MemoriesSafe == PartsSpec => []MemoriesInv
<1>1. PartsInit => ConversationIInv /\ AgentMemoryIInv
  BY ConversationStarts, AgentMemoryStarts DEF PartsInit
<1>2. ConversationIInv /\ AgentMemoryIInv /\ [PartsNext]_partsVars => (ConversationIInv /\ AgentMemoryIInv)'
  BY ConversationSteps, AgentMemorySteps, OneMoves
<1>3. ConversationIInv /\ AgentMemoryIInv => MemoriesInv
  BY ConversationHolds, AgentMemoryHolds DEF MemoriesInv
<1> QED
  BY <1>1, <1>2, <1>3, PTL DEF PartsSpec

(* No tool is registered after one it conflicts with, a category lists its *)
(* tools in the order they came, and a call of a tool runs no more often   *)
(* than its retries allow; searches that overlap report a tool once        *)
(* between them; no tool runs that a hook refused, and every request has   *)
(* its answer; an agent does nothing after a loop and nothing more often   *)
(* than the limit; and the file of the audit catches up with what it       *)
(* missed as long as a batch holds it.                                     *)
THEOREM ToolsSafe == PartsSpec => []ToolsInv
<1>1. PartsInit => ToolsIInv
  BY ToolsStart DEF PartsInit
<1>2. ToolsIInv /\ [PartsNext]_partsVars => ToolsIInv'
  BY ToolsSteps, OneMoves
<1> QED
  BY <1>1, <1>2, ToolsHold, PTL DEF PartsSpec
=============================================================================
