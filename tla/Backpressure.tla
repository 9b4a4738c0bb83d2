---------------------------- MODULE Backpressure ----------------------------
(***************************************************************************)
(* BackpressureController of src/streaming/backpressure.py: a deque shared *)
(* by producers and consumers, with one asyncio condition for either side. *)
(*                                                                         *)
(* No task suspends while it holds a condition's lock other than in        *)
(* wait(), so a lock is never contended and a call runs to its end, or to  *)
(* wait(), in one step: adding a token and notifying a consumer cannot be  *)
(* told apart.  What interleaves is what happens between a notification    *)
(* and the moment the notified task runs: other tasks may take the token   *)
(* or the place it was woken for, and it may be cancelled.                 *)
(***************************************************************************)
EXTENDS Integers, Sequences, FiniteSets

CONSTANTS Producers, Consumers,
          MaxSize,     \* max_size
          TokenBound   \* bound of the model: how many tokens are offered

ASSUME BackpressureAssumption ==
  /\ IsFiniteSet(Producers) /\ IsFiniteSet(Consumers)
  /\ MaxSize \in Nat \ {0} /\ TokenBound \in Nat

VARIABLES
  queue,      \* _queue
  closed,     \* _closed
  produced,   \* _produced_count
  consumed,   \* _consumed_count
  highWater,  \* _high_water_mark
  notFull,    \* producers waiting on _not_full, not notified yet
  notEmpty,   \* consumers waiting on _not_empty, not notified yet
  wokenP,     \* producers notified that have not run yet
  wokenC,     \* consumers notified that have not run yet
  holding,    \* the token each producer is blocked with
  offered,    \* history: tokens 1..offered have been offered
  accepted,   \* history: the tokens enqueued, in order
  delivered,  \* history: the tokens handed to consumers, in order
  discarded,  \* history: tokens whose produce() returned without enqueuing
  promised,   \* history: tokens of which try_produce answered True
  lostC,      \* history: notified consumers that were cancelled
  lostP       \* history: notified producers that were cancelled

code    == <<queue, closed, produced, consumed, highWater>>
tasks   == <<notFull, notEmpty, wokenP, wokenC, holding>>
history == <<offered, accepted, delivered, discarded, promised, lostC, lostP>>
vars    == <<code, tasks, history>>

Init ==
  /\ queue = <<>> /\ closed = FALSE
  /\ produced = 0 /\ consumed = 0 /\ highWater = 0
  /\ notFull = {} /\ notEmpty = {} /\ wokenP = {} /\ wokenC = {}
  /\ holding = [p \in Producers |-> 0]
  /\ offered = 0 /\ accepted = <<>> /\ delivered = <<>>
  /\ discarded = {} /\ promised = {} /\ lostC = 0 /\ lostP = 0

Tokens == 1..TokenBound

Full == Len(queue) >= MaxSize

-----------------------------------------------------------------------------
(* Mutants of NotifyConsumer: the notified task stays registered; only the *)
(* first token of an empty queue notifies.                                 *)
NotifyKeepsWaiter ==
  IF notEmpty = {} THEN UNCHANGED <<notEmpty, wokenC>>
  ELSE \E c \in notEmpty : notEmpty' = notEmpty /\ wokenC' = wokenC \union {c}

NotifyWhenEmpty ==
  IF notEmpty = {} \/ queue # <<>> THEN UNCHANGED <<notEmpty, wokenC>>
  ELSE \E c \in notEmpty : notEmpty' = notEmpty \ {c} /\ wokenC' = wokenC \union {c}

(* notify(1) marks one waiting task, if any; the order in which asyncio    *)
(* chooses them is left open.                                              *)
NotifyConsumer ==
  IF notEmpty = {} THEN UNCHANGED <<notEmpty, wokenC>>
  ELSE \E c \in notEmpty : notEmpty' = notEmpty \ {c} /\ wokenC' = wokenC \union {c}

NotifyProducer(woken) ==
  IF notFull = {} THEN notFull' = notFull /\ wokenP' = woken
  ELSE \E p \in notFull : notFull' = notFull \ {p} /\ wokenP' = woken \union {p}

(* The body of produce, entered anew or on waking up. *)
WaitForPlace(p, t) ==
  /\ Full /\ ~closed
  /\ notFull' = notFull \union {p}
  /\ wokenP' = wokenP \ {p}
  /\ holding' = [holding EXCEPT ![p] = t]
  /\ UNCHANGED <<code, notEmpty, wokenC, accepted, delivered, discarded>>

Discard(p, t) ==
  /\ closed
  /\ discarded' = discarded \union {t}
  /\ wokenP' = wokenP \ {p}
  /\ holding' = [holding EXCEPT ![p] = 0]
  /\ UNCHANGED <<code, notFull, notEmpty, wokenC, accepted, delivered>>

(* Mutants of Enqueue: a woken producer does not look again whether the    *)
(* queue is full, or whether it is closed.                                 *)
EnqueueWithoutPlace(p, t) ==
  /\ ~closed
  /\ queue' = Append(queue, t) /\ accepted' = Append(accepted, t)
  /\ produced' = produced + 1
  /\ highWater' = IF Len(queue) + 1 > highWater THEN Len(queue) + 1 ELSE highWater
  /\ wokenP' = wokenP \ {p}
  /\ holding' = [holding EXCEPT ![p] = 0]
  /\ NotifyConsumer
  /\ UNCHANGED <<closed, consumed, notFull, delivered, discarded>>

EnqueueWhenClosed(p, t) ==
  /\ ~Full
  /\ queue' = Append(queue, t) /\ accepted' = Append(accepted, t)
  /\ produced' = produced + 1
  /\ highWater' = IF Len(queue) + 1 > highWater THEN Len(queue) + 1 ELSE highWater
  /\ wokenP' = wokenP \ {p}
  /\ holding' = [holding EXCEPT ![p] = 0]
  /\ NotifyConsumer
  /\ UNCHANGED <<closed, consumed, notFull, delivered, discarded>>

Enqueue(p, t) ==
  /\ ~Full /\ ~closed
  /\ queue' = Append(queue, t) /\ accepted' = Append(accepted, t)
  /\ produced' = produced + 1
  /\ highWater' = IF Len(queue) + 1 > highWater THEN Len(queue) + 1 ELSE highWater
  /\ wokenP' = wokenP \ {p}
  /\ holding' = [holding EXCEPT ![p] = 0]
  /\ NotifyConsumer
  /\ UNCHANGED <<closed, consumed, notFull, delivered, discarded>>

Body(p, t) == WaitForPlace(p, t) \/ Discard(p, t) \/ Enqueue(p, t)

IdleP(p) == p \notin notFull \union wokenP
IdleC(c) == c \notin notEmpty \union wokenC

Produce(p) ==
  /\ IdleP(p) /\ offered < TokenBound
  /\ offered' = offered + 1
  /\ Body(p, offered + 1)
  /\ UNCHANGED <<promised, lostC, lostP>>

(* try_produce looks at the queue and then calls produce; nothing runs     *)
(* between, so it does not block.                                          *)
TryProduce(p) ==
  /\ IdleP(p) /\ ~Full /\ offered < TokenBound
  /\ offered' = offered + 1
  /\ Body(p, offered + 1)
  /\ promised' = promised \union {offered + 1}
  /\ UNCHANGED <<lostC, lostP>>

ResumeProducer(p) ==
  /\ p \in wokenP
  /\ Body(p, holding[p])
  /\ UNCHANGED <<offered, promised, lostC, lostP>>

-----------------------------------------------------------------------------
Dequeue(c) ==
  /\ queue # <<>>
  /\ queue' = Tail(queue) /\ delivered' = Append(delivered, Head(queue))
  /\ consumed' = consumed + 1
  /\ wokenC' = wokenC \ {c}
  /\ NotifyProducer(wokenP)
  /\ UNCHANGED <<closed, produced, highWater, notEmpty, holding, offered, accepted,
                 discarded, promised, lostC, lostP>>

WaitForToken(c) ==
  /\ queue = <<>> /\ ~closed
  /\ notEmpty' = notEmpty \union {c}
  /\ wokenC' = wokenC \ {c}
  /\ UNCHANGED <<code, notFull, wokenP, holding, history>>

(* QueueEmpty is raised. *)
EndOfStream(c) ==
  /\ queue = <<>> /\ closed
  /\ wokenC' = wokenC \ {c}
  /\ UNCHANGED <<code, notFull, notEmpty, wokenP, holding, history>>

Consume(c) == IdleC(c) /\ (Dequeue(c) \/ WaitForToken(c) \/ EndOfStream(c))

(* On an empty queue it answers None and changes nothing. *)
TryConsume(c) == IdleC(c) /\ Dequeue(c)

ResumeConsumer(c) ==
  c \in wokenC /\ (Dequeue(c) \/ WaitForToken(c) \/ EndOfStream(c))

-----------------------------------------------------------------------------
(* Mutant of Close: it wakes only the consumers. *)
CloseForConsumers ==
  /\ closed' = TRUE
  /\ wokenC' = wokenC \union notEmpty /\ notEmpty' = {}
  /\ UNCHANGED <<queue, produced, consumed, highWater, notFull, wokenP, holding, history>>

(* A closed queue has nobody waiting that is not notified. *)
Close ==
  /\ closed' = TRUE
  /\ wokenC' = wokenC \union notEmpty /\ notEmpty' = {}
  /\ wokenP' = wokenP \union notFull /\ notFull' = {}
  /\ UNCHANGED <<queue, produced, consumed, highWater, holding, history>>

(* A cancelled task leaves wait().  The condition of Python 3.12 does not  *)
(* pass on the notification of a task that was notified and then cancelled. *)
CancelProducer(p) ==
  /\ ~IdleP(p)
  /\ notFull' = notFull \ {p} /\ wokenP' = wokenP \ {p}
  /\ lostP' = IF p \in wokenP THEN lostP + 1 ELSE lostP
  /\ holding' = [holding EXCEPT ![p] = 0]
  /\ UNCHANGED <<code, notEmpty, wokenC, offered, accepted, delivered, discarded,
                 promised, lostC>>

CancelConsumer(c) ==
  /\ ~IdleC(c)
  /\ notEmpty' = notEmpty \ {c} /\ wokenC' = wokenC \ {c}
  /\ lostC' = IF c \in wokenC THEN lostC + 1 ELSE lostC
  /\ UNCHANGED <<code, notFull, wokenP, holding, offered, accepted, delivered,
                 discarded, promised, lostP>>

Run == \/ \E p \in Producers : ResumeProducer(p)
       \/ \E c \in Consumers : ResumeConsumer(c)

Next ==
  \/ \E p \in Producers : Produce(p) \/ TryProduce(p) \/ CancelProducer(p)
  \/ \E c \in Consumers : Consume(c) \/ TryConsume(c) \/ CancelConsumer(c)
  \/ Run
  \/ Close

Spec == Init /\ [][Next]_vars

(* The event loop runs every notified task. *)
FairSpec ==
  /\ Spec
  /\ \A p \in Producers : WF_vars(ResumeProducer(p))
  /\ \A c \in Consumers : WF_vars(ResumeConsumer(c))

-----------------------------------------------------------------------------
TypeOK ==
  /\ queue \in Seq(Tokens) /\ closed \in BOOLEAN
  /\ produced \in Nat /\ consumed \in Nat /\ highWater \in Nat
  /\ notFull \in SUBSET Producers /\ wokenP \in SUBSET Producers
  /\ notEmpty \in SUBSET Consumers /\ wokenC \in SUBSET Consumers
  /\ notFull \intersect wokenP = {} /\ notEmpty \intersect wokenC = {}
  /\ holding \in [Producers -> Tokens \union {0}]
  /\ \A p \in notFull \union wokenP : holding[p] # 0
  /\ offered \in 0..TokenBound
  /\ accepted \in Seq(Tokens) /\ delivered \in Seq(Tokens)
  /\ discarded \in SUBSET Tokens /\ promised \in SUBSET Tokens
  /\ lostC \in Nat /\ lostP \in Nat

(* The counters the statistics show agree with the queue, which never      *)
(* outgrows max_size although producers are woken to places others take.   *)
Conservation ==
  /\ produced = consumed + Len(queue)
  /\ Len(queue) <= highWater /\ highWater <= MaxSize

(* Tokens reach consumers exactly once and in the order they were queued.  *)
Order == accepted = delivered \o queue

(* No wake-up is missing: while a consumer waits unnotified there are no   *)
(* more tokens than notified consumers to take them, save for those        *)
(* cancelled after they were notified, and the same of producers and       *)
(* places.                                                                 *)
NoLostWakeup ==
  /\ notEmpty # {} => Len(queue) <= Cardinality(wokenC) + lostC
  /\ notFull # {} => MaxSize - Len(queue) <= Cardinality(wokenP) + lostP

(* A token is lost only on a closed stream, and so it is with a token that *)
(* try_produce says was enqueued: its True is wrong only after close().    *)
LostOnlyWhenClosed ==
  /\ discarded # {} => closed
  /\ \A t \in promised : t \in discarded \/ \E i \in DOMAIN accepted : accepted[i] = t

(* Nobody waits on a closed queue. *)
ClosedWakesAll == closed => notFull = {} /\ notEmpty = {}

Fifo == INSTANCE BoundedFifo WITH
  Token <- Tokens, Size <- MaxSize, inside <- queue, shut <- closed

(* The controller is a bounded FIFO queue. *)
IsBoundedFifo == Fifo!Spec

(* Whoever is blocked when the stream closes returns. *)
CloseReleases == closed ~> (notFull \union notEmpty \union wokenP \union wokenC = {})

(* The safety of the queue, in one. *)
QueueInv ==
  /\ TypeOK /\ Conservation /\ Order
  /\ NoLostWakeup /\ LostOnlyWhenClosed /\ ClosedWakesAll
=============================================================================
