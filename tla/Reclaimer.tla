---- MODULE Reclaimer ----
(***************************************************************************)
(* The reclaimer of resilience/reclaimer.py.  A round collects the ids of  *)
(* the expired resources first and then removes and cleans them one by     *)
(* one; a cleanup that is awaited lets registrations, removals and other   *)
(* rounds in between.                                                      *)
(***************************************************************************)
EXTENDS Naturals, Sequences, SequencesExt, FiniteSets

CONSTANTS Ids, Rounds,
          MaxRegistered     \* bound: registrations

VARIABLES resources,   \* _resources: the number of the registration under each id, 0 for none
          expired,     \* the registrations whose ttl is over
          cleaned,     \* how often each registration was cleaned up
          registered,  \* how many were registered
          rounds       \* reclaim_expired() calls: the ids left and whether a cleanup is awaited

vars == <<resources, expired, cleaned, registered, rounds>>

Round == [status : {"idle", "going", "cleaning"}, todo : Seq(Ids)]
Rest == [status |-> "idle", todo |-> <<>>]

Init ==
    /\ resources = [id \in Ids |-> 0]
    /\ expired = {} /\ registered = 0
    /\ cleaned = [n \in 1..MaxRegistered |-> 0]
    /\ rounds = [r \in Rounds |-> Rest]

\* register(): what was registered under the id is forgotten.
Register(id) ==
    /\ registered < MaxRegistered
    /\ registered' = registered + 1
    /\ resources' = [resources EXCEPT ![id] = registered + 1]
    /\ UNCHANGED <<expired, cleaned, rounds>>

Unregister(id) ==
    /\ resources[id] # 0
    /\ resources' = [resources EXCEPT ![id] = 0]
    /\ UNCHANGED <<expired, cleaned, registered, rounds>>

\* Resource.expired: time passes.
Expire(id) ==
    /\ resources[id] \notin expired \cup {0}
    /\ expired' = expired \cup {resources[id]}
    /\ UNCHANGED <<resources, cleaned, registered, rounds>>

ExpiredIds == {id \in Ids : resources[id] \in expired}

\* reclaim_expired(), the list of what is expired
Begin(r) ==
    /\ rounds[r].status = "idle" /\ ExpiredIds # {}
    /\ \E order \in SetToSeqs(ExpiredIds) :
           rounds' = [rounds EXCEPT ![r] = [status |-> "going", todo |-> order]]
    /\ UNCHANGED <<resources, expired, cleaned, registered>>

(* Mutant of Take: the resource stays registered while it is cleaned up. *)
TakeKeeps(r) ==
    /\ rounds[r].status = "going" /\ rounds[r].todo # <<>>
    /\ LET id == Head(rounds[r].todo)
       IN  IF resources[id] = 0
           THEN rounds' = [rounds EXCEPT ![r] = Rest] /\ UNCHANGED <<resources, cleaned>>
           ELSE /\ cleaned' = [cleaned EXCEPT ![resources[id]] = @ + 1]
                /\ rounds' = [rounds EXCEPT ![r].status = "cleaning"]
                /\ UNCHANGED resources
    /\ UNCHANGED <<expired, registered>>

\* The next id: pop() raises when it is gone, and the round ends; the cleanup may fail.
Take(r) ==
    /\ rounds[r].status = "going" /\ rounds[r].todo # <<>>
    /\ LET id == Head(rounds[r].todo)
       IN  IF resources[id] = 0
           THEN rounds' = [rounds EXCEPT ![r] = Rest] /\ UNCHANGED <<resources, cleaned>>
           ELSE /\ resources' = [resources EXCEPT ![id] = 0]
                /\ cleaned' = [cleaned EXCEPT ![resources[id]] = @ + 1]
                /\ rounds' = [rounds EXCEPT ![r].status = "cleaning"]
    /\ UNCHANGED <<expired, registered>>

(* Mutant of Cleaned: a round that is through does not rest. *)
CleanedGoesOn(r) ==
    /\ rounds[r].status = "cleaning"
    /\ rounds' = [rounds EXCEPT ![r] = [status |-> "going", todo |-> Tail(@.todo)]]
    /\ UNCHANGED <<resources, expired, cleaned, registered>>

\* The cleanup is over, or fails; the next id, or the end of the round.
Cleaned(r) ==
    /\ rounds[r].status = "cleaning"
    /\ rounds' = [rounds EXCEPT ![r] =
           IF Len(@.todo) = 1 THEN Rest ELSE [status |-> "going", todo |-> Tail(@.todo)]]
    /\ UNCHANGED <<resources, expired, cleaned, registered>>

Next ==
    \/ \E id \in Ids : Register(id) \/ Unregister(id) \/ Expire(id)
    \/ \E r \in Rounds : Begin(r) \/ Take(r) \/ Cleaned(r)
Spec == Init /\ [][Next]_vars
\* Rounds are begun again and again, and go on.
Reclaim(r) == Begin(r) \/ Take(r) \/ Cleaned(r)
Fairness == \A r \in Rounds : WF_vars(Reclaim(r))
FairSpec == Spec /\ Fairness

(***************************************************************************)
(* Properties                                                              *)
(***************************************************************************)
TypeOK ==
    /\ resources \in [Ids -> 0..registered] /\ expired \subseteq 1..registered
    /\ cleaned \in [1..MaxRegistered -> Nat] /\ registered \in 0..MaxRegistered
    /\ rounds \in [Rounds -> Round]

\* However rounds overlap, no resource is cleaned up twice.
CleanedOnce == \A n \in 1..MaxRegistered : cleaned[n] <= 1

\* An expired resource does not stay: a round that ends early because an id was gone
\* leaves the others to the next one.
ExpiredGo == \A id \in Ids : id \in ExpiredIds ~> id \notin ExpiredIds

\* Only what has expired is cleaned up.
OnlyExpiredCleaned == \A n \in 1..MaxRegistered : cleaned[n] > 0 => n \in expired

ReclaimerInv == TypeOK /\ CleanedOnce
====
