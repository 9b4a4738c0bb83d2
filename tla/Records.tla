------------------------------- MODULE Records -------------------------------
(***************************************************************************)
(* What the platform writes down about its own work: the audit log, a file *)
(* of entries a day, each with the hash of the one before; the operations  *)
(* of a transaction with what undoes them; the snapshots of a task.  They  *)
(* share no state: a run is about one of them.                             *)
(***************************************************************************)
EXTENDS Naturals, Sequences, SequencesExt, FiniteSets, FiniteSetsExt

CONSTANTS Loggers,            \* objects that write to one directory
          MaxDay, MaxEntries, MaxRestarts, MaxTampering,
          Aborts,             \* callers of abort()
          MaxOperations,
          MaxSnapshots,       \* max_snapshots_per_task
          MaxSaves

RecordsAssumption ==
  /\ IsFiniteSet(Loggers)
  /\ MaxDay \in Nat \ {0}
  /\ MaxEntries \in Nat /\ MaxRestarts \in Nat /\ MaxTampering \in Nat
  /\ MaxOperations \in Nat /\ MaxSnapshots \in Nat /\ MaxSaves \in Nat

VARIABLES keeps,      \* "audit", "transaction" or "snapshots"
          today, files, hashFiles, lastHash,
          logged, restarts, tampered,
          operations, status, aborts, commits,
          snapshots, saves, recovered

auditVars == <<today, files, hashFiles, lastHash, logged, restarts, tampered>>
transactionVars == <<operations, status, aborts, commits>>
snapshotVars == <<snapshots, saves, recovered>>
vars == <<keeps, auditVars, transactionVars, snapshotVars>>

Days == 1..MaxDay
IdleAbort == [at |-> "idle", of |-> 0, next |-> 0, back |-> <<>>]

Init ==
    /\ keeps \in {"audit", "transaction", "snapshots"}
    /\ today = 1 /\ files = [d \in Days |-> <<>>] /\ hashFiles = [d \in Days |-> 0]
    /\ lastHash = [l \in Loggers |-> 0] /\ logged = 0 /\ restarts = 0 /\ tampered = <<>>
    /\ operations = <<>> /\ status = "prepared" /\ aborts = [a \in Aborts |-> IdleAbort] /\ commits = {}
    /\ snapshots = <<>> /\ saves = 0 /\ recovered = <<>>
-----------------------------------------------------------------------------
(* The audit log.  The hash of an entry stands for the entry and all before  *)
(* it in its chain: it is the number of the entry; 0 is the empty string.    *)

\* _load_last_hash(): what the object remembers, of whatever day, and else the file of the day
PreviousHash(l) == IF lastHash[l] # 0 THEN lastHash[l] ELSE hashFiles[today]

Written(l) ==
    /\ logged < MaxEntries /\ logged' = logged + 1
    /\ files' = [files EXCEPT ![today] =
           Append(@, [hash |-> logged + 1, previous |-> PreviousHash(l), altered |-> FALSE])]

\* log()
Log(l) ==
    /\ Written(l)
    /\ hashFiles' = [hashFiles EXCEPT ![today] = logged + 1]
    /\ lastHash' = [lastHash EXCEPT ![l] = logged + 1]
    /\ UNCHANGED <<today, restarts, tampered>>

\* The process of the object ends and another takes its place: between two calls, or in log()
\* after the entry is written and before its hash is.
Restart(l) ==
    /\ restarts < MaxRestarts /\ restarts' = restarts + 1
    /\ lastHash' = [lastHash EXCEPT ![l] = 0]
    /\ \/ Written(l)
       \/ UNCHANGED <<files, logged>>
    /\ UNCHANGED <<today, hashFiles, tampered>>

NextDay ==
    /\ today < MaxDay /\ today' = today + 1
    /\ UNCHANGED <<files, hashFiles, lastHash, logged, restarts, tampered>>

(* Mutant of Intact: an entry is compared with the hash it says it follows. *)
IntactEntries(d) == \A i \in DOMAIN files[d] : ~files[d][i].altered

\* verify_integrity()
Intact(d) ==
    \A i \in DOMAIN files[d] :
        /\ ~files[d][i].altered
        /\ files[d][i].previous = IF i = 1 THEN 0 ELSE files[d][i - 1].hash

\* Somebody changes a field that the hash covers, or takes a line out of a file that was intact.
Tamper(d, i) ==
    /\ Len(tampered) < MaxTampering /\ Intact(d)
    /\ \/ files' = [files EXCEPT ![d][i].altered = TRUE]
       \/ i < Len(files[d]) /\ files' = [files EXCEPT ![d] = RemoveAt(@, i)]
    /\ tampered' = Append(tampered, d)
    /\ UNCHANGED <<today, hashFiles, lastHash, logged, restarts>>

AuditNext ==
    \/ \E l \in Loggers : Log(l) \/ Restart(l)
    \/ NextDay
    \/ \E d \in Days : \E i \in DOMAIN files[d] : Tamper(d, i)
-----------------------------------------------------------------------------
(* A transaction.  An operation cannot be undone, or its undo works or fails. *)

Prepare(undo) ==
    /\ Len(operations) < MaxOperations /\ operations' = Append(operations, undo)
    /\ UNCHANGED <<status, aborts, commits>>

Commit ==
    /\ status' = "committed" /\ commits' = commits \cup {Len(operations)}
    /\ UNCHANGED <<operations, aborts>>

Abort(a) ==
    /\ aborts[a].at = "idle"
    /\ aborts' = [aborts EXCEPT ![a] =
           [at |-> "undoing", of |-> Len(operations), next |-> Len(operations), back |-> <<>>]]
    /\ UNCHANGED <<operations, status, commits>>

\* The next undo, which may be awaited, and its outcome: a failure is logged.
Undo(a) ==
    LET n == aborts[a].next
    IN  /\ aborts[a].at = "undoing" /\ n > 0
        /\ aborts' = [aborts EXCEPT ![a].next = n - 1,
                                    ![a].back = IF operations[n] = "works" THEN Append(@, n) ELSE @]
        /\ UNCHANGED <<operations, status, commits>>

Aborted(a) ==
    /\ aborts[a].at = "undoing" /\ aborts[a].next = 0
    /\ aborts' = [aborts EXCEPT ![a].at = "done"] /\ status' = "aborted"
    /\ UNCHANGED <<operations, commits>>

TransactionNext ==
    \/ \E undo \in {"none", "works", "fails"} : Prepare(undo)
    \/ Commit
    \/ \E a \in Aborts : Abort(a) \/ Undo(a) \/ Aborted(a)
-----------------------------------------------------------------------------
(* The snapshots of a task, and its recovery from the latest.                *)

Save(sound) ==
    /\ saves < MaxSaves /\ saves' = saves + 1
    /\ LET all == Append(snapshots, [number |-> saves + 1, sound |-> sound])
       IN  snapshots' = IF Len(all) > MaxSnapshots
                        THEN SubSeq(all, Len(all) - MaxSnapshots + 1, Len(all)) ELSE all
    /\ UNCHANGED recovered

Clear == snapshots' = <<>> /\ UNCHANGED <<saves, recovered>>

\* recover() from latest(): a snapshot that fails a check is reported and nothing is resumed.
Recover ==
    /\ snapshots # <<>>
    /\ recovered' = IF Last(snapshots).sound THEN <<Last(snapshots).number>> ELSE <<>>
    /\ UNCHANGED <<snapshots, saves>>

SnapshotNext == (\E sound \in BOOLEAN : Save(sound)) \/ Clear \/ Recover
-----------------------------------------------------------------------------
Next ==
    \/ keeps = "audit" /\ AuditNext /\ UNCHANGED <<keeps, transactionVars, snapshotVars>>
    \/ keeps = "transaction" /\ TransactionNext /\ UNCHANGED <<keeps, auditVars, snapshotVars>>
    \/ keeps = "snapshots" /\ SnapshotNext /\ UNCHANGED <<keeps, auditVars, transactionVars>>

Spec == Init /\ [][Next]_vars
-----------------------------------------------------------------------------
(* A day that was intact before somebody changed an entry, or took out one   *)
(* that others follow, is never intact again, whatever is logged later.      *)
TamperingShows == \A k \in DOMAIN tampered : ~Intact(tampered[k])

(* The file of a day is intact as long as one object writes, no restart falls*)
(* into a call and the day is the first of the object.                       *)
FirstDayIntact ==
    Cardinality(Loggers) = 1 /\ restarts = 0 /\ tampered = <<>> => Intact(1)

(* Every abort undoes what can be undone of the operations there were, in    *)
(* the reverse of their order and each once, whatever fails and whoever      *)
(* commits or aborts meanwhile.                                              *)
UndoneInReverse ==
    \A a \in Aborts : aborts[a].at = "done" =>
        LET back == aborts[a].back
        IN  /\ ToSet(back) = {n \in 1..aborts[a].of : operations[n] = "works"}
            /\ \A i, j \in DOMAIN back : i < j => back[i] > back[j]

(* The history of a task is bounded and without a gap up to the latest.      *)
HistoryIsRecent ==
    /\ Len(snapshots) <= MaxSnapshots
    /\ \A i \in DOMAIN snapshots : snapshots[i].number = saves - Len(snapshots) + i

RecordsInv == TamperingShows /\ FirstDayIntact /\ UndoneInReverse /\ HistoryIsRecent

=============================================================================
