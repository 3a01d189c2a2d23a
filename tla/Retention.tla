----------------------------- MODULE Retention -----------------------------
(***************************************************************************)
(* app/streaming/retention.py: every worker sweeps the outbox once per     *)
(* interval, in batches, and deletes the published rows older than         *)
(* outbox_retention_hours.  The workers do not know of each other.         *)
(*                                                                         *)
(* The DELETE is two steps: its subselect reads a snapshot, and the rows   *)
(* it chose are deleted when their locks are free, without those another   *)
(* worker's DELETE has removed meanwhile (PostgreSQL, READ COMMITTED).     *)
(* published_at is the now() of the publisher's transaction, taken at its  *)
(* BEGIN, before the lock that orders stream_seq: at need not follow seq,  *)
(* nor does id, which is drawn before the writer commits.                  *)
(***************************************************************************)
EXTENDS Integers, FiniteSets

CONSTANTS
  Worker,      \* the application's processes
  Batch,       \* outbox_retention_batch
  MaxId,       \* bound: rows ever committed
  MaxTime,     \* bound: moments at which a row may be published
  MaxFaults    \* bound: failed sweeps and stopped workers

ASSUME RetentionAssumption ==
  /\ Batch \in Nat \ {0}
  /\ MaxId \in Nat
  /\ MaxTime \in Nat
  /\ MaxFaults \in Nat

VARIABLES
  rows,      \* the committed rows of the outbox
  deleted,   \* those that retention has removed
  lastSeq,   \* last stream_seq assigned
  horizon,   \* now() - outbox_retention_hours: what is published by then has expired
  pc,        \* pc[w]: where w's task is
  chosen,    \* chosen[w]: the rows that w's DELETE has selected
  total,     \* total[w]: deleted_total
  faults     \* faults so far

vars == <<rows, deleted, lastSeq, horizon, pc, chosen, total, faults>>

\* The columns that matter: id, stream_seq and published_at, 0 for NULL.
Row == [id : Nat \ {0}, seq : Nat, at : Nat]

IsPublished(r) == r.seq > 0

TypeOK ==
  /\ rows \subseteq Row /\ deleted \subseteq Row
  /\ \A r, s \in rows \cup deleted : r.id = s.id => r = s
  /\ rows \cap deleted = {}
  /\ lastSeq \in Nat /\ horizon \in Nat
  /\ pc \in [Worker -> {"sleeping", "sweeping", "deleting", "stopped"}]
  /\ chosen \in [Worker -> SUBSET Row]
  /\ \A w \in Worker : Cardinality(chosen[w]) <= Batch
  /\ total \in [Worker -> Nat]
  /\ faults \in 0..MaxFaults

Init ==
  /\ rows = {} /\ deleted = {}
  /\ lastSeq = 0 /\ horizon = 0
  /\ pc = [w \in Worker |-> "sleeping"]
  /\ chosen = [w \in Worker |-> {}]
  /\ total = [w \in Worker |-> 0]
  /\ faults = 0

----------------------------------------------------------------------------
(***************************************************************************)
(* The rest of the service: writers commit in any order of their ids,      *)
(* publishers number and date the rows, time passes.                       *)
(***************************************************************************)
WriterCommits(n) ==
  /\ \A r \in rows \cup deleted : r.id # n
  /\ rows' = rows \cup {[id |-> n, seq |-> 0, at |-> 0]}
  /\ UNCHANGED <<deleted, lastSeq, horizon, pc, chosen, total, faults>>

PublisherCommits(r, t) ==
  /\ ~IsPublished(r)
  /\ lastSeq' = lastSeq + 1
  /\ rows' = (rows \ {r}) \cup {[r EXCEPT !.seq = lastSeq + 1, !.at = t]}
  /\ UNCHANGED <<deleted, horizon, pc, chosen, total, faults>>

TimePasses ==
  /\ horizon < MaxTime
  /\ horizon' = horizon + 1
  /\ UNCHANGED <<rows, deleted, lastSeq, pc, chosen, total, faults>>

----------------------------------------------------------------------------
(***************************************************************************)
(* The task of worker w.                                                   *)
(***************************************************************************)
\* _run: outbox_retention_interval has elapsed.
Interval(w) ==
  /\ pc[w] = "sleeping"
  /\ pc' = [pc EXCEPT ![w] = "sweeping"]
  /\ UNCHANGED <<rows, deleted, lastSeq, horizon, chosen, total, faults>>

\* Mutant: any published row.
ExpiredMutant(r) == IsPublished(r)

Expired(r) == IsPublished(r) /\ r.at <= horizon

\* Mutants: no LIMIT; LIMIT without ORDER BY.
UnlimitedMutant(S, avail) == S = avail
LowestMutant(S, avail) ==
  Cardinality(S) <= Batch /\ (S = avail \/ Cardinality(S) = Batch)

\* ORDER BY id LIMIT: the batch is full or takes all, the lowest ids first.
Lowest(S, avail) ==
  /\ Cardinality(S) <= Batch
  /\ S = avail \/ Cardinality(S) = Batch
  /\ \A r \in S, s \in avail \ S : r.id < s.id

\* The subselect of _DELETE_SQL.
Select(w) ==
  /\ pc[w] = "sweeping"
  /\ LET avail == {r \in rows : Expired(r)}
     IN  \E S \in SUBSET avail : Lowest(S, avail) /\ chosen' = [chosen EXCEPT ![w] = S]
  /\ pc' = [pc EXCEPT ![w] = "deleting"]
  /\ UNCHANGED <<rows, deleted, lastSeq, horizon, total, faults>>

\* Mutant: the rows selected, whoever deletes them.
RemovedMutant(w) == chosen[w]

\* The rows that w's DELETE finds when it has their locks: its row count.
Removed(w) == chosen[w] \cap rows

RowsGo(w) ==
  /\ rows' = rows \ chosen[w]
  /\ deleted' = deleted \cup (chosen[w] \cap rows)

\* A full batch is followed by another one, any other ends the sweep.
Delete(w) ==
  /\ pc[w] = "deleting"
  /\ RowsGo(w)
  /\ LET count == Cardinality(Removed(w))
     IN  /\ total' = [total EXCEPT ![w] = @ + count]
         /\ pc' = [pc EXCEPT ![w] = IF count < Batch THEN "sleeping" ELSE "sweeping"]
  /\ chosen' = [chosen EXCEPT ![w] = {}]
  /\ UNCHANGED <<lastSeq, horizon, faults>>

----------------------------------------------------------------------------
(***************************************************************************)
(* Faults.                                                                 *)
(***************************************************************************)
Fault ==
  /\ faults < MaxFaults
  /\ faults' = faults + 1

\* What the server does with a DELETE whose answer is not awaited any more.
MayHaveDeleted(w) ==
  \/ RowsGo(w)
  \/ UNCHANGED <<rows, deleted>>

\* Mutant: an exception ends the task.
AfterFailureMutant == "stopped"

AfterFailure == "sleeping"

\* The connection or the statement fails: _run waits for the next interval.
SweepFails(w) ==
  /\ pc[w] \in {"sweeping", "deleting"}
  /\ Fault
  /\ MayHaveDeleted(w)
  /\ pc' = [pc EXCEPT ![w] = AfterFailure]
  /\ chosen' = [chosen EXCEPT ![w] = {}]
  /\ UNCHANGED <<lastSeq, horizon, total>>

\* stop() cancels the task wherever it is; never that of the last worker.
Stop(w) ==
  /\ pc[w] # "stopped"
  /\ \E v \in Worker \ {w} : pc[v] # "stopped"
  /\ Fault
  /\ MayHaveDeleted(w)
  /\ pc' = [pc EXCEPT ![w] = "stopped"]
  /\ chosen' = [chosen EXCEPT ![w] = {}]
  /\ UNCHANGED <<lastSeq, horizon, total>>

\* start() in the process that replaces it.
Start(w) ==
  /\ pc[w] = "stopped"
  /\ pc' = [pc EXCEPT ![w] = "sleeping"]
  /\ total' = [total EXCEPT ![w] = 0]
  /\ UNCHANGED <<rows, deleted, lastSeq, horizon, chosen, faults>>

----------------------------------------------------------------------------
Environment ==
  \/ \E n \in 1..MaxId : WriterCommits(n)
  \/ \E r \in rows, t \in horizon + 1..MaxTime : PublisherCommits(r, t)
  \/ TimePasses

Loop(w) ==
  \/ Interval(w)
  \/ Select(w)
  \/ Delete(w)

Faults(w) ==
  \/ SweepFails(w)
  \/ Stop(w)
  \/ Start(w)

Next ==
  \/ Environment
  \/ \E w \in Worker : Loop(w) \/ Faults(w)

Spec == Init /\ [][Next]_vars

\* The interval elapses and PostgreSQL answers; nothing else is owed.
Fairness == \A w \in Worker : WF_vars(Loop(w))

FairSpec == Spec /\ Fairness

----------------------------------------------------------------------------
(***************************************************************************)
(* Properties.                                                             *)
(***************************************************************************)
\* Whatever the workers do to each other's sweeps, only what has been published
\* for longer than the retention window is gone.
OnlyExpiredAreDeleted == \A r \in deleted : IsPublished(r) /\ r.at <= horizon

\* Two workers that select the same rows count each of them once: every row a
\* worker has counted can be told apart from those the others have counted, and
\* when nothing fails none of the deleted rows is left uncounted.
CountedOnce ==
  \E credit \in [Worker -> SUBSET deleted] :
    /\ \A w \in Worker : Cardinality(credit[w]) = total[w]
    /\ \A v, w \in Worker : v # w => credit[v] \cap credit[w] = {}
    /\ faults = 0 => \A r \in deleted : \E w \in Worker : r \in credit[w]

\* What the smallest number retained tells (oldest_replayable_seq): a row can only
\* outlive one of a higher number if its id or its publication time is the later of
\* the two, which concurrent writers and publishers make possible.  No interleaving
\* of sweeps, no limit and no failure opens a gap of its own between two rows that
\* were written and published in the order of their numbers.
OnlyDisorderLeavesGaps ==
  \A d \in deleted, r \in rows :
    IsPublished(r) /\ r.seq < d.seq => d.id < r.id \/ d.at < r.at

\* Every expired row is deleted, whichever sweeps fail, while one worker runs.
EveryExpiredRowGoes ==
  \A n \in 1..MaxId :
    (\E r \in rows : r.id = n /\ Expired(r)) ~> (\A r \in rows : r.id # n)
============================================================================
