-------------------------- MODULE OutboxPublisher --------------------------
(***************************************************************************)
(* app/streaming/publisher.py: every worker runs a publisher; the one that *)
(* holds the transaction-level advisory lock claims a batch of committed   *)
(* rows, reserves a block of the sequence outbox_stream_seq, marks the     *)
(* rows with it and commits.  One action per SQL statement.                *)
(*                                                                         *)
(* Writers are the actions of OutboxTable.  PostgreSQL is external: an     *)
(* advisory lock released by the end of the transaction, a sequence that   *)
(* no rollback gives back, snapshots that show committed rows only, and    *)
(* NOTIFY delivered, some time after the commit, to the connections that   *)
(* LISTEN at that moment.                                                  *)
(***************************************************************************)
EXTENDS OutboxTable, Sequences

CONSTANTS
  Worker,      \* the application's processes
  NoWorker,    \* the lock is free
  BatchSize,   \* dispatcher_batch_size
  MaxId,       \* bound: rows ever inserted
  MaxFaults    \* bound: connections lost and workers stopped

ASSUME PublisherAssumption ==
  /\ NoWorker \notin Worker
  /\ BatchSize \in Nat \ {0}
  /\ MaxId \in Nat
  /\ MaxFaults \in Nat

VARIABLES
  stream,      \* rows that have published_at and stream_seq: [id, item, seq]
  lastSeq,     \* last value drawn from outbox_stream_seq
  lock,        \* the worker whose session holds the advisory lock
  connected,   \* connected[w]: w has a live connection that LISTENs
  pc,          \* pc[w]: where w's loop is
  rows,        \* rows[w]: the batch w claimed, in id order
  start,       \* start[w]: first number of the block w reserved
  notices,     \* notices[w]: a NOTIFY outbox_new is on its way to w
  wakeup,      \* wakeup[w]: w's asyncio.Event is set
  faults       \* faults so far

pubVars == <<stream, lastSeq, lock, connected, pc, rows, start, notices,
             wakeup, faults>>
vars == <<outboxVars, pubVars>>

Published == [id : Nat \ {0}, item : Item, seq : Nat \ {0}]

\* From BEGIN and the lock up to the COMMIT.  Otherwise a publisher is about
\* to try a batch, asleep in _wait_for_signal, or not running.
InTransaction == {"locked", "claimed", "reserving", "reserved", "marked"}
PC            == {"ready", "waiting", "stopped"} \cup InTransaction


count(w) == Len(rows[w])

TypeOK ==
  /\ OutboxTypeOK
  /\ stream \subseteq Published
  /\ lastSeq \in Nat
  /\ lock \in Worker \cup {NoWorker}
  /\ connected \in [Worker -> BOOLEAN]
  /\ pc \in [Worker -> PC]
  /\ rows \in [Worker -> Seq(Entry)]
  /\ start \in [Worker -> Nat]
  /\ notices \in [Worker -> BOOLEAN]
  /\ wakeup \in [Worker -> BOOLEAN]
  /\ faults \in 0..MaxFaults

Init ==
  /\ OutboxInit
  /\ stream = {}
  /\ lastSeq = 0
  /\ lock = NoWorker
  /\ connected = [w \in Worker |-> FALSE]
  /\ pc = [w \in Worker |-> "ready"]
  /\ rows = [w \in Worker |-> <<>>]
  /\ start = [w \in Worker |-> 0]
  /\ notices = [w \in Worker |-> FALSE]
  /\ wakeup = [w \in Worker |-> FALSE]
  /\ faults = 0

----------------------------------------------------------------------------
(***************************************************************************)
(* The writers: the trigger outbox_after_insert sends pg_notify inside the *)
(* transaction, so the notice leaves with the COMMIT.                      *)
(***************************************************************************)
InsertRow(i) ==
  /\ lastId < MaxId
  /\ Insert(i)
  /\ UNCHANGED pubVars

CommitWrite(e) ==
  /\ CommitRow(e)
  /\ notices' = [w \in Worker |-> notices[w] \/ connected[w]]
  /\ UNCHANGED <<stream, lastSeq, lock, connected, pc, rows, start, wakeup, faults>>

RollbackWrite(e) ==
  /\ RollbackRow(e)
  /\ UNCHANGED pubVars

(***************************************************************************)
(* The publisher's connection and its wake-up event.                       *)
(***************************************************************************)
\* _ensure_connection: LISTEN before the first drain.
Connect(w) ==
  /\ pc[w] = "ready"
  /\ ~connected[w]
  /\ connected' = [connected EXCEPT ![w] = TRUE]
  /\ UNCHANGED <<outboxVars, stream, lastSeq, lock, pc, rows, start, notices,
                 wakeup, faults>>

\* _on_notify, whatever the loop is doing.
OnNotify(w) ==
  /\ notices[w]
  /\ notices' = [notices EXCEPT ![w] = FALSE]
  /\ wakeup' = [wakeup EXCEPT ![w] = TRUE]
  /\ UNCHANGED <<outboxVars, stream, lastSeq, lock, connected, pc, rows, start,
                 faults>>

\* _wait_for_signal returns: the event is cleared before the next drain.
StopsWaiting(w) ==
  /\ pc[w] = "waiting"
  /\ wakeup' = [wakeup EXCEPT ![w] = FALSE]
  /\ pc' = [pc EXCEPT ![w] = "ready"]
  /\ UNCHANGED <<outboxVars, stream, lastSeq, lock, connected, rows, start,
                 notices, faults>>

\* A notification has set it.
Wake(w) == wakeup[w] /\ StopsWaiting(w)

\* Mutant: wait() without a timeout.
PollMutant(w) == FALSE

\* dispatcher_poll_interval has elapsed, whatever the event says.
Poll(w) == StopsWaiting(w)

(***************************************************************************)
(* _publish_batch, statement by statement.                                 *)
(***************************************************************************)
\* The end of w's transaction, and where its loop continues.
EndTransaction(w, next) ==
  /\ lock' = NoWorker
  /\ rows' = [rows EXCEPT ![w] = <<>>]
  /\ start' = [start EXCEPT ![w] = 0]
  /\ pc' = [pc EXCEPT ![w] = next]

\* Mutant: SKIP LOCKED alone keeps publishers apart.
LockFreeMutant == TRUE

LockFree == lock = NoWorker

\* pg_try_advisory_xact_lock never waits: without the lock the round is skipped.
TryLock(w) ==
  /\ pc[w] = "ready"
  /\ connected[w]
  /\ \/ /\ LockFree
        /\ lock' = w
        /\ pc' = [pc EXCEPT ![w] = "locked"]
     \/ /\ ~LockFree
        /\ pc' = [pc EXCEPT ![w] = "waiting"]
        /\ UNCHANGED lock
  /\ UNCHANGED <<outboxVars, stream, lastSeq, connected, rows, start, notices,
                 wakeup, faults>>

IsIn(e, batch) == \E k \in 1..Len(batch) : batch[k] = e

IsPublished(e) == \E s \in stream : s.id = e.id

\* Committed, unpublished, and not row-locked by another publisher's claim.
Claimable(w) ==
  {e \in committed : ~IsPublished(e) /\ \A v \in Worker \ {w} : ~IsIn(e, rows[v])}

\* Mutant: the batch in any order.
AscendingMutant(batch) ==
  \A j, k \in 1..Len(batch) : j < k => batch[j] # batch[k]

Ascending(batch) ==
  \A j, k \in 1..Len(batch) : j < k => batch[j].id < batch[k].id

\* Mutant: LIMIT without ORDER BY, the order restored afterwards.
LowestMutant(batch, avail) ==
  Len(batch) = BatchSize \/ \A e \in avail : IsIn(e, batch)

\* ORDER BY id LIMIT: no row that is left out precedes one that is taken, and
\* none is left out unless the batch is full.
Lowest(batch, avail) ==
  \A e \in avail :
    \/ IsIn(e, batch)
    \/ /\ Len(batch) = BatchSize
       /\ \A k \in 1..Len(batch) : batch[k].id < e.id

Claim(w) ==
  /\ pc[w] = "locked"
  /\ \/ /\ Claimable(w) = {}
        /\ EndTransaction(w, "waiting")
     \/ /\ \E k \in 1..BatchSize : \E batch \in [1..k -> Claimable(w)] :
             /\ Ascending(batch)
             /\ Lowest(batch, Claimable(w))
             /\ rows' = [rows EXCEPT ![w] = batch]
        /\ pc' = [pc EXCEPT ![w] = "claimed"]
        /\ UNCHANGED <<lock, start>>
  /\ UNCHANGED <<outboxVars, stream, lastSeq, connected, notices, wakeup, faults>>

\* Mutant: no setval follows.
AfterNextvalMutant(w) == "reserved"

AfterNextval(w) == IF count(w) > 1 THEN "reserving" ELSE "reserved"

\* SELECT nextval: the first number of the block.
Nextval(w) ==
  /\ pc[w] = "claimed"
  /\ lastSeq' = lastSeq + 1
  /\ start' = [start EXCEPT ![w] = lastSeq + 1]
  /\ pc' = [pc EXCEPT ![w] = AfterNextval(w)]
  /\ UNCHANGED <<outboxVars, stream, lock, connected, rows, notices, wakeup, faults>>

\* Mutant: one number too many.
LastOfBlockMutant(w) == start[w] + count(w)

LastOfBlock(w) == start[w] + count(w) - 1

\* SELECT setval: the last one.  It sets the sequence, whatever its value is now.
Setval(w) ==
  /\ pc[w] = "reserving"
  /\ lastSeq' = LastOfBlock(w)
  /\ pc' = [pc EXCEPT ![w] = "reserved"]
  /\ UNCHANGED <<outboxVars, stream, lock, connected, rows, start, notices,
                 wakeup, faults>>

\* UPDATE outbox ... FROM unnest(ids, seqs), not yet visible to others.
Mark(w) ==
  /\ pc[w] = "reserved"
  /\ pc' = [pc EXCEPT ![w] = "marked"]
  /\ UNCHANGED <<outboxVars, stream, lastSeq, lock, connected, rows, start,
                 notices, wakeup, faults>>

\* Mutant: the block starts below the number drawn.
BlockMutant(w) ==
  {[id |-> rows[w][k].id, item |-> rows[w][k].item, seq |-> start[w] - k] :
     k \in 1..count(w)}

\* The marked rows of w, with ids and seqs zipped.
Block(w) ==
  {[id |-> rows[w][k].id, item |-> rows[w][k].item, seq |-> start[w] + k - 1] :
     k \in 1..count(w)}

\* Mutant: one batch per signal.
AfterBatchMutant(w) == "waiting"

\* After a full batch _drain goes on; after any other it waits for a signal.
AfterBatch(w) == IF count(w) < BatchSize THEN "waiting" ELSE "ready"

Commit(w) ==
  /\ pc[w] = "marked"
  /\ stream' = stream \cup Block(w)
  /\ EndTransaction(w, AfterBatch(w))
  /\ UNCHANGED <<outboxVars, lastSeq, connected, notices, wakeup, faults>>

(***************************************************************************)
(* Faults.                                                                 *)
(***************************************************************************)
\* What w's loop does once its connection is lost: a statement raises and
\* _run closes and reconnects; a loop that is asleep notices nothing yet.
AfterLoss(w) == IF pc[w] \in InTransaction THEN "ready" ELSE pc[w]

\* The server rolls the transaction back now, or still holds its locks until
\* it finds out that the client is gone (ServerNotices).
Disconnect(w) ==
  /\ connected' = [connected EXCEPT ![w] = FALSE]
  /\ notices' = [notices EXCEPT ![w] = FALSE]
  /\ rows' = [rows EXCEPT ![w] = <<>>]
  /\ start' = [start EXCEPT ![w] = 0]
  /\ lock' \in IF pc[w] \in InTransaction THEN {w, NoWorker} ELSE {lock}

Fault ==
  /\ faults < MaxFaults
  /\ faults' = faults + 1

ConnectionLost(w) ==
  /\ connected[w]
  /\ Fault
  /\ Disconnect(w)
  /\ pc' = [pc EXCEPT ![w] = AfterLoss(w)]
  /\ UNCHANGED <<outboxVars, stream, lastSeq, wakeup>>

\* The COMMIT took effect, its answer is lost: _run takes it for a failure.
CommitUnacknowledged(w) ==
  /\ pc[w] = "marked"
  /\ Fault
  /\ stream' = stream \cup Block(w)
  /\ EndTransaction(w, "ready")
  /\ connected' = [connected EXCEPT ![w] = FALSE]
  /\ notices' = [notices EXCEPT ![w] = FALSE]
  /\ UNCHANGED <<outboxVars, lastSeq, wakeup>>

ServerNotices ==
  /\ lock # NoWorker
  /\ pc[lock] \notin InTransaction
  /\ lock' = NoWorker
  /\ UNCHANGED <<outboxVars, stream, lastSeq, connected, pc, rows, start,
                 notices, wakeup, faults>>

\* stop(), or the death of the process; never of the last worker running.
Stop(w) ==
  /\ pc[w] # "stopped"
  /\ \E v \in Worker \ {w} : pc[v] # "stopped"
  /\ Fault
  /\ Disconnect(w)
  /\ pc' = [pc EXCEPT ![w] = "stopped"]
  /\ wakeup' = [wakeup EXCEPT ![w] = FALSE]
  /\ UNCHANGED <<outboxVars, stream, lastSeq>>

\* start() in the process that replaces it.
Start(w) ==
  /\ pc[w] = "stopped"
  /\ pc' = [pc EXCEPT ![w] = "ready"]
  /\ UNCHANGED <<outboxVars, stream, lastSeq, lock, connected, rows, start,
                 notices, wakeup, faults>>

----------------------------------------------------------------------------
Write ==
  \/ \E i \in Item : InsertRow(i)
  \/ \E e \in open : CommitWrite(e) \/ RollbackWrite(e)

\* The steps of w's loop.
Loop(w) ==
  \/ Connect(w)
  \/ TryLock(w)
  \/ Claim(w)
  \/ Nextval(w)
  \/ Setval(w)
  \/ Mark(w)
  \/ Commit(w)
  \/ Wake(w)

Faults(w) ==
  \/ ConnectionLost(w)
  \/ CommitUnacknowledged(w)
  \/ Stop(w)
  \/ Start(w)

Next ==
  \/ Write
  \/ \E w \in Worker : Loop(w) \/ Poll(w) \/ OnNotify(w) \/ Faults(w)
  \/ ServerNotices

Spec == Init /\ [][Next]_vars

(***************************************************************************)
(* Writers owe no write and faults need not happen.  The event loop runs a *)
(* task that can run, PostgreSQL answers a statement, delivers a notice    *)
(* and detects a dead client.  That the poll interval elapses, however     *)
(* long it is configured, is left to PollingSuffices.                      *)
(***************************************************************************)
Fairness ==
  /\ \A w \in Worker : WF_vars(Loop(w)) /\ WF_vars(OnNotify(w))
  /\ WF_vars(ServerNotices)

FairSpec == Spec /\ Fairness

----------------------------------------------------------------------------
(***************************************************************************)
(* Properties.                                                             *)
(***************************************************************************)
\* No row is published twice and no stream_seq is given twice, although
\* nextval and setval are two statements, batches overlap in time with other
\* publishers, and a commit whose answer was lost is tried again.
PublishedOnce ==
  \A s, t \in stream : s.id = t.id \/ s.seq = t.seq => s = t

\* "stream_seq is assigned in commit order of the publishers": what becomes
\* visible is above all that already is, the one fact that lets a tailer or a
\* client resume from the highest number it has seen.
AppendOnly ==
  [][\A s \in stream' \ stream, t \in stream : t.seq < s.seq]_vars

\* Within one item the stream has the order of the writes, without a gap: an
\* event is never published before an older committed one of its item.
ItemOrder ==
  \A s \in stream : \A e \in committed :
    e.item = s.item /\ e.id < s.id =>
      \E t \in stream : t.id = e.id /\ t.seq < s.seq

\* A publisher's claim, while it is open: rows not yet published, each after
\* all older committed rows of its item.
ClaimIsSound(w) ==
  /\ rows[w] # <<>> /\ count(w) <= BatchSize
  /\ Ascending(rows[w])
  /\ \A k \in 1..count(w) :
       /\ rows[w][k] \in committed /\ ~IsPublished(rows[w][k])
       /\ \A e \in committed :
            e.item = rows[w][k].item /\ e.id < rows[w][k].id =>
              IsPublished(e) \/ \E j \in 1..k : j < k /\ rows[w][j] = e

\* The inductive invariant: only the holder of the lock is in a transaction and
\* has claimed rows, and the numbers it has reserved are above all in use.
OneAssigner ==
  /\ \A w \in Worker : pc[w] \in InTransaction => lock = w
  /\ \A w \in Worker : pc[w] \in InTransaction \ {"locked"} \/ rows[w] = <<>>
  /\ \A w \in Worker : pc[w] \in InTransaction \ {"locked"} => ClaimIsSound(w)
  /\ \A w \in Worker : pc[w] \in {"reserving", "reserved", "marked"} =>
       start[w] > 0 /\ \A s \in stream : s.seq < start[w]
  /\ \A w \in Worker : pc[w] = "reserving" => lastSeq = start[w]
  /\ \A w \in Worker : pc[w] \in {"reserved", "marked"} =>
       start[w] + count(w) - 1 <= lastSeq
  /\ \A s \in stream : s.seq <= lastSeq /\ [id |-> s.id, item |-> s.item] \in committed

Promise == INSTANCE StreamTable

\* All publishers together implement StreamTable.
ImplementsStreamTable == Promise!StreamSpec

\* Every committed event is published in the end.
EveryEventIsPublished ==
  \A n \in 1..MaxId :
    (\E e \in committed : e.id = n) ~> (\E s \in stream : s.id = n)

\* While nothing fails the notifications are enough, however long the poll
\* interval: no wake-up is lost between the last batch of a drain and the wait,
\* nor when the lock was taken.
NotificationsSuffice == [](faults = 0) => EveryEventIsPublished

\* Whatever connections, notices and workers are lost, polling gets every
\* event published as long as one worker runs.
PollingSuffices == (\A w \in Worker : WF_vars(Poll(w))) => EveryEventIsPublished

\* tests/test_workers.py: while nothing fails the numbers have no hole.
NumbersAreDense ==
  faults = 0 => \A s \in stream : \A n \in 1..s.seq : \E t \in stream : t.seq = n
============================================================================
