# The Transactional Outbox Service in TLA+

A verification development of the service under `src/`: a CRUD API over
PostgreSQL that writes an outbox row in the transaction of every change,
numbers the committed rows, and streams them over WebSockets to clients that
resume by number. What the service claims is about interleavings, crashes and
lost messages, so it is modelled and checked with TLC on small instances, and its
safety is proved with TLAPS for every value of the constants.

## 1. Inventory

| Part | Source | State it keeps | Operations |
|---|---|---|---|
| write path | `app/db/repository.py`, `app/api/items.py` | rows of `items` and `outbox`, row locks, the sequence of `outbox.id` | `create`, `update`, `delete`, each one transaction; `list`, two statements; `get` |
| connection pool | `app/db/pool.py` | connections in use | acquire, release |
| publisher, one per worker | `app/streaming/publisher.py` | its connection, the wake-up event; in the database `published_at`, `stream_seq`, `outbox_stream_seq`, the advisory lock | `_publish_batch`, `_drain`, `_wait_for_signal`, `_on_notify`, reconnect, start, stop |
| tailer, one per worker | `app/streaming/tailer.py` | cursor, connection, wake-up event | `_deliver_batch`, `_drain`, `_wait_for_signal`, `_on_notify`, reconnect, start, stop |
| hub, one per worker | `app/streaming/hub.py` | subscribers, each with a bounded queue and an overflow flag | `subscribe`, `unsubscribe`, `publish`, `shutdown` |
| stream endpoint | `app/api/stream.py` | one coroutine per client: position of the replay, `skip_up_to` | check of the cursor, subscribe, `_replay`, `_pump`, close codes |
| retention, one per worker | `app/streaming/retention.py` | `deleted_total` | a sweep per interval: batches of published rows older than a window |
| client | `README.md` "Client contract", `scripts/listen.py` | cursor, its copy of the items | discard, process, reconnect, resynchronise |
| lifespan, dispatcher | `app/main.py`, `app/streaming/dispatcher.py` | running tasks | start and stop the above |
| health and diagnostics | `app/api/system.py` | none | `GET /health`: unpublished rows, head of the stream, the tailer's cursor; `GET /outbox`: rows by id |
| schema | `migrations/versions/*` | sequences, NOTIFY triggers | |
| configuration, logging, schemas | `app/core/*`, `app/api/schemas.py` | none | |
| load test, smoke scripts | `loadtest/`, `scripts/smoke_*.py` | none | drive the service from outside |

How they interact. A request handler and the publishers share only the table
`outbox`; a trigger sends `NOTIFY outbox_new` with the commit of an insert. The
publishers of all workers compete for one advisory lock; their commits notify
`outbox_published`. Each tailer reads the published rows above its cursor and
calls `hub.publish` synchronously; each endpoint coroutine reads its own queue
and, while it replays, the table. Workers share no memory. Both notifications
are hints: every waiter also polls.

What is hard about each part, and what makes it correct:

- *Write path.* Writers of one item interleave, wait for each other's row lock
  while they hold pooled connections, roll back, or commit without the client
  learning of it. Correct: the items table is what the outbox replays to; the
  versions of an item form a chain; a conditional write succeeds at most once
  per version; an answer says what happened; nobody waits for ever.
- *Publisher.* Rows become visible in another order than their ids; `nextval`
  and `setval` are two statements; a publisher dies between any two statements
  or loses the answer to its COMMIT; notifications are lost. Correct: no event
  is published twice, no number is given twice, numbers become visible in
  ascending order (or a reader that resumes by number would skip events), the
  order within an item is kept, and everything is published in the end.
- *Tailer.* A batch is read before an `await` and handed over after it, while
  rows are published and deleted; it clears its wake-up event before it reads what
  the wake-up was about; its connection is lost while it reads, or unnoticed while
  it waits. Correct: from
  its start on, the hub gets every event of the stream once and in order, but
  for what is deleted first, and it gets it in the end.
- *Hub, endpoint.* The subscription overlaps with the replay, a queue overflows in
  the middle of a batch, the client reconnects to a worker whose tailer is behind
  or ahead, workers restart, rows are trimmed meanwhile. Correct: a client never
  passes an event it wants without processing it unless retention deleted it, is
  never sent one twice, and gets everything in the end.
- *Retention.* The workers sweep the same table without knowing of each other,
  fail between batches, and delete while clients are offline or in the middle of
  a replay. Correct: only what has expired goes, all of it, counted once; a client
  that has lost events is told so, and only then.
- *Client.* Its copy of the items comes from pages read at different moments and
  from a stream that it joins later. Correct: in the end the copy is the table.
- *Health.* Three reads at three moments. Correct: "nothing pending, no lag" means
  that what was committed has been handed over.

`PROJECT.json` lists every hazard at its line with the properties that watch
it, and those no property watches yet.

## 2. The modules

```
  OutboxTable  <--- implemented by ---  ItemRepository
       |  \____ OutboxTable_proofs           \____ ItemRepository_proofs
       | EXTENDS (its actions are the writers)
  OutboxPublisher --- implements --->  StreamTable
       \____ OutboxPublisher_proofs         | EXTENDS (its actions are the
                                            |  writers and the publishers)
                     TailFeed <-- implements -- OutboxTailer
                                                    \____ OutboxTailer_proofs
  StreamHub  <--- EXTENDS ---  StreamDelivery
                                    \____ StreamDelivery_proofs
  Retention                    Resync
       \____ Retention_proofs       \____ Resync_proofs
```

Each `MC...` module only extends a module and defines values of constants and a
symmetry set.

**`OutboxTable`** (abstract). The outbox as a reader of the table sees it:
rows open in a running transaction, rows committed, and the last id drawn.
`Insert`, `CommitRow`, `RollbackRow`; at most one open row per item.

**`ItemRepository`**. `app/db/repository.py` under the handlers of
`app/api/items.py`, one action per statement: `Submit` (the request arrives),
`Acquire` (pool, BEGIN), `InsertItem`, `SelectForUpdate` (with its 404 and 409
exits), `UpdateRow`, `DeleteRow`, `AppendEvent`, `Commit`. `Fail` is any
exception before the COMMIT (the context managers roll back and return the
connection); `CommitUnacknowledged` a COMMIT that took effect while the client
gets an error. The value of a column is the request that last wrote it, so that
a lost update or a column overwritten by a PATCH that did not name it is
visible. `holder` is PostgreSQL's row lock. Before the check of the version the
code reads the row that the last holder committed (`Visible`).

**`OutboxPublisher`**. Every statement of `_publish_batch` for every worker:
`TryLock`, `Claim`, `Nextval`, `Setval`, `Mark`, `Commit`; `_drain` is in where
`Commit` and `Claim` continue (`AfterBatch`), `_wait_for_signal` is `Wake` (the
event is set) and `Poll` (the poll interval has elapsed), `_ensure_connection` is
`Connect`, `_on_notify` is `OnNotify`. The writers are the actions of
`OutboxTable`; `CommitWrite` also sends the notice to the workers that LISTEN at
that moment. Faults: `ConnectionLost` at any point (the server rolls back at once,
or keeps the lock until `ServerNotices`), `CommitUnacknowledged`, `Stop` and
`Start` of a worker. The stale lock of a dead session is the reason why a
publisher may find the lock taken although nobody is publishing. The claim is the
SQL of `_CLAIM_SQL` as a condition: `Claimable` rows, `Ascending`, and the
`Lowest` ones. An exception that leaves the connection alive is not distinguished
from one that does not, because `_run` closes it either way.

**`StreamTable`** (abstract). What the publishers promise to every reader:
blocks of numbers become visible, each above all that is visible, each event
once, an item's events in the order of its writes; holes are allowed.

**`StreamHub`**. `Subscriber` and `StreamHub` as operators: `publish`, `offer`
and `interrupt` contain no `await`, so each is one value. `Offer` says what a
subscriber holds after a whole batch: all of it, or what fitted and the flag.

**`StreamDelivery`**. The tailers (`TailFetch`, `TailDeliver`: the cursor is read
before the `await` of the query and advanced together with `hub.publish` after
it), the endpoint (`CheckOldest`, `Refuse`, `Subscribe`, `ReplayFetch`,
`ReplaySend`, `PumpTop`, `PumpGet`, `Heartbeat`), retention (`Trim`), the life of
a worker (`ShutDown`, `Exit`, `StartWorker`), and a client that keeps the
documented contract (`Processed`, `ClientConnect`; after close 4003 it begins
anew). A step of an endpoint ends where the code awaits. `IsNewest` is the `max()`
of `tailer.py:54`, `TooOld` the comparison in `stream.py:51`; without retained
rows it is false, as `min()` is NULL. A client that is offline reconnects to any
worker that runs.

**`TailFeed`** (abstract). What a tailer promises to its hub: between the cursor
it started with and the cursor it has, every event that is still retained was
handed over, in ascending order and none a second time: what a step hands over
is a sequence, appended to what was handed over before.

**`OutboxTailer`**. The loop of one tailer, one action per statement: `StartUp`
(connect and LISTEN), `ReadNewest`, `Connect`, `Fetch`, `Deliver` (the cursor and
`hub.publish`, without an `await` between them), `AfterBatch` (where `_drain`
goes on), `OnNotify`, `Wake` and `Poll` (`_wait_for_signal` returns because the
event is set, or because `tailer_poll_interval` has elapsed). The tables change
by the actions of `StreamTable`, so what the publishers are proved to do is what
the tailer is checked against; `RetentionDeletes` takes any event of the stream.
`ConnectionLost` at any point (`AfterLoss` says where the exception ends up),
`Stop` for `stop()` and for the death of the process, after which `StartUp` begins
anew. Beside it a `GET /health` of the same worker: `HealthRequest`,
`ReadPending`, `ReadHead`, `HealthAnswer`, with anything in between.

**`Retention`**. Several workers' `OutboxRetention`: `Interval`, `Select` (the
subselect's snapshot), `Delete` (the rows it finds when it has their locks;
`count < batch` ends the sweep), `SweepFails`, `Stop`, `Start`. Rows carry id,
`stream_seq` and `published_at`; ids are committed in any order, and
`published_at`, the begin of the publisher's transaction, need not follow
`stream_seq`. `horizon` is `now()` less the window.

**`Resync`**. A client that keeps a copy of the items: `ReadPage` and `ReadTotal`
are the two statements of `ItemRepository.list`, `ClientConnect`, `Receive`,
`Miss`, `ConnectionLost` and `Refuse` the life of its stream. Writes and
publications are whole transactions here. `RetentionDeletes` takes any published
event at any moment. `TooOld` is the comparison of `stream.py:51`, so the endpoint
refuses a cursor exactly when the code does, and accepts an old one when
retention has left nothing, or has left something older. `Miss` is what
then happens to an event deleted before the replay or the tailer read it.
`joined`, `touched`, `shifted` and `missed` are history: where the first
connection since the list stood in the stream, which items were written since the
first page was read, which a deletion has since then moved from a page still to be
read onto one already read, and which events the connection has passed without
bringing them.

Definitions whose name ends in `Mutant` are not part of the model: each is a
plausible bug in the definition that follows it, kept to show that a property
notices it. `PROJECT.json` pairs them with properties.

## 3. What TLC checks

| Run | Bounds | What it shows |
|---|---|---|
| `write_path` | 3 requests, 2 items, 2 columns, pool of 3 | `TableMatchesOutbox`, `EntityHistory`, `OneWinnerPerVersion`, `AnswersAreTruthful`; `EntityPagesAreFinal` for `GET /outbox?aggregate_id=`; and `ImplementsOutboxTable`, the refinement of `OutboxTable` |
| `write_path_live` | 4 requests, 1 item, pool of 2 | `EveryRequestIsAnswered` |
| `publishers` | 2 workers, 3 rows of 2 items, batch 2, 2 faults | `PublishedOnce`, `AppendOnly`, `ItemOrder`, `NumbersAreDense`; and `ImplementsStreamTable` |
| `publishers_live` | 2 workers, 3 rows of 1 item, batch 2, 2 faults | `NotificationsSuffice`: without faults no wake-up is lost, although a worker that finds the lock taken throws its own away; `PollingSuffices`: with faults anywhere the poll gets every event published |
| `tailer` | 3 events, batch 2, 1 deletion, 1 fault | `ImplementsTailFeed`, the refinement of `TailFeed`: in order, nothing left out, nothing again; `QuietMeansDelivered` for `GET /health`; `NotificationsSuffice`, `PollingSuffices` |
| `delivery` | 1 client, 2 workers, 4 numbers, queue 1, tail batch 2, page 2, 1 fault, retention of any row at any time | `NothingRetainedIsSkipped`, `NeverSentTwice`, `QueueHasNoGap` |
| `delivery_live` | 1 client that wants one of 2 items, 3 numbers, 1 fault, no retention | `EveryEventArrives`, and `NothingRetainedIsSkipped` under the filter |
| `retention` | 2 workers, 3 rows, batch 2, 2 publication times, 2 faults | `OnlyExpiredAreDeleted`, `CountedOnce`, `OnlyDisorderLeavesGaps`, `EveryExpiredRowGoes` |
| `resync` | 2 items of 2 writes, pages of 1, 2 lost connections, retention of any event at any time | `OnlyTheWindowIsMissed` |
| `stale_cursor` | retention in stream order | finds `StaleCursorIsRefused` violated |
| `needless_refusal` | retention in stream order | finds `RefusedHasMissed` violated |
| `resync_documented` | 1 item | finds `ResyncIsComplete` violated |

Each module also has a type invariant, checked with its other invariants. It
includes the limits the code enforces: the length of a queue in `StreamDelivery`,
the size of a batch in `OutboxTailer` and `Retention`, that a connection is
never past the end of the stream in `Resync`.

What some of the properties say:

- `QuietMeansDelivered`. The numbers of `GET /health` are read one after the
  other while the tables move. If the answer has nothing pending and no positive
  lag, every event committed before the request came has been handed over, unless
  it was published before the tailer started or retention deleted it. This rests
  on the order of the reads: with the head first, an event could be published
  between the head and the count and be in neither. The lag may be negative
  when retention empties the table, which does not disturb this.
- `AnswersAreTruthful`. An action property: the tables change only in a step that
  answers a request, and a request is answered once. With 404 or 409 neither table
  changes, for a deletion too; with a success both get the whole write, of a row
  that is then at the version the request asked for; with an error both do (the
  answer to the COMMIT was lost) or neither.
- `OnlyDisorderLeavesGaps`. If a published row is still there while one with a
  higher `stream_seq` is deleted, its id or its publication time is the later of
  the two. Such disorder is normal (ids are drawn before the commit, a publisher
  takes its `now()` before the lock), so `oldest_replayable_seq` does not tell
  everything that is gone; the property says that nothing else, such as
  overlapping sweeps, limits or failures, adds to that.
- `OnlyTheWindowIsMissed`. When everything is published and the client is past the
  last event, an item of its copy is wrong for one of two reasons only. Either no
  event of it came after the client had joined the stream, and since the first page
  was read it was written, or a deletion moved it onto a page already read. Or
  the last event of it since the client joined was deleted by retention before the
  client got it (`LastIsMissed`): the endpoint then accepted a cursor although
  something after it was gone, or retention overtook an open replay. An old
  event that overwrites what the list had shown, a page counted in another snapshot,
  and connections lost and resumed are all repaired by what follows in the stream.
- `EntityPagesAreFinal`. Ids are no cursor for the whole outbox (they are drawn
  before the commit), but they are one for a single entity.

*Bounds.* Two requests race and a third sees what they left behind. In
`write_path_live` the first of four requests creates the item; of the others one
holds the row, one waits for it with the second of two connections, and one waits
for a connection; none of them names a version (`Named` is empty), because a 409
only ends a request sooner, and waiting is the same with one column as with two.
In `write_path` clients name every version there is and one there is not. Two
publishers are enough for every race for the lock, and three rows in batches of
two give a full batch, a short one, a hole left by a writer's rollback and a row
that commits after one with a higher id. A queue of one overflows in the middle of
a tailed batch of two. Four numbers are the fewest with which a replay can go
wrong: one that makes the client begin, one on a short page of the replay, one
that the tailer passes before the pump starts, and one after it that would show
the gap; with pages of one, the last page would always be empty and that moment
would not exist. Two faults allow a fault during the recovery from another; the
tailer and the delivery have one, which keeps their instances small: a restart at
the end of the stream, a connection lost in the middle of a batch or of a replay.
In the tailer's instance one deleted event (`MaxTrimmed`) may be the newest, which
takes the head back, or one in flight. In `Retention` two moments (`MaxTime`) make
a row expire before another that was published earlier; three rows in batches of
two let two workers select overlapping batches. Two items read one per page
(`PageLimit`) give a deletion before, at and behind the page that is being read;
two writes of an item are a creation followed by an update or a deletion. All four
events may be deleted (`MaxTrimmed`): of an accepted cursor's successors all,
some, or only the later ones. Two lost connections (`MaxLost`) give a client that
is refused, begins anew, and comes back once more.

A client's behaviour does not depend on other clients (each has its own queue,
coroutine and cursor) nor a tailer's on other tailers, so one of each is enough.
The constants `MaxId`, `MaxSeq`, `MaxTime`, `MaxTrimmed`, `MaxVersion`, `MaxLost`,
`MaxFaults` and `Named` occur in guards and in the choice of values only and say
where the instance ends. Symmetry is used only where no liveness is checked.

*Fairness.* Weak fairness of what the event loop or PostgreSQL runs of its own
accord: the statements of a request and the grant of a free connection or lock;
the loops of publisher, tailer and retention, whose interval elapses, and the
delivery of a notice; the detection of a dead session; the endpoint and the
reconnecting client. Nobody is obliged to write, to fail, to trim, to send a
heartbeat, or to start a worker again (`docker-compose.yml` has no restart
policy). The poll of publisher and tailer is in none of these: `PollingSuffices`
assumes it (`WF_vars(Poll)`), because the poll interval elapses, and
`NotificationsSuffice` does without it, because the interval may be as long as one
likes. One worker at least is assumed to keep running (`Stop`), without which
nothing can be promised. Deadlock is checked everywhere except in `Resync`, where
the system comes to rest when all is written and received; the write path may stop
only when every request is answered (`AllAnswered`).

### Findings

`PROJECT.json` quotes the lines.

1. *A stale cursor is accepted when the outbox is empty.* README, "Reconnect
   window": "A cursor that is too old gets an explicit refusal rather than a
   truncated history." If retention has deleted every row, `min(stream_seq)` is
   NULL and `stream.py:51` accepts any cursor. `stale_cursor` exhibits it: events
   1 and 2 are published, the client processes 1, both are deleted, the client
   resumes from 1 and is not told that 2 is gone. `NothingRetainedIsSkipped`
   says nothing of this, being about retained events; what it does to a copy of the
   items is the second reason in `OnlyTheWindowIsMissed`.
2. *A client that missed nothing is refused.* ARCHITECTURE says that a hole does
   not matter because cursors compare "greater than", not "next after";
   `stream.py:51` compares with `last_event_id + 1`. If a publisher's rollback
   left number 2 unused and 1 has been trimmed, a client that has processed 1 is
   sent away to resynchronise. This costs a resynchronisation, no data.
3. *The documented resynchronisation misses writes.* The refusal says
   "Resynchronise from GET /api/v1/items, then reconnect with the newest stream_seq
   you receive", but an item of the list has no `stream_seq`
   (`schemas.py:34-42`). The client can only connect with cursor 0, which is
   live-only, so what is published between the list and the subscription is missed
   for good, although an event "cannot fail to arrive at all" (README, "Client
   contract"). `resync_documented` exhibits it with one item. The same holds for a
   client that has connected but received nothing when its connection breaks. How
   far the damage goes is what `OnlyTheWindowIsMissed` states.
4. *The overlap is not left to the client.* ARCHITECTURE says that the overlap of
   replay and live events "produces duplicates, which the client discards by
   cursor". The pump drops what the replay has sent (`stream.py:193`,
   `skip_up_to`). The evidence here is a property that holds: by `NeverSentTwice`,
   checked in `delivery` and proved, no client gets a duplicate, although the
   overlap occurs (without that test, the mutant of the property, the client gets
   events twice). The README's "An event may arrive twice" promises less than the
   code does.

A smaller divergence, without a run: README calls `stream_head` the highest
assigned `stream_seq`; `current_stream_seq` returns the highest *retained* one,
0 when retention has emptied the table.

## 4. What is proved

Every invariant the passing runs check, the action properties
`AnswersAreTruthful`, `AppendOnly`, `EntityPagesAreFinal` and
`QuietMeansDelivered`, and the three refinements are theorems: for every set of
workers, clients and items, every size of batch, page, queue and pool, and every
bound. They rest on the assumptions the modules name, all of which the code or
PostgreSQL gives: a batch, a page, a queue and the pool hold at least one element
(`PublisherAssumption`, `TailerAssumption`, `RetentionAssumption`,
`DeliveryAssumption`, `HubAssumption`, `ResyncAssumption`,
`RepositoryAssumption`); NULL, the free lock and the shutdown sentinel are told
apart from real values (`NullAssumption` and the same names); there are finitely
many requests and items (`RepositoryAssumption`), and an item has a column. The
rest are types.

| Module | Theorem | States |
|---|---|---|
| `OutboxTable_proofs` | `TableIsOrdered` | the row locks order the ids of an item: one open row per item, younger than all its committed ones |
| `ItemRepository_proofs` | `InvHolds`, `TypeCorrect` | the inductive invariant, `TypeOK` |
| | `TableIsReplay`, `HistoryIsSound` | `TableMatchesOutbox`, `EntityHistory` |
| | `AnswersHold`, `OneWinner` | `AnswersAreTruthful`, `OneWinnerPerVersion` |
| | `PagesAreFinal` | `EntityPagesAreFinal` |
| | `Refinement` | `ImplementsOutboxTable` |
| `OutboxPublisher_proofs` | `Invariance`, `TypeCorrect` | the inductive invariant, `TypeOK` |
| | `NumbersAreUnique`, `ItemsAreInOrder` | `PublishedOnce`, `ItemOrder` |
| | `NumbersHaveNoHole` | `NumbersAreDense` |
| | `StreamIsAppendOnly` | `AppendOnly` |
| | `Refinement` | `ImplementsStreamTable`: every step is a step of `StreamTable` or a stutter |
| `OutboxTailer_proofs` | `InvHolds`, `TypeCorrect` | the inductive invariant, `TypeOK` |
| | `Refinement` | `ImplementsTailFeed` |
| | `QuietAnswers` | `QuietMeansDelivered` |
| `StreamDelivery_proofs` | `InvHolds`, `TypeCorrect` | the inductive invariant, `TypeOK` |
| | `NoEventIsSkipped`, `NoEventIsRepeated` | `NothingRetainedIsSkipped`, `NeverSentTwice` |
| | `QueueIsComplete` | `QueueHasNoGap` |
| `Retention_proofs` | `TypeCorrect`, `OnlyExpired` | `TypeOK`, `OnlyExpiredAreDeleted` |
| | `NoOtherGaps`, `CountsAreRight` | `OnlyDisorderLeavesGaps`, `CountedOnce` |
| `Resync_proofs` | `InvHolds`, `TypeCorrect` | the inductive invariant, `TypeOK` |
| | `OnlyTheWindow` | `OnlyTheWindowIsMissed` |

Each invariant was checked by TLC on the instances of the runs before it was
proved. What follows says why the properties need strengthening, and by what.

*Write path.* What a transaction writes follows from a row it has read in an
earlier statement. `WriteIsCurrent` says that what it knows of the row is still
true when it commits: a creation finds no row and no history, any other write the
row it has locked, at the version it asked for. That nobody changes the row
meanwhile is `LocksAreExclusive`: who is between the lock and the end of its
transaction is the holder of its item's row. `DrawnOnce` is what makes a creation
the first event of its item, although a deleted item has no row either: a UUID is
drawn once. `IdsAreOrdered` holds because ids are drawn under the row lock, so an
open event is younger than the item's committed ones; `EntityPagesAreFinal` and the
refinement of `OutboxTable` follow from it. `AnswersAreTruthful` follows from
`WriteIsCurrent` as well: the tables change only at a COMMIT, and what that writes
is then what the request was promised (`CommitWrites`). At most one
conditional write per version succeeds because versions of a row only grow, and
the first success leaves the row above the version it named, or gone
(`VersionIsSpent`). `TableMatchesOutbox` is then re-established by the one action
that changes both sides, the commit.

*Publishers.* `Inv` is `TypeOK`, `WritesAreOrdered`, `OneAssigner`, `PublishedOnce`,
`ItemOrder` and `NoNumberIsLost`. None of the properties is inductive by itself:

- That a commit adds only higher numbers holds because the block was reserved
  above all visible numbers *and* nobody else committed since. `OneAssigner`
  records both: only the holder of the lock is in a transaction or has claimed
  rows, and from `Nextval` to `Commit` its block starts above the stream and, once
  reserved, ends at or below the sequence.
- That the order of an item survives a commit needs the claim to be sound
  (`ClaimIsSound`): each claimed row comes after every older committed row of its
  item, which is either published or earlier in the same batch. A writer could
  break this by committing an older row of the item after the claim was taken.
  `WritesAreOrdered` excludes it: an open row is younger than every committed row
  of its item. This is where the publishers depend on
  `SELECT ... FOR UPDATE` in another module.
- That the numbers are dense is false in the middle of a batch, between `Nextval`
  and the commit. `NoNumberIsLost` says where the missing ones are: in the block of
  the publisher that still has to commit, which ends where the sequence stands.

The steps of the argument: `TypeStep`, `WritersStep` (a step of the publishers is
a step or a stutter of `OutboxTable`, so `OutboxTable_proofs` applies),
`ClaimIsSoundWhenTaken` and `ClaimSurvivesWrite`, `OneAssignerStep` with one case
per action, `CommitPublishes` (a commit is one `Publish` of `StreamTable`), and
`EveryStepPublishesABlock`, from which `StreamIsOrderedStep`, `AppendOnly` and the
refinement all follow.

*Tailer.* That a batch read before the `await` is still the next one when it is
handed over needs `BatchIsNext`, and this survives a publication only because
the new numbers are above all visible ones: the contract of `StreamTable`, which
the other proof establishes. `CursorIsReal` (the cursor is the number of an event)
puts the new numbers above the cursor as well, so `NothingIsPassedOver` survives
too. `BatchIsNext` also says that the batch ascends and lies above the cursor, which
every event handed over before is at or below: so no event is handed over a second
time.
`AnswerIsSound` says what a health request knows after each of its reads: after
the count, that all it asks about is in the stream; after the head, that it is at
or below the head or deleted. `PublishStep` and `WriteStep` extract what the
environment does, `TablesStep` shows that it disturbs nothing, and there is one
lemma for the fetch, the hand-over, the rest of the loop, and the health reads.

*Retention.* `OnlyDisorderLeavesGaps` is about what is deleted, but it is decided
when rows are selected. `ChosenIsLowest` carries it from the snapshot to the DELETE:
what is published below a selected row is selected with it, or has the higher id or
the later publication time. No other worker can break this (it only deletes), no
publisher (its numbers are higher, `NumbersAreDistinct`), and time only lets rows
expire. `RowsGoStep` covers a
DELETE that succeeds, fails, or is cancelled. `CountedOnce` needs
`Counting`: a worker that is stopped, and will count from 0 again, is already a
fault. A row is credited to the worker whose DELETE found it, which needs the row
to be in nobody's credit yet: a row is either present or deleted (`TypeOK`).

*Delivery.* `NothingRetainedIsSkipped` is about the client, but what makes it true
is spread over the tailer's batch, the queue, the page of the replay and the two
cursors. The invariant follows an event along that way:

- `FetchIsSound`: a fetched batch leaves out nothing retained between the tailer's
  cursor and its last event. It survives publication, which adds only above
  `lastSeq` (`TableMoves`), and retention, which only removes obligations.
- `PageIsSound`: the same for a page of the replay, from the client's cursor.
- `QueueIsOrdered` and `PumpIsSound`: a queue ascends and holds nothing the tailer
  has not passed, and each event in it either was sent by the replay, which
  `skip_up_to` drops, or is above the client's cursor. A client that comes from a
  worker ahead of this one has a cursor above the tailer's; then the replay
  started there, and the queue's events are dropped until the tailer catches up.
- `NothingIsLost`: from the last page of the replay on, what is due to the client
  (`IsDue`) and was offered by the hub (`IsOffered`) waits in the queue or on that
  page (`IsWaiting`). Once a queue has overflowed, only what found room counts as
  offered; this is why the pump may still send what is queued before it looks at
  the flag, and must not go on afterwards. It begins to hold at the empty or short
  page that ends the replay, because the subscription came first: whatever
  the tailer had passed by then was retained above `skip` and is on the page, or
  was published after the page was read and is in the queue.

`StreamDelivery_proofs` has a lemma per action of the endpoint, and for the
tailer's hand-over one per case of `Offer`: there was room, the queue overflowed
within the batch, it had overflowed before.

*Resync.* `OnlyTheWindowIsMissed` speaks of the end, when the connection is past
everything; the invariant says what the copy is before. `Got` are the events that
came since the client joined: what its connection has passed, without what it
missed. `ConnectionIsSound` says that the connection is past the cursor only by
missed events, so that a resumption from the cursor loses nothing that came.
`ReceivedIsShown`: the copy shows the last event got of an item. `EventsAreSound`:
the events of an item count its writes, so the last of them tells the state of its
row. If that one was not got it is missed. For an item without any event got there
is only the list: `ListIsSound` says that an item which nobody has touched and no
deletion has moved is listed rightly once the reading is past its position. A
creation puts a row in front and moves the others further down, where they may be
read twice but not missed; a deletion moves them up, and the one that crosses the
boundary of what has been read (`RowsRead`) is in `shifted`. Between `ReadPage` and
`ReadTotal` the page is not merged yet, hence `PositionIsRead` with a case for each
phase. `SameGot` covers the steps that change neither what was got nor the tables.

What rests on model checking alone is liveness, which is out of the prover's
reach: `EveryRequestIsAnswered`, `EveryEventArrives`, `EveryExpiredRowGoes`, and
`NotificationsSuffice` and `PollingSuffices` of publishers and tailer. The three
properties that findings 1 to 3 contradict are refuted, by TLC. `Offer` states the
result of a whole batch at once; that it is what offering the events one by one
yields would be an induction over the batch, and is not proved.

## 5. What is not modelled

- `GET /items/{id}`, one SELECT by key; the degraded answer of `GET /health`; the
  filters of `GET /outbox` other than one entity.
- The contents of names, values and JSON; logging; HTTP validation beyond the
  constraints that decide which calls reach the repository (`Call`).
- The debounce and back-off sleeps and retention's pause between two batches: each
  is merged into the step that follows, which may be delayed for any time anyway.
- `replay=false`, with which a client asks for no history; the task that watches
  for a disconnect, whose effect is `ConnectionLost`; the codes other than 4001,
  4002 and 4003. An exception during a replay closes with 1000, which the README
  calls a normal closure that asks nothing of the client; here the client
  reconnects whatever the code is, as the example client does with `--reconnect`.
- Retention inside `StreamDelivery`, `OutboxTailer` and `Resync` is the deletion of
  any published row at any moment, which allows more than `Retention` does. `Resync`
  leaves out the numbers that a rolled back batch skips: they could only make the
  endpoint refuse a client once more (finding 2).
- The order in which `dispatcher.py` starts a worker's tasks: other workers
  publish meanwhile anyway.
- Configuration, whose values are the constants here; indexes and downgrades of
  the migrations; PostgreSQL itself; the load test and the smoke scripts, which
  drive the service from outside and are nearly half of the repository's lines.

## 6. Plan

Done: all modules of section 2, the runs above, and the proofs of section 4. In
this order, next:

1. A composition of publishers and delivery: `StreamDelivery` with `StreamTable`
   as its environment instead of single events, and its tailers shown to implement
   `TailFeed`.
2. An independent definition of `hub.publish` as a fold over `offer`, checked
   equal to `Offer` for all small batches.
