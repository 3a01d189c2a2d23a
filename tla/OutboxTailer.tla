---------------------------- MODULE OutboxTailer ----------------------------
(***************************************************************************)
(* app/streaming/tailer.py: the tailer of one worker reads the stream from *)
(* its cursor, batch by batch, and hands it to the worker's hub; and       *)
(* GET /health of the same worker (app/api/system.py), which says how far  *)
(* it is.  One action per SQL statement.                                   *)
(*                                                                         *)
(* The publishers and the writers are the steps that StreamTable allows    *)
(* them; retention deletes any published row.  PostgreSQL is external:     *)
(* statements see a snapshot of what is committed, and the trigger on      *)
(* stream_seq notifies the connections that LISTEN when it commits.        *)
(***************************************************************************)
EXTENDS StreamTable, Sequences, FiniteSets, Functions

CONSTANTS
  TailBatch,   \* tailer_batch_size
  MaxId,       \* bound: events ever committed
  MaxSeq,      \* bound: last stream_seq
  MaxTrimmed,  \* bound: events deleted
  MaxFaults    \* bound: connections lost and restarts

ASSUME TailerAssumption ==
  /\ TailBatch \in Nat \ {0}
  /\ MaxId \in Nat
  /\ MaxSeq \in Nat
  /\ MaxTrimmed \in Nat
  /\ MaxFaults \in Nat

VARIABLES
  trimmed,     \* events of the stream that retention has deleted
  connected,   \* the tailer has a live connection that LISTENs
  pc,          \* where the tailer is
  origin,      \* the cursor with which it started
  cursor,      \* _cursor
  fetched,     \* the rows it has read but not handed over, in their order
  handed,      \* the events given to the hub since it started, in their order
  notice,      \* a NOTIFY outbox_published is on its way
  wakeup,      \* its asyncio.Event is set
  health,      \* a GET /health that is being answered
  faults       \* faults so far

loopVars == <<connected, pc, origin, cursor, fetched, handed>>
signalVars == <<notice, wakeup>>
vars == <<streamVars, trimmed, loopVars, signalVars, health, faults>>

Retained == stream \ trimmed

\* "down": the process is not there; "starting": in start().
PC == {"down", "starting", "ready", "fetched", "waiting"}

Running == pc \notin {"down", "starting"}

\* A request: what it has still to read, what was committed when it came, and
\* what it has read.
Health == [todo : Seq({"pending", "head", "cursor"}), since : SUBSET Entry,
           pending : Nat, head : Nat]

TypeOK ==
  /\ committed \subseteq Entry /\ stream \subseteq Published
  /\ trimmed \subseteq stream
  /\ connected \in BOOLEAN /\ pc \in PC
  /\ origin \in Nat /\ cursor \in Nat
  /\ fetched \in Seq(Published) /\ Range(fetched) \subseteq stream
  /\ handed \in Seq(Published) /\ Range(handed) \subseteq stream
  /\ Len(fetched) <= TailBatch
  /\ pc = "fetched" <=> fetched # <<>>
  /\ notice \in BOOLEAN /\ wakeup \in BOOLEAN
  /\ notice => connected
  /\ health \in Health
  /\ faults \in 0..MaxFaults

NoRequest == [todo |-> <<>>, since |-> {}, pending |-> 0, head |-> 0]

Init ==
  /\ StreamInit
  /\ trimmed = {}
  /\ connected = FALSE /\ pc = "down"
  /\ origin = 0 /\ cursor = 0
  /\ fetched = <<>> /\ handed = <<>>
  /\ notice = FALSE /\ wakeup = FALSE
  /\ health = NoRequest
  /\ faults = 0

----------------------------------------------------------------------------
(***************************************************************************)
(* The rest of the service.                                                *)
(***************************************************************************)
\* Nothing here depends on the ids: they are taken as 1, 2, 3.
WriterCommits(i) ==
  /\ Cardinality(committed) < MaxId
  /\ Arrive([id |-> Cardinality(committed) + 1, item |-> i])
  /\ UNCHANGED <<trimmed, loopVars, signalVars, health, faults>>

\* published_at IS NULL
Unpublished == {e \in committed : \A s \in stream : s.id # e.id}

\* The block of a publisher that gives e the number seq[e].
Numbered(E, seq) == {[id |-> e.id, item |-> e.item, seq |-> seq[e]] : e \in E}

\* outbox_published_trigger: the notice leaves with the COMMIT.
PublisherCommits(block) ==
  /\ Publish(block)
  /\ notice' = (notice \/ connected)
  /\ UNCHANGED <<trimmed, loopVars, wakeup, health, faults>>

RetentionDeletes(s) ==
  /\ Cardinality(trimmed) < MaxTrimmed
  /\ trimmed' = trimmed \cup {s}
  /\ UNCHANGED <<streamVars, loopVars, signalVars, health, faults>>

----------------------------------------------------------------------------
(***************************************************************************)
(* start() and the loop.                                                   *)
(***************************************************************************)
\* start: the connection LISTENs before the newest number is read.
StartUp ==
  /\ pc = "down"
  /\ connected' = TRUE
  /\ pc' = "starting"
  /\ UNCHANGED <<streamVars, trimmed, origin, cursor, fetched, handed, signalVars,
                 health, faults>>

\* n is coalesce(max(stream_seq), 0).
IsNewest(n) ==
  /\ \A s \in Retained : s.seq <= n
  /\ n = 0 \/ \E s \in Retained : s.seq = n

ReadNewest ==
  /\ pc = "starting"
  /\ \E n \in {0} \cup {s.seq : s \in Retained} :
       IsNewest(n) /\ origin' = n /\ cursor' = n
  /\ handed' = <<>>
  /\ pc' = "ready"
  /\ UNCHANGED <<streamVars, trimmed, connected, fetched, signalVars, health, faults>>

\* _ensure_connection.
Connect ==
  /\ pc = "ready"
  /\ ~connected
  /\ connected' = TRUE
  /\ UNCHANGED <<streamVars, trimmed, pc, origin, cursor, fetched, handed, signalVars,
                 health, faults>>

\* Mutant: stream_seq >= $1.
UnreadMutant == {s \in Retained : cursor <= s.seq}

Unread == {s \in Retained : cursor < s.seq}

\* Mutant: no LIMIT.
UnlimitedMutant(page) == Range(page) = Unread

\* Mutant: LIMIT without ORDER BY.
UnorderedMutant(page) ==
  /\ Len(page) = IF Cardinality(Unread) < TailBatch THEN Cardinality(Unread) ELSE TailBatch
  /\ \A i, j \in DOMAIN page : i # j => page[i] # page[j]

\* _TAIL_SQL: ORDER BY stream_seq LIMIT.
IsPage(page) ==
  /\ Len(page) <= TailBatch
  /\ \A i, j \in DOMAIN page : i < j => page[i].seq < page[j].seq
  /\ \A s \in Unread \ Range(page) :
       /\ Len(page) = TailBatch
       /\ \A i \in DOMAIN page : page[i].seq < s.seq

\* What a SELECT of unread rows may answer, before its ORDER BY and LIMIT.
Answers == UNION {[1..n -> Unread] : n \in 0..Cardinality(Unread)}

Fetch ==
  /\ pc = "ready"
  /\ connected
  /\ \E page \in Answers :
       /\ IsPage(page)
       /\ fetched' = page
       /\ pc' = IF page = <<>> THEN "waiting" ELSE "fetched"
  /\ UNCHANGED <<streamVars, trimmed, connected, origin, cursor, handed, signalVars,
                 health, faults>>

\* Mutant: one batch per signal.
AfterBatchMutant == "waiting"

\* After a full batch _drain goes on; after any other it waits for a signal.
AfterBatch == IF Len(fetched) < TailBatch THEN "waiting" ELSE "ready"

\* The cursor moves and the hub gets the batch without an await in between.
Deliver ==
  /\ pc = "fetched"
  /\ cursor' = fetched[Len(fetched)].seq
  /\ handed' = handed \o fetched
  /\ fetched' = <<>>
  /\ pc' = AfterBatch
  /\ UNCHANGED <<streamVars, trimmed, connected, origin, signalVars, health, faults>>

\* _on_notify, whatever the loop is doing.
OnNotify ==
  /\ notice
  /\ notice' = FALSE
  /\ wakeup' = TRUE
  /\ UNCHANGED <<streamVars, trimmed, loopVars, health, faults>>

\* _wait_for_signal returns: the event is cleared before the next drain.
StopsWaiting ==
  /\ pc = "waiting"
  /\ wakeup' = FALSE
  /\ pc' = "ready"
  /\ UNCHANGED <<streamVars, trimmed, connected, origin, cursor, fetched, handed,
                 notice, health, faults>>

\* A notification has set it.
Wake == wakeup /\ StopsWaiting

\* Mutant: wait() without a timeout.
PollMutant == FALSE

\* tailer_poll_interval has elapsed, whatever the event says.
Poll == StopsWaiting

----------------------------------------------------------------------------
(***************************************************************************)
(* GET /health: three reads, at three moments.                             *)
(***************************************************************************)
\* Mutant: the head first.
ReadsMutant == <<"head", "pending", "cursor">>

Reads == <<"pending", "head", "cursor">>

HealthRequest ==
  /\ Running
  /\ health.todo = <<>>
  /\ health' = [NoRequest EXCEPT !.todo = Reads, !.since = committed]
  /\ UNCHANGED <<streamVars, trimmed, loopVars, signalVars, faults>>

NextRead(what) ==
  /\ Running
  /\ health.todo # <<>> /\ Head(health.todo) = what
  /\ UNCHANGED <<streamVars, trimmed, loopVars, signalVars, faults>>

Read == [health EXCEPT !.todo = Tail(@)]

\* count_unpublished.
ReadPending ==
  /\ NextRead("pending")
  /\ health' = [Read EXCEPT !.pending = Cardinality(Unpublished)]

\* current_stream_seq.
ReadHead ==
  /\ NextRead("head")
  /\ \E n \in {0} \cup {s.seq : s \in Retained} :
       IsNewest(n) /\ health' = [Read EXCEPT !.head = n]

\* The cursor is read from memory and the answer is sent.
HealthAnswer ==
  /\ NextRead("cursor")
  /\ health' = NoRequest

----------------------------------------------------------------------------
(***************************************************************************)
(* Faults.                                                                 *)
(***************************************************************************)
Fault ==
  /\ faults < MaxFaults
  /\ faults' = faults + 1

\* Where a lost connection takes the tailer: start() raises and the process
\* ends, a fetch raises and _run reconnects, a wait notices nothing yet.
AfterLoss ==
  CASE pc = "starting" -> "down"
    [] pc = "fetched"  -> "ready"
    [] OTHER           -> pc

ConnectionLost ==
  /\ connected
  /\ Fault
  /\ connected' = FALSE
  /\ notice' = FALSE
  /\ fetched' = <<>>
  /\ pc' = AfterLoss
  /\ UNCHANGED <<streamVars, trimmed, origin, cursor, handed, wakeup, health>>

\* stop(), or the death of the process.
Stop ==
  /\ pc # "down"
  /\ Fault
  /\ connected' = FALSE
  /\ notice' = FALSE /\ wakeup' = FALSE
  /\ fetched' = <<>>
  /\ pc' = "down"
  /\ origin' = 0 /\ cursor' = 0
  /\ handed' = <<>>
  /\ health' = NoRequest
  /\ UNCHANGED <<streamVars, trimmed>>

----------------------------------------------------------------------------
Environment ==
  \/ \E i \in Item : WriterCommits(i)
  \/ \E E \in SUBSET Unpublished : \E seq \in [E -> 1..MaxSeq] :
       PublisherCommits(Numbered(E, seq))
  \/ \E s \in Retained : RetentionDeletes(s)

Loop ==
  \/ ReadNewest
  \/ Connect
  \/ Fetch
  \/ Deliver
  \/ Wake

Next ==
  \/ Environment
  \/ StartUp
  \/ Loop
  \/ Poll
  \/ OnNotify
  \/ HealthRequest \/ ReadPending \/ ReadHead \/ HealthAnswer
  \/ ConnectionLost
  \/ Stop

Spec == Init /\ [][Next]_vars

\* The event loop runs a task that can run, PostgreSQL answers statements and
\* delivers notices.  The poll interval is left to PollingSuffices.
Fairness == WF_vars(Loop) /\ WF_vars(OnNotify)

FairSpec == Spec /\ Fairness

----------------------------------------------------------------------------
(***************************************************************************)
(* Properties.                                                             *)
(***************************************************************************)
Feed == INSTANCE TailFeed

\* What the hub has been given since the start is the stream from there to the
\* cursor, each event once and in the order of stream_seq, but for what was deleted
\* first: although a batch is read before the cursor moves, and others publish,
\* delete and fail in between, no batch repeats an event or comes out of turn.
ImplementsTailFeed == Feed!FeedSpec

\* What an answer of GET /health lets one conclude although its three numbers
\* are read at three moments: if nothing is pending and the lag is not positive,
\* then every event committed before the request has been handed over, unless it
\* was there before the start or has been deleted.
QuietMeansDelivered ==
  [][HealthAnswer /\ health.pending = 0 /\ health.head - cursor <= 0 =>
       \A e \in health.since :
         \E s \in stream :
           /\ EntryOf(s) = e
           /\ s \in Range(handed) \cup trimmed \/ s.seq <= origin]_vars

\* The event numbered n is handed over or deleted, as long as the process lives.
EveryEventIsTailed ==
  \A n \in 1..MaxSeq :
    (Running /\ cursor < n /\ \E s \in stream : s.seq = n) ~>
      (~Running \/ cursor >= n \/ \E s \in trimmed : s.seq = n)

\* While no connection is lost the notifications are enough, however long the
\* poll interval.
NotificationsSuffice == [](faults = 0) => EveryEventIsTailed

\* Whatever notices are lost with a connection, polling finds the events.
PollingSuffices == WF_vars(Poll) => EveryEventIsTailed
=============================================================================
