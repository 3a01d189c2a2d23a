--------------------------- MODULE StreamDelivery ---------------------------
(***************************************************************************)
(* The read path: the tailers (app/streaming/tailer.py), the hub           *)
(* (StreamHub), the endpoint /api/v1/stream (app/api/stream.py), retention *)
(* (app/streaming/retention.py) and a client that keeps the contract of    *)
(* README.md ("Client contract") and scripts/listen.py.                    *)
(*                                                                         *)
(* The publishers are external here: they only ever append to the stream   *)
(* and may leave holes (OutboxPublisher proves it, StreamTable says it).   *)
(* One event is published per step, a block being several such steps.      *)
(*                                                                         *)
(* A send and its processing by the client are one step: what is lost in   *)
(* between with the connection is, for both, as if it had not been sent.   *)
(* Every step of an endpoint ends at an await, where the event loop may    *)
(* run the tailer or another endpoint.                                     *)
(***************************************************************************)
EXTENDS StreamHub, FiniteSets

CONSTANTS
  Worker,       \* the application's processes, each with a tailer and a hub
  Client,       \* the WebSocket clients
  Item,         \* the entities (aggregate_id)
  None,         \* no worker, no filter
  Filter,       \* Filter[c]: the aggregate_id c asks for, or None
  TailBatch,    \* tailer_batch_size
  PageSize,     \* stream_replay_batch_size
  Retention,    \* outbox_retention_enabled
  TrimInOrder,  \* TRUE: only the runs in which retention follows stream_seq
  MaxSeq,       \* bound: numbers the publishers draw
  MaxFaults     \* bound: connections lost, workers shut down or crashed

ASSUME DeliveryAssumption ==
  /\ None \notin Worker /\ None \notin Item
  /\ Filter \in [Client -> Item \cup {None}]
  /\ TailBatch \in Nat \ {0} /\ PageSize \in Nat \ {0}
  /\ Retention \in BOOLEAN /\ TrimInOrder \in BOOLEAN
  /\ MaxSeq \in Nat /\ MaxFaults \in Nat

VARIABLES
  lastSeq,    \* last value drawn from outbox_stream_seq
  published,  \* events that have, or once had, a stream_seq: [seq, item]
  trimmed,    \* numbers of the events retention has deleted
  tailer,     \* tailer[w]: state of w, its cursor and the rows it has fetched
  conn,       \* conn[c]: c's connection as the endpoint sees it
  client,     \* client[c]: what c remembers
  faults      \* faults so far

vars == <<lastSeq, published, trimmed, tailer, conn, client, faults>>

Event == [seq : Nat \ {0}, item : Item]

Tailer == [state : {"running", "closing", "down"}, cursor : Nat, fetched : Seq(Event)]

\* Mutant: replay first, subscribe afterwards.
RegisteredMutant == {"pumping", "getting"}

\* Between hub.subscribe and hub.unsubscribe.
Registered == {"replaying", "sending", "sendingLast", "pumping", "getting"}

\* Where the endpoint is.  "sending" and "sendingLast": in the midst of a page
\* that was full or not.  "pumping": at the top of _pump's loop; "getting": it
\* waits for the queue.
PC == {"offline", "accepted", "checked", "replaying", "sending", "sendingLast",
       "pumping", "getting"}

\* skip is replayed_to, which _pump takes as skip_up_to.
Connection == [pc : PC, worker : Worker \cup {None}, sub : Subscriber,
               skip : Nat, page : Seq(Nat)]

Offline == [pc |-> "offline", worker |-> None, sub |-> NewSubscriber,
            skip |-> 0, page |-> <<>>]

\* first: the number of the first event processed since the last resync, 0 if
\* none; processed: those processed since; duplicate: an event had to be
\* discarded by rule 3 of the contract.
Memory == [cursor : Nat, first : Nat, processed : SUBSET (Nat \ {0}),
           duplicate : BOOLEAN]

Fresh == [cursor |-> 0, first |-> 0, processed |-> {}, duplicate |-> FALSE]

TypeOK ==
  /\ lastSeq \in Nat
  /\ published \subseteq Event
  /\ trimmed \subseteq Nat
  /\ tailer \in [Worker -> Tailer]
  /\ conn \in [Client -> Connection]
  /\ client \in [Client -> Memory]
  /\ faults \in 0..MaxFaults
  /\ \A c \in Client : Len(conn[c].sub.queue) <= QueueSize

Started(cursor) == [state |-> "running", cursor |-> cursor, fetched |-> <<>>]

Init ==
  /\ lastSeq = 0
  /\ published = {}
  /\ trimmed = {}
  /\ tailer = [w \in Worker |-> Started(0)]
  /\ conn = [c \in Client |-> Offline]
  /\ client = [c \in Client |-> Fresh]
  /\ faults = 0

----------------------------------------------------------------------------
(***************************************************************************)
(* The table.                                                              *)
(***************************************************************************)
Retained == {e \in published : e.seq \notin trimmed}

\* coalesce(max(stream_seq), 0)
IsNewest(n) ==
  /\ n = 0 \/ \E e \in Retained : e.seq = n
  /\ \A e \in Retained : e.seq <= n

Ascending(page) ==
  \A j, k \in 1..Len(page) : j < k => page[j].seq < page[k].seq

\* WHERE stream_seq > after ORDER BY stream_seq LIMIT limit.
IsPage(page, rows, after, limit) ==
  LET above == {e \in rows : e.seq > after}
  IN  /\ Ascending(page)
      /\ \A k \in 1..Len(page) : page[k] \in above
      /\ \A e \in above :
           \/ \E k \in 1..Len(page) : page[k] = e
           \/ Len(page) = limit /\ \A k \in 1..limit : page[k].seq < e.seq

UpTo(n, rows) == UNION {[1..k -> rows] : k \in 0..n}

Pages(rows, after, limit) ==
  {page \in UpTo(limit, rows) : IsPage(page, rows, after, limit)}

Seqs(page) == [k \in 1..Len(page) |-> page[k].seq]

\* A publisher commits an event, or rolls back and leaves a hole.
Publish(i) ==
  /\ lastSeq < MaxSeq
  /\ lastSeq' = lastSeq + 1
  /\ published' = published \cup {[seq |-> lastSeq + 1, item |-> i]}
  /\ UNCHANGED <<trimmed, tailer, conn, client, faults>>

PublisherRollsBack ==
  /\ lastSeq < MaxSeq
  /\ lastSeq' = lastSeq + 1
  /\ UNCHANGED <<published, trimmed, tailer, conn, client, faults>>

\* _DELETE_SQL, row by row.  It deletes by id and by published_at, the time the
\* publisher's transaction began.  Mostly both follow stream_seq, but neither
\* has to, so unless TrimInOrder any published row may be the next to go.
Trim(e) ==
  /\ Retention
  /\ e \in Retained
  /\ TrimInOrder => \A f \in Retained : e.seq <= f.seq
  /\ trimmed' = trimmed \cup {e.seq}
  /\ UNCHANGED <<lastSeq, published, tailer, conn, client, faults>>

(***************************************************************************)
(* The tailer and hub of a worker.                                         *)
(***************************************************************************)
\* The query of _deliver_batch; after a notification, a poll interval, a full
\* batch or a reconnection, which keeps the cursor.
TailFetch(w) ==
  /\ tailer[w].state # "down"
  /\ tailer[w].fetched = <<>>
  /\ \E rows \in Pages(Retained, tailer[w].cursor, TailBatch) :
       /\ rows # <<>>
       /\ tailer' = [tailer EXCEPT ![w].fetched = rows]
  /\ UNCHANGED <<lastSeq, published, trimmed, conn, client, faults>>

Subscribers(w) == {c \in Client : conn[c].worker = w /\ conn[c].pc \in Registered}

Wants(c, e) == Filter[c] = None \/ Filter[c] = e.item

\* What publish() offers c of a batch: the rows it wants, in their order.
IsWanted(list, c, rows) ==
  /\ Ascending(list)
  /\ \A k \in 1..Len(list) : Wants(c, list[k])
  /\ \A j \in 1..Len(rows) :
       Wants(c, rows[j]) => \E k \in 1..Len(list) : list[k] = rows[j]

\* The rest of _deliver_batch, without an await: advance, then hub.publish.
TailDeliver(w) ==
  LET rows == tailer[w].fetched
      Some == UpTo(Len(rows), {rows[k] : k \in 1..Len(rows)})
  IN  /\ tailer[w].state # "down"
      /\ rows # <<>>
      /\ tailer' = [tailer EXCEPT ![w].cursor = rows[Len(rows)].seq,
                                  ![w].fetched = <<>>]
      /\ \E wanted \in [Subscribers(w) -> Some] :
           /\ \A c \in Subscribers(w) : IsWanted(wanted[c], c, rows)
           /\ conn' = [c \in Client |->
                         IF c \in Subscribers(w)
                           THEN [conn[c] EXCEPT !.sub = Offer(@, Seqs(wanted[c]))]
                           ELSE conn[c]]
      /\ UNCHANGED <<lastSeq, published, trimmed, client, faults>>

(***************************************************************************)
(* The client.                                                             *)
(***************************************************************************)
\* Rules 1 and 3: discard what is not above the cursor, else process it and
\* remember its number.
Processed(m, seq) ==
  IF seq <= m.cursor
    THEN [m EXCEPT !.duplicate = TRUE]
    ELSE [cursor    |-> seq,
          first     |-> IF m.first = 0 THEN seq ELSE m.first,
          processed |-> m.processed \cup {seq},
          duplicate |-> m.duplicate]

Receive(c, seq) == client' = [client EXCEPT ![c] = Processed(@, seq)]

\* Rule 2: connect to whichever worker the load balancer picks.
ClientConnect(c, w) ==
  /\ conn[c].pc = "offline"
  /\ tailer[w].state = "running"
  /\ conn' = [conn EXCEPT ![c] = [Offline EXCEPT !.pc = "accepted", !.worker = w]]
  /\ UNCHANGED <<lastSeq, published, trimmed, tailer, client, faults>>

(***************************************************************************)
(* The endpoint.  The cursor of the URL is client[c].cursor, which does    *)
(* not change before the first send.                                       *)
(***************************************************************************)
Close(c) == conn' = [conn EXCEPT ![c] = Offline]

\* oldest is not None and oldest > last_event_id + 1
TooOld(c) ==
  /\ Retained # {}
  /\ \A e \in Retained : e.seq > client[c].cursor + 1

CheckOldest(c) ==
  /\ conn[c].pc = "accepted"
  /\ client[c].cursor > 0
  /\ ~TooOld(c)
  /\ conn' = [conn EXCEPT ![c].pc = "checked"]
  /\ UNCHANGED <<lastSeq, published, trimmed, tailer, client, faults>>

\* cursor_too_old and close 4003: the client resynchronises and starts anew.
Refuse(c) ==
  /\ conn[c].pc = "accepted"
  /\ client[c].cursor > 0
  /\ TooOld(c)
  /\ Close(c)
  /\ client' = [client EXCEPT ![c] = Fresh]
  /\ UNCHANGED <<lastSeq, published, trimmed, tailer, faults>>

\* hub.subscribe and the ready frame; without a cursor there is no replay.
Subscribe(c) ==
  LET cursor == client[c].cursor
  IN  /\ \/ conn[c].pc = "checked"
         \/ conn[c].pc = "accepted" /\ cursor = 0
      /\ conn' = [conn EXCEPT ![c].pc = IF cursor > 0 THEN "replaying" ELSE "pumping",
                              ![c].sub = NewSubscriber,
                              ![c].skip = cursor]
      /\ UNCHANGED <<lastSeq, published, trimmed, tailer, client, faults>>

AfterPage(page) == IF Len(page) = 0 THEN "pumping"
                   ELSE IF Len(page) < PageSize THEN "sendingLast"
                   ELSE "sending"

\* One page of _replay; an empty one ends it.
ReplayFetch(c) ==
  /\ conn[c].pc = "replaying"
  /\ \E page \in Pages({e \in Retained : Wants(c, e)}, conn[c].skip, PageSize) :
       conn' = [conn EXCEPT ![c].pc = AfterPage(page), ![c].page = Seqs(page)]
  /\ UNCHANGED <<lastSeq, published, trimmed, tailer, client, faults>>

\* After the last event of a page: the next page, or the pump after a short one.
AfterSend(c) ==
  IF Len(conn[c].page) > 1 THEN conn[c].pc
  ELSE IF conn[c].pc = "sending" THEN "replaying"
  ELSE "pumping"

ReplaySend(c) ==
  /\ conn[c].pc \in {"sending", "sendingLast"}
  /\ Receive(c, Head(conn[c].page))
  /\ conn' = [conn EXCEPT ![c].skip = Head(conn[c].page),
                          ![c].page = Tail(@),
                          ![c].pc = AfterSend(c)]
  /\ UNCHANGED <<lastSeq, published, trimmed, tailer, faults>>

\* Mutant: the flag is never looked at.
OverflowedMutant(c) == FALSE

Overflowed(c) == conn[c].sub.overflowed

\* The top of _pump: close 4001 if the subscriber has overflowed.
PumpTop(c) ==
  /\ conn[c].pc = "pumping"
  /\ IF Overflowed(c)
       THEN Close(c)
       ELSE conn' = [conn EXCEPT ![c].pc = "getting"]
  /\ UNCHANGED <<lastSeq, published, trimmed, tailer, client, faults>>

\* next_event times out: a ping, and back to the top.
Heartbeat(c) ==
  /\ conn[c].pc = "getting"
  /\ conn[c].sub.queue = <<>>
  /\ conn' = [conn EXCEPT ![c].pc = "pumping"]
  /\ UNCHANGED <<lastSeq, published, trimmed, tailer, client, faults>>

\* Mutant: what arrived during the replay is sent again.
AlreadySentMutant(c, seq) == FALSE

AlreadySent(c, seq) == seq <= conn[c].skip

\* The sentinel closes with 4002; an event the replay has sent is passed over.
PumpGet(c) ==
  LET envelope == Head(conn[c].sub.queue)
      got      == [conn EXCEPT ![c].sub.queue = Tail(@), ![c].pc = "pumping"]
  IN  /\ conn[c].pc = "getting"
      /\ conn[c].sub.queue # <<>>
      /\ \/ /\ envelope = Shutdown
            /\ Close(c)
            /\ UNCHANGED client
         \/ /\ envelope # Shutdown
            /\ AlreadySent(c, envelope)
            /\ conn' = got
            /\ UNCHANGED client
         \/ /\ envelope # Shutdown
            /\ ~AlreadySent(c, envelope)
            /\ conn' = got
            /\ Receive(c, envelope)
      /\ UNCHANGED <<lastSeq, published, trimmed, tailer, faults>>

(***************************************************************************)
(* Faults, and the life of a worker.                                       *)
(***************************************************************************)
Fault ==
  /\ faults < MaxFaults
  /\ faults' = faults + 1

\* The connection breaks, or an exception in the endpoint closes it (1000).
ConnectionLost(c) ==
  /\ conn[c].pc # "offline"
  /\ Fault
  /\ Close(c)
  /\ UNCHANGED <<lastSeq, published, trimmed, tailer, client>>

\* lifespan's end: hub.shutdown interrupts the subscribers of this moment.
ShutDown(w) ==
  /\ tailer[w].state = "running"
  /\ Fault
  /\ tailer' = [tailer EXCEPT ![w].state = "closing"]
  /\ conn' = [c \in Client |->
                IF c \in Subscribers(w)
                  THEN [conn[c] EXCEPT !.sub = Interrupt(@)]
                  ELSE conn[c]]
  /\ UNCHANGED <<lastSeq, published, trimmed, client>>

Disconnect(w) ==
  conn' = [c \in Client |-> IF conn[c].worker = w THEN Offline ELSE conn[c]]

\* The process ends, after a shutdown or by a crash.
Exit(w) ==
  /\ \/ tailer[w].state = "closing" /\ UNCHANGED faults
     \/ tailer[w].state = "running" /\ Fault
  /\ tailer' = [tailer EXCEPT ![w] = [Started(0) EXCEPT !.state = "down"]]
  /\ Disconnect(w)
  /\ UNCHANGED <<lastSeq, published, trimmed, client>>

\* lifespan of a new process: a hub without subscribers, and a tailer that begins
\* at the end of the stream.
StartWorker(w) ==
  /\ tailer[w].state = "down"
  /\ \E n \in 0..lastSeq : IsNewest(n) /\ tailer' = [tailer EXCEPT ![w] = Started(n)]
  /\ UNCHANGED <<lastSeq, published, trimmed, conn, client, faults>>

----------------------------------------------------------------------------
Environment ==
  \/ \E i \in Item : Publish(i)
  \/ PublisherRollsBack
  \/ \E e \in Retained : Trim(e)

\* What the event loop of w does of its own accord.
TailStep(w) ==
  \/ TailFetch(w)
  \/ TailDeliver(w)
  \/ tailer[w].state = "closing" /\ Exit(w)

\* The client's connection and the endpoint that serves it.
StreamStep(c) ==
  \/ \E w \in Worker : ClientConnect(c, w)
  \/ CheckOldest(c)
  \/ Refuse(c)
  \/ Subscribe(c)
  \/ ReplayFetch(c)
  \/ ReplaySend(c)
  \/ PumpTop(c)
  \/ PumpGet(c)

Faults ==
  \/ \E c \in Client : ConnectionLost(c)
  \/ \E w \in Worker : ShutDown(w) \/ (tailer[w].state = "running" /\ Exit(w))

Next ==
  \/ Environment
  \/ \E w \in Worker : TailStep(w) \/ StartWorker(w)
  \/ \E c \in Client : StreamStep(c) \/ Heartbeat(c)
  \/ Faults

Spec == Init /\ [][Next]_vars

(***************************************************************************)
(* Nobody has to publish, trim or fail, or to start a worker again.  A     *)
(* poll interval ends every wait of a tailer, a process that shuts down    *)
(* exits, and the event loop runs every endpoint that can run.  A          *)
(* heartbeat is no progress; it needs no fairness, the queue wakes the     *)
(* pump.                                                                   *)
(***************************************************************************)
Fairness ==
  /\ \A w \in Worker : WF_vars(TailStep(w))
  /\ \A c \in Client : WF_vars(StreamStep(c))

FairSpec == Spec /\ Fairness

----------------------------------------------------------------------------
(***************************************************************************)
(* Properties.                                                             *)
(***************************************************************************)
\* e is one of the events a client has taken responsibility for: it wants it,
\* and its cursor has gone past it since the first event it processed.
Passed(c, e) ==
  /\ Wants(c, e)
  /\ client[c].first # 0
  /\ client[c].first <= e.seq /\ e.seq <= client[c].cursor

\* "An event cannot fail to arrive at all": across pages, the switch from the
\* replay to the live queue, overflows, lost connections, restarts and changes
\* of worker, a client's cursor never passes a wanted event the client has not
\* processed, unless retention has deleted that event.
NothingRetainedIsSkipped ==
  \A c \in Client : \A e \in Retained :
    Passed(c, e) => e.seq \in client[c].processed

\* A client that keeps the contract never has to discard anything: on every
\* connection, and from one to the next, the numbers sent to it ascend.  The
\* replay and the queue do overlap, but it is the pump that drops what the replay
\* has sent, and not the client, to whom ARCHITECTURE ("Client reconnect") leaves
\* it: "The overlap between the two paths produces duplicates, which the client
\* discards by cursor".
NeverSentTwice == \A c \in Client : ~client[c].duplicate

\* While the pump of a subscriber runs and has not overflowed, every event that
\* its worker's tailer has passed waits in its queue or has been sent: what
\* "subscribe first, replay second" (ARCHITECTURE, "Client reconnect") is for.
QueueHasNoGap ==
  \A c \in Client : \A e \in Retained :
    /\ conn[c].pc \in {"pumping", "getting"}
    /\ ~conn[c].sub.overflowed
    /\ client[c].first # 0 /\ client[c].cursor < e.seq
    /\ Wants(c, e)
    /\ e.seq <= tailer[conn[c].worker].cursor
    => \E k \in 1..Len(conn[c].sub.queue) : conn[c].sub.queue[k] = e.seq

\* Every client that has begun processes, in the end, every later event it
\* wants, whatever connections and workers are lost meanwhile.
EveryEventArrives ==
  \A c \in Client : \A n \in 1..MaxSeq :
    (/\ client[c].first # 0 /\ client[c].first < n
     /\ \E e \in published : e.seq = n /\ Wants(c, e))
      ~> n \in client[c].processed

\* README, "Reconnect window": "A cursor that is too old gets an explicit
\* refusal rather than a truncated history": of what follows an accepted cursor
\* nothing has been deleted.
StaleCursorIsRefused ==
  [][\A c \in Client :
       CheckOldest(c) => \A e \in published \ Retained : e.seq <= client[c].cursor]_vars

\* ARCHITECTURE, "What happens on failure": "a hole in the sequence does not
\* matter": who is refused has missed an event.
RefusedHasMissed ==
  [][\A c \in Client :
       Refuse(c) => \E e \in published \ Retained : e.seq > client[c].cursor]_vars
=============================================================================
