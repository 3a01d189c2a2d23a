----------------------- MODULE StreamDelivery_proofs -----------------------
(***************************************************************************)
(* Proofs about StreamDelivery, for any number of workers, clients, items, *)
(* events and faults, any queue, batch and page size, with and without     *)
(* retention, in order or not.                                             *)
(***************************************************************************)
EXTENDS StreamDelivery, SequenceTheorems, TLAPS

USE DeliveryAssumption, HubAssumption

(***************************************************************************)
(* The invariant.                                                          *)
(***************************************************************************)
Home(c)  == tailer[conn[c].worker]
Queue(c) == conn[c].sub.queue
Slots(c) == {k \in 1..Len(Queue(c)) : Queue(c)[k] # Shutdown}

Replaying == {"replaying", "sending", "sendingLast"}
Sending   == {"sending", "sendingLast"}
Pumping   == {"pumping", "getting"}

\* Nobody remembers a number that was not drawn.
NumbersAreDrawn ==
  /\ \A e \in published : e.seq <= lastSeq
  /\ \A e, f \in published : e.seq = f.seq => e = f
  /\ \A w \in Worker : tailer[w].cursor <= lastSeq
  /\ \A c \in Client : /\ client[c].cursor <= lastSeq
                       /\ client[c].first = 0 <=> client[c].cursor = 0

\* What a tailer has fetched follows its cursor, in order, and leaves nothing out.
FetchIsSound(w) ==
  LET cursor  == tailer[w].cursor
      fetched == tailer[w].fetched
  IN  /\ Ascending(fetched)
      /\ \A k \in 1..Len(fetched) : fetched[k] \in published /\ cursor < fetched[k].seq
      /\ \A e \in Retained : \A k \in 1..Len(fetched) :
           cursor < e.seq /\ e.seq <= fetched[k].seq =>
             \E j \in 1..Len(fetched) : fetched[j] = e

\* A process that has ended serves nobody.
IsServed(c) ==
  conn[c].pc # "offline" => conn[c].worker \in Worker /\ Home(c).state # "down"

\* The same for a page of the replay, which starts at the client's cursor.
PageIsSound(c) ==
  LET page == conn[c].page
  IN  /\ conn[c].pc \in Replaying =>
           conn[c].skip = client[c].cursor /\ client[c].first # 0
      /\ conn[c].pc \in Sending =>
           /\ page # <<>>
           /\ \A j, k \in 1..Len(page) : j < k => page[j] < page[k]
           /\ \A k \in 1..Len(page) : client[c].cursor < page[k] /\ page[k] <= lastSeq
           /\ \A e \in Retained : \A k \in 1..Len(page) :
                Wants(c, e) /\ client[c].cursor < e.seq /\ e.seq <= page[k] =>
                  \E j \in 1..Len(page) : page[j] = e.seq

\* The queue has the order of the tailer and nothing it has not passed.
QueueIsOrdered(c) ==
  conn[c].pc \in Registered =>
    /\ \A k \in Slots(c) : 0 < Queue(c)[k] /\ Queue(c)[k] <= Home(c).cursor
    /\ \A j, k \in Slots(c) : j < k => Queue(c)[j] < Queue(c)[k]

\* Whatever is queued was sent by the replay or is still to be sent.  A cursor
\* beyond the tailer's comes from another worker, and the replay started there.
PumpIsSound(c) ==
  conn[c].pc \in Pumping =>
    /\ conn[c].skip <= client[c].cursor
    /\ client[c].cursor = conn[c].skip \/ client[c].cursor <= Home(c).cursor
    /\ \A k \in Slots(c) : Queue(c)[k] <= conn[c].skip \/ client[c].cursor < Queue(c)[k]

\* What c has still to be sent: all that follows its cursor, or, if it has none,
\* the first event in its queue.
IsDue(c, e) ==
  /\ Wants(c, e)
  /\ \/ client[c].first # 0 /\ client[c].cursor < e.seq
     \/ client[c].first = 0 /\ \E k \in Slots(c) : Queue(c)[k] <= e.seq

\* What the hub has offered: all that the tailer has passed, or, once the queue
\* has overflowed, all up to the last event that found room.
IsOffered(c, e) ==
  \/ ~conn[c].sub.overflowed /\ e.seq <= Home(c).cursor
  \/ \E k \in Slots(c) : e.seq <= Queue(c)[k]

IsWaiting(c, e) ==
  \/ \E k \in Slots(c) : Queue(c)[k] = e.seq
  \/ conn[c].pc = "sendingLast" /\ \E k \in 1..Len(conn[c].page) : conn[c].page[k] = e.seq

\* From the last page of the replay on, page and queue together have no gap.
NothingIsLost(c) ==
  conn[c].pc \in Pumping \cup {"sendingLast"} =>
    \A e \in Retained : IsDue(c, e) /\ IsOffered(c, e) => IsWaiting(c, e)

ConnIsSound(c) ==
  /\ IsServed(c)
  /\ PageIsSound(c)
  /\ QueueIsOrdered(c)
  /\ PumpIsSound(c)
  /\ NothingIsLost(c)

\* The two promises to a client.
ClientIsSound(c) ==
  /\ ~client[c].duplicate
  /\ \A e \in Retained : Passed(c, e) => e.seq \in client[c].processed

Inv ==
  /\ TypeOK
  /\ NumbersAreDrawn
  /\ \A w \in Worker : FetchIsSound(w)
  /\ \A c \in Client : ConnIsSound(c) /\ ClientIsSound(c)

(***************************************************************************)
(* Frames.                                                                 *)
(***************************************************************************)
\* The table only grows above lastSeq, and retention takes from it.
TableMoves ==
  /\ lastSeq <= lastSeq' /\ lastSeq' \in Nat
  /\ published' \subseteq Event
  /\ \A e \in Retained' : e \in Retained \/ lastSeq < e.seq

LEMMA TailerTypes ==
  ASSUME TypeOK, NEW w \in Worker
  PROVE  /\ tailer[w] \in Tailer /\ tailer[w].state \in {"running", "closing", "down"}
         /\ tailer[w].cursor \in Nat /\ tailer[w].fetched \in Seq(Event)
         /\ Len(tailer[w].fetched) \in Nat
         /\ \A k \in 1..Len(tailer[w].fetched) :
              tailer[w].fetched[k] \in Event /\ tailer[w].fetched[k].seq \in Nat \ {0}
<1>1. /\ tailer[w] \in Tailer /\ tailer[w].state \in {"running", "closing", "down"}
      /\ tailer[w].cursor \in Nat /\ tailer[w].fetched \in Seq(Event)
  BY DEF TypeOK, Tailer
<1>2. \A k \in 1..Len(tailer[w].fetched) : tailer[w].fetched[k] \in Event
  BY <1>1
<1> QED
  BY <1>1, <1>2 DEF Event

LEMMA FetchIsKept ==
  ASSUME TypeOK, NumbersAreDrawn, TableMoves, published \subseteq published',
         NEW w \in Worker, FetchIsSound(w), tailer'[w] = tailer[w]
  PROVE  FetchIsSound(w)'
<1>1. /\ tailer[w].cursor \in Nat /\ tailer[w].fetched \in Seq(Event)
      /\ Retained' \subseteq Event /\ lastSeq \in Nat
  BY DEF TypeOK, Tailer, TableMoves, Retained
<1>2. ASSUME NEW e \in Retained', NEW k \in 1..Len(tailer[w].fetched),
             tailer[w].cursor < e.seq, e.seq <= tailer[w].fetched[k].seq
      PROVE  \E j \in 1..Len(tailer[w].fetched) : tailer[w].fetched[j] = e
  <2>1. tailer[w].fetched[k].seq <= lastSeq
    BY DEF FetchIsSound, NumbersAreDrawn
  <2>2. tailer[w].fetched[k].seq \in Nat /\ e.seq \in Nat
    BY <1>1, TailerTypes DEF Event
  <2>3. e \in Retained
    BY <1>1, <1>2, <2>1, <2>2 DEF TableMoves
  <2> QED
    BY <1>2, <2>3 DEF FetchIsSound
<1> QED
  BY <1>2 DEF FetchIsSound, Ascending

LEMMA ConnTypes ==
  ASSUME TypeOK, NEW c \in Client
  PROVE  /\ conn[c] \in Connection
         /\ conn[c].pc \in PC /\ conn[c].skip \in Nat /\ conn[c].page \in Seq(Nat)
         /\ conn[c].worker \in Worker \cup {None}
         /\ conn[c].sub \in Subscriber /\ conn[c].sub.overflowed \in BOOLEAN
         /\ Queue(c) \in Seq(Nat \cup {Shutdown}) /\ Len(Queue(c)) \in Nat
         /\ \A k \in Slots(c) : Queue(c)[k] \in Nat
         /\ client[c] \in Memory
         /\ client[c].cursor \in Nat /\ client[c].first \in Nat
         /\ client[c].processed \in SUBSET (Nat \ {0}) /\ client[c].duplicate \in BOOLEAN
BY DEF TypeOK, Connection, Subscriber, Memory, Queue, Slots

LEMMA ConnIsKept ==
  ASSUME TypeOK, NumbersAreDrawn, TableMoves, NEW c \in Client, ConnIsSound(c),
         conn'[c] = conn[c], client'[c] = client[c],
         \A w \in Worker : conn[c].worker = w /\ conn[c].pc # "offline" =>
           /\ tailer'[w].state # "down"
           /\ conn[c].pc \in Registered => tailer'[w].cursor = tailer[w].cursor
  PROVE  ConnIsSound(c)'
<1>1. /\ lastSeq \in Nat /\ \A e \in Retained' : e.seq \in Nat
      /\ \A w \in Worker : tailer[w].cursor \in Nat
  BY DEF TypeOK, TableMoves, Retained, Event, Tailer
<1>2. /\ Queue(c)' = Queue(c) /\ Slots(c)' = Slots(c)
  BY DEF Queue, Slots
<1>3. IsServed(c)'
  BY DEF ConnIsSound, IsServed, Home
<1>4. PageIsSound(c)'
  <2>1. ASSUME conn[c].pc \in Sending, NEW e \in Retained', NEW k \in 1..Len(conn[c].page),
               e.seq <= conn[c].page[k]
        PROVE  e \in Retained
    <3>1. conn[c].page[k] \in Nat /\ conn[c].page[k] <= lastSeq
      BY <2>1, ConnTypes DEF ConnIsSound, PageIsSound
    <3> QED
      BY <1>1, <2>1, <3>1 DEF TableMoves
  <2>2. ASSUME conn[c].pc \in Sending, NEW k \in 1..Len(conn[c].page)
        PROVE  conn[c].page[k] <= lastSeq'
    <3>1. conn[c].page[k] \in Nat /\ conn[c].page[k] <= lastSeq
      BY <2>2, ConnTypes DEF ConnIsSound, PageIsSound
    <3> QED
      BY <1>1, <3>1 DEF TableMoves
  <2> QED
    BY <2>1, <2>2 DEF ConnIsSound, PageIsSound, Wants
<1>5. conn[c].pc \in Registered => Home(c).cursor' = Home(c).cursor /\ conn[c].worker \in Worker
  BY DEF ConnIsSound, IsServed, Home, Registered
<1>6. QueueIsOrdered(c)' /\ PumpIsSound(c)'
  BY <1>2, <1>5 DEF ConnIsSound, QueueIsOrdered, PumpIsSound, Registered, Pumping
<1>7. NothingIsLost(c)'
  <2> SUFFICES ASSUME conn[c].pc \in Pumping \cup {"sendingLast"},
                      NEW e \in Retained', IsDue(c, e)', IsOffered(c, e)'
               PROVE  IsWaiting(c, e)'
    BY DEF NothingIsLost
  <2>1. IsDue(c, e) /\ IsOffered(c, e)
    BY <1>2, <1>5 DEF IsDue, IsOffered, Wants, Pumping, Registered
  <2>2. e.seq <= Home(c).cursor
    <3>1. \A k \in Slots(c) : Queue(c)[k] <= Home(c).cursor /\ Queue(c)[k] \in Nat
      BY ConnTypes DEF ConnIsSound, QueueIsOrdered, Pumping, Registered
    <3>2. Home(c).cursor \in Nat /\ e.seq \in Nat
      BY <1>1, <1>5 DEF Home, Pumping, Registered
    <3> QED
      BY <2>1, <3>1, <3>2 DEF IsOffered
  <2>3. Home(c).cursor <= lastSeq /\ Home(c).cursor \in Nat
    BY <1>1, <1>5 DEF Home, Pumping, Registered, NumbersAreDrawn
  <2>4. e \in Retained
    BY <1>1, <2>2, <2>3 DEF TableMoves
  <2>5. IsWaiting(c, e)
    BY <2>1, <2>4 DEF ConnIsSound, NothingIsLost
  <2> QED
    BY <1>2, <2>5 DEF IsWaiting
<1> QED
  BY <1>3, <1>4, <1>6, <1>7 DEF ConnIsSound

LEMMA ClientIsKept ==
  ASSUME TypeOK, NumbersAreDrawn, TableMoves, NEW c \in Client, ClientIsSound(c),
         client'[c] = client[c]
  PROVE  ClientIsSound(c)'
<1>1. /\ lastSeq \in Nat /\ \A e \in Retained' : e.seq \in Nat
      /\ client[c].cursor \in Nat /\ client[c].cursor <= lastSeq
  BY DEF TypeOK, TableMoves, Retained, Event, NumbersAreDrawn, Memory
<1>2. \A e \in Retained' : Passed(c, e)' => Passed(c, e) /\ e \in Retained
  BY <1>1 DEF Passed, TableMoves, Wants
<1> QED
  BY <1>2 DEF ClientIsSound

(***************************************************************************)
(* A step of one connection leaves the others alone.                       *)
(***************************************************************************)
LEMMA OneConnection ==
  ASSUME Inv, NEW c \in Client,
         UNCHANGED <<lastSeq, published, trimmed, tailer>>, faults' \in 0..MaxFaults,
         conn' \in [Client -> Connection], Len(Queue(c)') <= QueueSize,
         \A d \in Client \ {c} : conn'[d] = conn[d],
         client' \in [Client -> Memory], \A d \in Client \ {c} : client'[d] = client[d],
         client'[c].cursor <= lastSeq, client'[c].first = 0 <=> client'[c].cursor = 0,
         ConnIsSound(c)', ClientIsSound(c)'
  PROVE  Inv'
<1>1. TypeOK'
  BY DEF Inv, TypeOK, Queue
<1>2. NumbersAreDrawn'
  BY DEF Inv, NumbersAreDrawn
<1>3. TableMoves
  BY DEF Inv, TypeOK, TableMoves, Retained
<1>4. \A w \in Worker : FetchIsSound(w)'
  BY <1>3, FetchIsKept DEF Inv
<1>5. ASSUME NEW d \in Client PROVE ConnIsSound(d)' /\ ClientIsSound(d)'
  <2>1. CASE d = c
    BY <2>1
  <2>2. CASE d # c
    <3>1. conn'[d] = conn[d] /\ client'[d] = client[d]
      BY <2>2
    <3>2. \A w \in Worker : conn[d].worker = w /\ conn[d].pc # "offline" =>
            tailer'[w].state # "down" /\ tailer'[w].cursor = tailer[w].cursor
      BY DEF Inv, ConnIsSound, IsServed, Home
    <3> QED
      BY <1>3, <3>1, <3>2, ConnIsKept, ClientIsKept DEF Inv
  <2> QED
    BY <2>1, <2>2
<1> QED
  BY <1>1, <1>2, <1>4, <1>5 DEF Inv

LEMMA OfflineType ==
  /\ Offline \in Connection /\ NewSubscriber \in Subscriber
  /\ Offline.pc = "offline" /\ Offline.worker = None /\ Offline.sub = NewSubscriber
  /\ Offline.skip = 0 /\ Offline.page = <<>>
  /\ NewSubscriber.queue = <<>> /\ NewSubscriber.overflowed = FALSE
BY DEF Offline, Connection, PC, NewSubscriber, Subscriber

\* Of a connection that is closed nothing is left.
LEMMA OfflineIsSound ==
  ASSUME NEW c \in Client, conn'[c].pc \in {"offline"}
  PROVE  ConnIsSound(c)'
BY DEF ConnIsSound, IsServed, PageIsSound, QueueIsOrdered, PumpIsSound, NothingIsLost,
       Replaying, Sending, Registered, Pumping

LEMMA CloseStep ==
  ASSUME Inv, NEW c \in Client, Close(c), client' = client \/ client' = [client EXCEPT ![c] = Fresh],
         UNCHANGED <<lastSeq, published, trimmed, tailer>>, faults' \in 0..MaxFaults
  PROVE  Inv'
<1>1. /\ conn' \in [Client -> Connection] /\ conn'[c] = Offline
      /\ \A d \in Client \ {c} : conn'[d] = conn[d]
  BY OfflineType DEF Inv, TypeOK, Close
<1>2. ConnIsSound(c)' /\ Len(Queue(c)') <= QueueSize
  BY <1>1, OfflineType, OfflineIsSound DEF Queue
<1>3. /\ client' \in [Client -> Memory] /\ \A d \in Client \ {c} : client'[d] = client[d]
      /\ client'[c].cursor <= lastSeq /\ (client'[c].first = 0 <=> client'[c].cursor = 0)
      /\ ClientIsSound(c)'
  <2>1. CASE client' = client
    <3>1. TableMoves
      BY DEF Inv, TypeOK, TableMoves, Retained
    <3> QED
      BY <2>1, <3>1, ClientIsKept DEF Inv, TypeOK, NumbersAreDrawn
  <2>2. CASE client' = [client EXCEPT ![c] = Fresh]
    <3>1. Fresh \in Memory /\ Fresh.cursor = 0 /\ Fresh.first = 0 /\ Fresh.duplicate = FALSE
      BY DEF Fresh, Memory
    <3>2. client' \in [Client -> Memory] /\ client'[c] = Fresh
          /\ \A d \in Client \ {c} : client'[d] = client[d]
      BY <2>2, <3>1 DEF Inv, TypeOK
    <3>3. ClientIsSound(c)'
      BY <3>1, <3>2 DEF ClientIsSound, Passed
    <3> QED
      BY <3>1, <3>2, <3>3 DEF Inv, TypeOK
  <2> QED
    BY <2>1, <2>2
<1> QED
  BY <1>1, <1>2, <1>3, OneConnection

(***************************************************************************)
(* The steps of an endpoint before it pumps.                               *)
(***************************************************************************)
\* Updates of one field of a record, of one entry of a function.
LEMMA PcUpdated ==
  ASSUME NEW r \in Connection, NEW p \in PC
  PROVE  /\ [r EXCEPT !.pc = p] \in Connection
         /\ [r EXCEPT !.pc = p].pc = p /\ [r EXCEPT !.pc = p].worker = r.worker
         /\ [r EXCEPT !.pc = p].sub = r.sub /\ [r EXCEPT !.pc = p].skip = r.skip
         /\ [r EXCEPT !.pc = p].page = r.page
BY DEF Connection

LEMMA SubUpdated ==
  ASSUME NEW r \in Connection, NEW s \in Subscriber
  PROVE  /\ [r EXCEPT !.sub = s] \in Connection
         /\ [r EXCEPT !.sub = s].pc = r.pc /\ [r EXCEPT !.sub = s].worker = r.worker
         /\ [r EXCEPT !.sub = s].sub = s /\ [r EXCEPT !.sub = s].skip = r.skip
         /\ [r EXCEPT !.sub = s].page = r.page
BY DEF Connection

LEMMA TailerUpdated ==
  ASSUME tailer \in [Worker -> Tailer], NEW w \in Worker, NEW r \in Tailer,
         tailer' = [tailer EXCEPT ![w] = r]
  PROVE  /\ tailer' \in [Worker -> Tailer] /\ tailer'[w] = r
         /\ \A v \in Worker \ {w} : tailer'[v] = tailer[v]
OBVIOUS

LEMMA ConnUpdated ==
  ASSUME conn \in [Client -> Connection], NEW c \in Client, NEW r \in Connection,
         conn' = [conn EXCEPT ![c] = r]
  PROVE  /\ conn' \in [Client -> Connection] /\ conn'[c] = r
         /\ \A d \in Client \ {c} : conn'[d] = conn[d]
OBVIOUS

\* The client's memory does not change.
LEMMA QuietStep ==
  ASSUME Inv, NEW c \in Client, UNCHANGED <<lastSeq, published, trimmed, tailer, client, faults>>,
         conn' \in [Client -> Connection], Len(Queue(c)') <= QueueSize,
         \A d \in Client \ {c} : conn'[d] = conn[d], ConnIsSound(c)'
  PROVE  Inv'
<1>1. TableMoves
  BY DEF Inv, TypeOK, TableMoves, Retained
<1>2. ClientIsSound(c)'
  BY <1>1, ClientIsKept DEF Inv
<1>3. /\ client'[c].cursor <= lastSeq /\ (client'[c].first = 0 <=> client'[c].cursor = 0)
      /\ client' \in [Client -> Memory] /\ faults' \in 0..MaxFaults
      /\ \A d \in Client \ {c} : client'[d] = client[d]
  BY DEF Inv, NumbersAreDrawn, TypeOK
<1> QED
  BY <1>2, <1>3, OneConnection

LEMMA ClientConnectStep ==
  ASSUME Inv, NEW c \in Client, NEW w \in Worker, ClientConnect(c, w)
  PROVE  Inv'
<1>1. /\ conn' \in [Client -> Connection] /\ \A d \in Client \ {c} : conn'[d] = conn[d]
      /\ conn'[c].pc = "accepted" /\ conn'[c].worker = w /\ conn'[c].sub = NewSubscriber
  BY OfflineType DEF ClientConnect, Inv, TypeOK, Connection, PC
<1>2. Len(Queue(c)') <= QueueSize
  BY <1>1, OfflineType DEF Queue
<1>3. ConnIsSound(c)'
  <2>1. tailer'[w].state # "down"
    BY DEF ClientConnect
  <2> QED
    BY <1>1, <2>1 DEF ConnIsSound, IsServed, Home, PageIsSound, QueueIsOrdered, PumpIsSound,
                      NothingIsLost, Replaying, Sending, Registered, Pumping
<1> QED
  BY <1>1, <1>2, <1>3, QuietStep DEF ClientConnect

LEMMA CheckOldestStep ==
  ASSUME Inv, NEW c \in Client, CheckOldest(c)
  PROVE  Inv'
<1>1. /\ conn' \in [Client -> Connection] /\ \A d \in Client \ {c} : conn'[d] = conn[d]
      /\ conn'[c].pc = "checked" /\ conn'[c].worker = conn[c].worker
      /\ conn'[c].sub = conn[c].sub
  <2> DEFINE u == [conn[c] EXCEPT !.pc = "checked"]
  <2>1. conn \in [Client -> Connection] /\ "checked" \in PC /\ conn[c] \in Connection
    BY DEF Inv, TypeOK, PC
  <2>2. u \in Connection /\ u.pc = "checked" /\ u.worker = conn[c].worker /\ u.sub = conn[c].sub
    BY <2>1, PcUpdated
  <2>3. conn' = [conn EXCEPT ![c] = u]
    BY DEF CheckOldest
  <2> HIDE DEF u
  <2> QED
    BY <2>1, <2>2, <2>3, ConnUpdated
<1>2. Len(Queue(c)') <= QueueSize
  BY <1>1 DEF Queue, Inv, TypeOK
<1>3. ConnIsSound(c)'
  <2>1. IsServed(c)'
    BY <1>1 DEF CheckOldest, Inv, ConnIsSound, IsServed, Home
  <2> QED
    BY <1>1, <2>1 DEF ConnIsSound, PageIsSound, QueueIsOrdered, PumpIsSound,
                      NothingIsLost, Replaying, Sending, Registered, Pumping
<1> QED
  BY <1>1, <1>2, <1>3, QuietStep DEF CheckOldest

LEMMA SubscribeStep ==
  ASSUME Inv, NEW c \in Client, Subscribe(c)
  PROVE  Inv'
<1>1. client[c].cursor \in Nat /\ conn[c] \in Connection
  BY ConnTypes DEF Inv
<1>2. /\ conn' \in [Client -> Connection] /\ \A d \in Client \ {c} : conn'[d] = conn[d]
      /\ conn'[c].pc = IF client[c].cursor > 0 THEN "replaying" ELSE "pumping"
      /\ conn'[c].worker = conn[c].worker /\ conn'[c].sub = NewSubscriber
      /\ conn'[c].skip = client[c].cursor
  BY <1>1, OfflineType DEF Subscribe, Inv, TypeOK, Connection, PC
<1>3. Queue(c)' = <<>> /\ Slots(c)' = {} /\ Len(Queue(c)') <= QueueSize
  BY <1>2, OfflineType DEF Queue, Slots
<1>4. UNCHANGED <<client, tailer>>
  BY DEF Subscribe
<1>5. client[c].first = 0 <=> client[c].cursor = 0
  BY DEF Inv, NumbersAreDrawn
<1>6. IsServed(c)'
  BY <1>2, <1>4 DEF Subscribe, Inv, ConnIsSound, IsServed, Home
<1>7. PageIsSound(c)'
  BY <1>1, <1>2, <1>4, <1>5 DEF PageIsSound, Replaying, Sending
<1>8. QueueIsOrdered(c)' /\ PumpIsSound(c)'
  BY <1>1, <1>2, <1>3, <1>4 DEF QueueIsOrdered, PumpIsSound
<1>9. NothingIsLost(c)'
  BY <1>1, <1>2, <1>3, <1>4, <1>5 DEF NothingIsLost, Pumping, IsDue
<1>10. ConnIsSound(c)'
  BY <1>6, <1>7, <1>8, <1>9 DEF ConnIsSound
<1> QED
  BY <1>2, <1>3, <1>10, QuietStep DEF Subscribe

\* The top of the pump and a heartbeat.
LEMMA PumpLoopStep ==
  ASSUME Inv, NEW c \in Client, NEW next \in Pumping, conn[c].pc \in Pumping,
         conn' = [conn EXCEPT ![c].pc = next],
         UNCHANGED <<lastSeq, published, trimmed, tailer, client, faults>>
  PROVE  Inv'
<1>1. /\ conn' \in [Client -> Connection] /\ \A d \in Client \ {c} : conn'[d] = conn[d]
      /\ conn'[c].pc = next /\ conn'[c].worker = conn[c].worker
      /\ conn'[c].sub = conn[c].sub /\ conn'[c].skip = conn[c].skip
  <2> DEFINE u == [conn[c] EXCEPT !.pc = next]
  <2>1. conn \in [Client -> Connection] /\ next \in PC /\ conn[c] \in Connection
    BY DEF Inv, TypeOK, PC, Pumping
  <2>2. /\ u \in Connection /\ u.pc = next /\ u.worker = conn[c].worker /\ u.sub = conn[c].sub
        /\ u.skip = conn[c].skip
    BY <2>1, PcUpdated
  <2>3. conn' = [conn EXCEPT ![c] = u]
    OBVIOUS
  <2> HIDE DEF u
  <2> QED
    BY <2>1, <2>2, <2>3, ConnUpdated
<1>2. Queue(c)' = Queue(c) /\ Slots(c)' = Slots(c) /\ Home(c)' = Home(c)
  BY <1>1 DEF Queue, Slots, Home
<1>3. ConnIsSound(c)
  BY DEF Inv
<1>4. UNCHANGED Retained
  BY DEF Retained
<1>5. IsServed(c)' /\ PageIsSound(c)'
  BY <1>1, <1>2, <1>3 DEF ConnIsSound, IsServed, PageIsSound, Pumping, Replaying, Sending
<1>6. QueueIsOrdered(c)' /\ PumpIsSound(c)'
  BY <1>1, <1>2, <1>3 DEF ConnIsSound, QueueIsOrdered, PumpIsSound, Registered, Pumping
<1>7. NothingIsLost(c)'
  BY <1>1, <1>2, <1>3, <1>4
     DEF ConnIsSound, NothingIsLost, Pumping, IsDue, IsOffered, IsWaiting, Wants
<1>8. Len(Queue(c)') <= QueueSize
  BY <1>2 DEF Inv, TypeOK, Queue
<1> QED
  BY <1>1, <1>5, <1>6, <1>7, <1>8, QuietStep DEF ConnIsSound

(***************************************************************************)
(* Sequences.                                                              *)
(***************************************************************************)
LEMMA TailFacts ==
  ASSUME NEW S, NEW q \in Seq(S), q # <<>>
  PROVE  /\ Len(q) \in Nat \ {0} /\ 1 \in 1..Len(q) /\ Head(q) = q[1] /\ q[1] \in S
         /\ Tail(q) \in Seq(S) /\ Len(Tail(q)) = Len(q) - 1
         /\ \A k \in 1..Len(q) - 1 : Tail(q)[k] = q[k + 1]
         /\ \A k \in 2..Len(q) : k - 1 \in 1..Len(q) - 1 /\ Tail(q)[k - 1] = q[k]
<1>1. Len(q) \in Nat \ {0} /\ Head(q) = q[1] /\ Tail(q) \in Seq(S) /\ Len(Tail(q)) = Len(q) - 1
  OBVIOUS
<1>2. \A k \in 1..Len(q) - 1 : Tail(q)[k] = q[k + 1]
  OBVIOUS
<1>3. 1 \in 1..Len(q) /\ q[1] \in S
  BY <1>1
<1>4. ASSUME NEW k \in 2..Len(q)
      PROVE  k - 1 \in 1..Len(q) - 1 /\ Tail(q)[k - 1] = q[k]
  <2>1. k - 1 \in 1..Len(q) - 1 /\ (k - 1) + 1 = k
    BY <1>1
  <2> QED
    BY <1>2, <2>1
<1> QED
  BY <1>1, <1>2, <1>3, <1>4

LEMMA ConcatFacts ==
  ASSUME NEW S, NEW p \in Seq(S), NEW q \in Seq(S)
  PROVE  /\ p \o q \in Seq(S) /\ Len(p \o q) = Len(p) + Len(q)
         /\ \A k \in 1..Len(p) : (p \o q)[k] = p[k]
         /\ \A k \in 1..Len(q) : (p \o q)[Len(p) + k] = q[k]
<1>1. /\ p \o q \in Seq(S) /\ Len(p \o q) = Len(p) + Len(q)
      /\ \A k \in 1..Len(p) + Len(q) :
           (p \o q)[k] = IF k <= Len(p) THEN p[k] ELSE q[k - Len(p)]
  BY ConcatProperties
<1>2. Len(p) \in Nat /\ Len(q) \in Nat
  OBVIOUS
<1>3. ASSUME NEW k \in 1..Len(p) PROVE (p \o q)[k] = p[k]
  <2>1. k \in 1..Len(p) + Len(q) /\ k <= Len(p)
    BY <1>2
  <2> QED
    BY <1>1, <2>1
<1>4. ASSUME NEW k \in 1..Len(q) PROVE (p \o q)[Len(p) + k] = q[k]
  <2>1. /\ Len(p) + k \in 1..Len(p) + Len(q) /\ ~(Len(p) + k <= Len(p))
        /\ (Len(p) + k) - Len(p) = k
    BY <1>2
  <2> QED
    BY <1>1, <2>1
<1> QED
  BY <1>1, <1>3, <1>4

LEMMA PrefixFacts ==
  ASSUME NEW S, NEW q \in Seq(S), NEW n \in 0..Len(q)
  PROVE  /\ SubSeq(q, 1, n) \in Seq(S) /\ Len(SubSeq(q, 1, n)) = n
         /\ \A k \in 1..n : SubSeq(q, 1, n)[k] = q[k]
<1>1. Len(q) \in Nat /\ n \in Nat /\ n <= Len(q)
  OBVIOUS
<1>2. \A k \in 1..n : q[k] \in S
  BY <1>1
<1>3. /\ SubSeq(q, 1, n) \in Seq(S)
      /\ Len(SubSeq(q, 1, n)) = IF 1 <= n THEN n - 1 + 1 ELSE 0
      /\ \A k \in 1..n - 1 + 1 : SubSeq(q, 1, n)[k] = q[1 + k - 1]
  BY <1>1, <1>2, SubSeqProperties
<1>4. \A k \in 1..n : SubSeq(q, 1, n)[k] = q[k]
  <2>1. \A k \in 1..n : k \in 1..n - 1 + 1 /\ 1 + k - 1 = k
    BY <1>1
  <2> QED
    BY <1>3, <2>1
<1> QED
  BY <1>1, <1>3, <1>4

LEMMA UpToType ==
  ASSUME NEW S, NEW n \in Nat, NEW list \in UpTo(n, S)
  PROVE  list \in Seq(S) /\ Len(list) \in 0..n
<1>1. PICK k \in 0..n : list \in [1..k -> S]
  BY DEF UpTo
<1>2. k \in Nat
  OBVIOUS
<1> QED
  BY <1>1, <1>2

LEMMA SeqsType ==
  ASSUME NEW page \in Seq(Event)
  PROVE  /\ Seqs(page) \in Seq(Nat) /\ Len(Seqs(page)) = Len(page)
         /\ \A k \in 1..Len(page) : Seqs(page)[k] = page[k].seq /\ page[k].seq \in Nat \ {0}
<1>1. Len(page) \in Nat /\ \A k \in 1..Len(page) : page[k] \in Event
  OBVIOUS
<1>2. \A k \in 1..Len(page) : page[k].seq \in Nat \ {0}
  BY <1>1 DEF Event
<1>3. Seqs(page) \in [1..Len(page) -> Nat]
  BY <1>2 DEF Seqs
<1>4. Seqs(page) \in Seq(Nat) /\ Len(Seqs(page)) = Len(page)
  BY <1>1, <1>3
<1> QED
  BY <1>2, <1>4 DEF Seqs

\* A gap is only after the last row of a page that is full.
HasNoGap(page, rows, after, limit) ==
  /\ \A e \in rows : after < e.seq /\ Len(page) < limit =>
       \E j \in 1..Len(page) : page[j] = e
  /\ \A e \in rows : \A k \in 1..Len(page) :
       after < e.seq /\ e.seq <= page[k].seq => \E j \in 1..Len(page) : page[j] = e

\* What a query with LIMIT returns.
LEMMA PageFacts ==
  ASSUME NEW rows \in SUBSET Event, NEW after \in Nat, NEW limit \in Nat,
         NEW page \in Pages(rows, after, limit)
  PROVE  /\ page \in Seq(Event) /\ Len(page) \in 0..limit /\ Ascending(page)
         /\ \A k \in 1..Len(page) : page[k] \in rows /\ after < page[k].seq
         /\ HasNoGap(page, rows, after, limit)
<1>1. page \in Seq(rows) /\ Len(page) \in 0..limit /\ IsPage(page, rows, after, limit)
  BY UpToType DEF Pages
<1>2. page \in Seq(Event)
  BY <1>1
<1>3. \A e \in rows : e.seq \in Nat
  BY DEF Event
<1>4. \A k \in 1..Len(page) : page[k] \in rows /\ after < page[k].seq
  BY <1>1, <1>3 DEF IsPage
<1>5. ASSUME NEW e \in rows, after < e.seq, \A j \in 1..Len(page) : page[j] # e
      PROVE  Len(page) = limit /\ \A k \in 1..limit : page[k].seq < e.seq
  BY <1>1, <1>3, <1>5 DEF IsPage
<1>6. \A e \in rows : after < e.seq /\ Len(page) < limit => \E j \in 1..Len(page) : page[j] = e
  BY <1>1, <1>5
<1>7. \A e \in rows : \A k \in 1..Len(page) :
        after < e.seq /\ e.seq <= page[k].seq => \E j \in 1..Len(page) : page[j] = e
  BY <1>3, <1>4, <1>5
<1> QED
  BY <1>1, <1>2, <1>4, <1>6, <1>7 DEF IsPage, HasNoGap

(***************************************************************************)
(* The replay.                                                             *)
(***************************************************************************)
LEMMA ReplayFetchStep ==
  ASSUME Inv, NEW c \in Client, ReplayFetch(c)
  PROVE  Inv'
<1> DEFINE wanted == {e \in Retained : Wants(c, e)}
<1>1. PICK page \in Pages(wanted, conn[c].skip, PageSize) :
        conn' = [conn EXCEPT ![c].pc = AfterPage(page), ![c].page = Seqs(page)]
  BY DEF ReplayFetch
<1>2. /\ wanted \in SUBSET Event /\ \A e \in wanted : e.seq <= lastSeq
      /\ conn[c].skip \in Nat /\ conn[c].skip = client[c].cursor /\ client[c].first # 0
  BY ConnTypes DEF Inv, TypeOK, Retained, NumbersAreDrawn, ReplayFetch, ConnIsSound,
                   PageIsSound, Replaying
<1> HIDE DEF wanted
<1>3. /\ page \in Seq(Event) /\ Len(page) \in Nat /\ Ascending(page)
      /\ \A k \in 1..Len(page) : page[k] \in wanted /\ conn[c].skip < page[k].seq
      /\ HasNoGap(page, wanted, conn[c].skip, PageSize)
  <2>1. PageSize \in Nat /\ page \in Pages(wanted, conn[c].skip, PageSize)
    OBVIOUS
  <2>2. page \in Seq(Event) /\ Ascending(page)
    BY <1>2, <2>1, PageFacts
  <2>3. \A k \in 1..Len(page) : page[k] \in wanted /\ conn[c].skip < page[k].seq
    BY <1>2, <2>1, PageFacts
  <2>4. HasNoGap(page, wanted, conn[c].skip, PageSize)
    BY <1>2, <2>1, PageFacts
  <2> QED
    BY <2>2, <2>3, <2>4
<1>4. /\ Seqs(page) \in Seq(Nat) /\ Len(Seqs(page)) = Len(page)
      /\ \A k \in 1..Len(page) : Seqs(page)[k] = page[k].seq
  BY <1>3, SeqsType
<1>5. /\ conn' \in [Client -> Connection] /\ \A d \in Client \ {c} : conn'[d] = conn[d]
      /\ conn'[c].pc = AfterPage(page) /\ conn'[c].worker = conn[c].worker
      /\ conn'[c].sub = conn[c].sub /\ conn'[c].skip = conn[c].skip
      /\ conn'[c].page = Seqs(page)
  <2>1. AfterPage(page) \in PC
    BY DEF AfterPage, PC
  <2> QED
    <3> DEFINE u == [conn[c] EXCEPT !.pc = AfterPage(page), !.page = Seqs(page)]
    <3>1. conn \in [Client -> Connection] /\ conn[c] \in Connection
      BY DEF Inv, TypeOK
    <3>2. /\ u \in Connection /\ u.pc = AfterPage(page) /\ u.worker = conn[c].worker
          /\ u.sub = conn[c].sub /\ u.skip = conn[c].skip /\ u.page = Seqs(page)
      BY <1>4, <2>1, <3>1 DEF Connection
    <3>3. conn' = [conn EXCEPT ![c] = u]
      BY <1>1
    <3> HIDE DEF u
    <3> QED
      BY <3>1, <3>2, <3>3, ConnUpdated
<1>6. /\ Queue(c)' = Queue(c) /\ Slots(c)' = Slots(c) /\ Home(c)' = Home(c)
      /\ UNCHANGED <<Retained, client, lastSeq>> /\ conn[c].pc = "replaying" /\ ConnIsSound(c)
  BY <1>5 DEF Queue, Slots, Home, ReplayFetch, Retained, Inv
<1>7. IsServed(c)' /\ QueueIsOrdered(c)'
  BY <1>5, <1>6 DEF ConnIsSound, IsServed, QueueIsOrdered, Registered
<1>8. PageIsSound(c)'
  <2>1. ASSUME Len(page) # 0 PROVE Seqs(page) # <<>>
    BY <1>4, <2>1
  <2>2. \A j, k \in 1..Len(page) : j < k => Seqs(page)[j] < Seqs(page)[k]
    BY <1>3, <1>4 DEF Ascending
  <2>3. \A k \in 1..Len(page) : client[c].cursor < Seqs(page)[k] /\ Seqs(page)[k] <= lastSeq
    BY <1>2, <1>3, <1>4
  <2>4. ASSUME NEW e \in Retained, NEW k \in 1..Len(page), Wants(c, e),
               client[c].cursor < e.seq, e.seq <= Seqs(page)[k]
        PROVE  \E j \in 1..Len(page) : Seqs(page)[j] = e.seq
    <3>1. e \in wanted
      BY <2>4 DEF wanted
    <3>2. \E j \in 1..Len(page) : page[j] = e
      BY <1>2, <1>3, <1>4, <2>4, <3>1 DEF HasNoGap
    <3> QED
      BY <1>4, <3>2
  <2>5. conn'[c].skip = client'[c].cursor /\ client'[c].first # 0
    BY <1>5, <1>6 DEF ConnIsSound, PageIsSound, Replaying
  <2>6. AfterPage(page) \in Sending => Len(page) # 0
    BY DEF AfterPage, Sending
  <2>7. \A e \in Retained' : \A k \in 1..Len(page) :
          Wants(c, e)' /\ client'[c].cursor < e.seq /\ e.seq <= Seqs(page)[k] =>
            \E j \in 1..Len(page) : Seqs(page)[j] = e.seq
    BY <1>6, <2>4 DEF Wants
  <2> HIDE DEF wanted
  <2> QED
    <3>1. /\ conn'[c].page = Seqs(page) /\ client'[c].cursor = client[c].cursor
          /\ lastSeq' = lastSeq /\ Len(Seqs(page)) = Len(page)
          /\ conn'[c].pc \in Sending => Seqs(page) # <<>>
      BY <1>4, <1>5, <1>6, <2>1, <2>6
    <3> QED
      BY <2>2, <2>3, <2>5, <2>7, <3>1 DEF PageIsSound
<1>9. PumpIsSound(c)'
  <2>1. \A k \in Slots(c) : Queue(c)[k] \in Nat
    BY ConnTypes DEF Inv
  <2> QED
    BY <1>2, <1>5, <1>6, <2>1 DEF PumpIsSound
<1>10. NothingIsLost(c)'
  <2> SUFFICES ASSUME AfterPage(page) \in Pumping \cup {"sendingLast"},
                      NEW e \in Retained, IsDue(c, e)'
               PROVE  IsWaiting(c, e)'
    BY <1>5, <1>6 DEF NothingIsLost
  <2>1. e \in wanted /\ conn[c].skip < e.seq
    BY <1>2, <1>6 DEF IsDue, wanted, Wants
  <2>2. Len(page) < PageSize
    BY <1>3 DEF AfterPage, Pumping
  <2>3. PICK j \in 1..Len(page) : page[j] = e
    BY <1>3, <2>1, <2>2 DEF HasNoGap
  <2>4. AfterPage(page) = "sendingLast"
    BY <1>3, <2>2, <2>3 DEF AfterPage
  <2> QED
    BY <1>4, <1>5, <2>3, <2>4 DEF IsWaiting
<1>11. Len(Queue(c)') <= QueueSize
  BY <1>6 DEF Inv, TypeOK, Queue
<1> QED
  BY <1>5, <1>7, <1>8, <1>9, <1>10, <1>11, QuietStep DEF ConnIsSound, ReplayFetch

(***************************************************************************)
(* What the client receives.                                               *)
(***************************************************************************)
\* A client that receives the next of the events it waits for skips nothing.
LEMMA ReceiveFacts ==
  ASSUME Inv, NEW c \in Client, NEW seq \in Nat, client[c].cursor < seq, seq <= lastSeq,
         Receive(c, seq), UNCHANGED <<lastSeq, published, trimmed>>,
         \A e \in Retained :
           Wants(c, e) /\ client[c].first # 0 /\ client[c].cursor < e.seq => seq <= e.seq
  PROVE  /\ client' \in [Client -> Memory] /\ \A d \in Client \ {c} : client'[d] = client[d]
         /\ client'[c].cursor = seq /\ client'[c].first # 0
         /\ client[c].first # 0 => client'[c].first = client[c].first
         /\ ClientIsSound(c)'
<1>1. /\ client[c] \in Memory /\ client[c].cursor \in Nat /\ client[c].first \in Nat
      /\ client[c].processed \in SUBSET (Nat \ {0}) /\ client[c].duplicate \in BOOLEAN
  BY ConnTypes DEF Inv
<1>2. seq \in Nat \ {0} /\ ~(seq <= client[c].cursor)
  BY <1>1
<1> DEFINE m == [cursor    |-> seq,
                 first     |-> IF client[c].first = 0 THEN seq ELSE client[c].first,
                 processed |-> client[c].processed \cup {seq},
                 duplicate |-> client[c].duplicate]
<1>3. m \in Memory
  BY <1>1, <1>2 DEF Memory
<1>4. Processed(client[c], seq) = m
  BY <1>2 DEF Processed
<1>5. client' = [client EXCEPT ![c] = m] /\ client \in [Client -> Memory]
  BY <1>4 DEF Receive, Inv, TypeOK
<1>6. client' \in [Client -> Memory] /\ client'[c] = m
      /\ \A d \in Client \ {c} : client'[d] = client[d]
  BY <1>3, <1>5
<1>7. ASSUME NEW e \in Retained, Passed(c, e)' PROVE e.seq \in client'[c].processed
  <2>1. Wants(c, e) /\ client'[c].first <= e.seq /\ e.seq <= seq /\ e.seq \in Nat
    BY <1>6, <1>7 DEF Passed, Wants, Retained, Inv, TypeOK, Event
  <2>2. CASE client[c].first = 0
    BY <1>6, <2>1, <2>2
  <2>3. CASE client[c].first # 0 /\ e.seq <= client[c].cursor
    <3>1. Passed(c, e)
      BY <1>6, <2>1, <2>3 DEF Passed
    <3>2. e.seq \in client[c].processed
      BY <3>1 DEF Inv, ClientIsSound
    <3> QED
      BY <1>6, <3>2
  <2>4. CASE client[c].first # 0 /\ ~(e.seq <= client[c].cursor)
    <3>1. seq <= e.seq
      BY <1>1, <2>1, <2>4
    <3> QED
      BY <1>6, <2>1, <3>1
  <2> QED
    BY <2>2, <2>3, <2>4
<1>8. ClientIsSound(c)'
  <2>1. ~client[c].duplicate /\ UNCHANGED Retained
    BY DEF Inv, ClientIsSound, Retained
  <2> QED
    BY <1>6, <1>7, <2>1 DEF ClientIsSound
<1> QED
  BY <1>1, <1>2, <1>6, <1>8

LEMMA ReplaySendStep ==
  ASSUME Inv, NEW c \in Client, ReplaySend(c)
  PROVE  Inv'
<1> DEFINE page == conn[c].page
           head == page[1]
<1>1. /\ conn[c].pc \in Sending /\ ConnIsSound(c)
      /\ conn[c].skip = client[c].cursor /\ client[c].first # 0 /\ client[c].cursor \in Nat
      /\ page \in Seq(Nat) /\ page # <<>>
      /\ UNCHANGED <<lastSeq, published, trimmed, tailer, faults, Retained>>
  BY ConnTypes DEF Inv, ReplaySend, ConnIsSound, PageIsSound, Replaying, Sending, Retained
<1>2. /\ Len(page) \in Nat \ {0} /\ 1 \in 1..Len(page) /\ Head(page) = head /\ head \in Nat
      /\ Tail(page) \in Seq(Nat) /\ Len(Tail(page)) = Len(page) - 1
      /\ \A k \in 1..Len(page) - 1 : Tail(page)[k] = page[k + 1]
      /\ \A k \in 2..Len(page) : k - 1 \in 1..Len(page) - 1 /\ Tail(page)[k - 1] = page[k]
  BY <1>1, TailFacts
<1>3. /\ \A j, k \in 1..Len(page) : j < k => page[j] < page[k]
      /\ \A k \in 1..Len(page) : client[c].cursor < page[k] /\ page[k] <= lastSeq
      /\ \A e \in Retained : \A k \in 1..Len(page) :
           Wants(c, e) /\ client[c].cursor < e.seq /\ e.seq <= page[k] =>
             \E j \in 1..Len(page) : page[j] = e.seq
  BY <1>1 DEF ConnIsSound, PageIsSound, Sending
<1>4. \A e \in Retained : e.seq \in Nat
  BY DEF Inv, TypeOK, Retained, Event
<1>5. /\ conn' \in [Client -> Connection] /\ \A d \in Client \ {c} : conn'[d] = conn[d]
      /\ conn'[c].pc = AfterSend(c) /\ conn'[c].worker = conn[c].worker
      /\ conn'[c].sub = conn[c].sub /\ conn'[c].skip = head /\ conn'[c].page = Tail(page)
  <2>1. AfterSend(c) \in PC
    BY ConnTypes DEF AfterSend, PC, Inv
  <2>2. conn' = [conn EXCEPT ![c].skip = head, ![c].page = Tail(page), ![c].pc = AfterSend(c)]
    BY <1>2 DEF ReplaySend
  <2>3. conn \in [Client -> Connection] /\ head \in Nat /\ Tail(page) \in Seq(Nat)
    BY <1>2 DEF Inv, TypeOK
  <2> HIDE DEF page, head
  <2> QED
    BY <2>1, <2>2, <2>3 DEF Connection
<1>6. /\ Queue(c)' = Queue(c) /\ Slots(c)' = Slots(c) /\ Home(c)' = Home(c)
  BY <1>1, <1>5 DEF Queue, Slots, Home
<1>7. ASSUME NEW e \in Retained, Wants(c, e), client[c].cursor < e.seq
      PROVE  head <= e.seq
  <2> SUFFICES ASSUME e.seq < head PROVE FALSE
    BY <1>2, <1>4
  <2>1. PICK j \in 1..Len(page) : page[j] = e.seq
    BY <1>2, <1>3, <1>4, <1>7
  <2>2. page[1] = head /\ (j = 1 \/ 1 < j)
    BY <1>2
  <2>3. 1 < j => page[1] < page[j]
    BY <1>2, <1>3
  <2>4. head \in Nat /\ e.seq \in Nat
    BY <1>2, <1>4
  <2> HIDE DEF head, page
  <2> QED
    BY <2>1, <2>2, <2>3, <2>4
<1>8. /\ client' \in [Client -> Memory] /\ \A d \in Client \ {c} : client'[d] = client[d]
      /\ client'[c].cursor = head /\ client'[c].first # 0 /\ ClientIsSound(c)'
  <2>1. Receive(c, head) /\ client[c].cursor < head /\ head <= lastSeq
    BY <1>2, <1>3 DEF ReplaySend
  <2> HIDE DEF head
  <2> QED
    BY <1>1, <1>2, <1>7, <2>1, ReceiveFacts
<1> HIDE DEF page, head
<1>9. /\ AfterSend(c) \in Sending => Len(page) > 1 /\ AfterSend(c) = conn[c].pc
      /\ AfterSend(c) \in Pumping \cup {"sendingLast"} => conn[c].pc = "sendingLast"
      /\ Len(page) > 1 => AfterSend(c) = conn[c].pc
      /\ AfterSend(c) \in Registered
  BY <1>1 DEF AfterSend, Sending, Pumping, Registered, page
<1>10. \A k \in 2..Len(page) : head < page[k]
  BY <1>2, <1>3 DEF head
<1>11. IsServed(c)' /\ QueueIsOrdered(c)'
  BY <1>1, <1>5, <1>6 DEF ConnIsSound, IsServed, QueueIsOrdered, Registered, Sending
<1>12. PageIsSound(c)'
  <2>1. ASSUME Len(page) > 1 PROVE Tail(page) # <<>>
    <3>1. Len(Tail(page)) # 0
      BY <1>2, <2>1
    <3>2. Len(<<>>) = 0
      OBVIOUS
    <3> QED
      BY <3>1, <3>2, Zenon
  <2>2. \A j, k \in 1..Len(Tail(page)) : j < k => Tail(page)[j] < Tail(page)[k]
    BY <1>2, <1>3, SMTT(30)
  <2>3. \A k \in 1..Len(Tail(page)) : head < Tail(page)[k] /\ Tail(page)[k] <= lastSeq
    BY <1>2, <1>3, <1>10
  <2>4. ASSUME NEW e \in Retained, NEW k \in 1..Len(Tail(page)), Wants(c, e), head < e.seq,
               e.seq <= Tail(page)[k]
        PROVE  \E j \in 1..Len(Tail(page)) : Tail(page)[j] = e.seq
    <3>1. k + 1 \in 1..Len(page) /\ e.seq <= page[k + 1]
      BY <1>2, <2>4
    <3>2. client[c].cursor < e.seq
      BY <1>1, <1>2, <1>3, <1>4, <2>4 DEF head
    <3>3. PICK j \in 1..Len(page) : page[j] = e.seq
      BY <1>3, <2>4, <3>1, <3>2
    <3>4. j \in 2..Len(page)
      BY <1>2, <1>4, <2>4, <3>3 DEF head
    <3> QED
      BY <1>2, <3>3, <3>4
  <2>5. \A e \in Retained' : \A k \in 1..Len(Tail(page)) :
          Wants(c, e)' /\ head < e.seq /\ e.seq <= Tail(page)[k] =>
            \E j \in 1..Len(Tail(page)) : Tail(page)[j] = e.seq
    BY <1>1, <2>4 DEF Wants
  <2>6. conn'[c].pc \in Sending => Tail(page) # <<>>
    BY <1>5, <1>9, <2>1
  <2> QED
    <3>1. /\ conn'[c].page = Tail(page) /\ client'[c].cursor = head /\ lastSeq' = lastSeq
          /\ conn'[c].skip = client'[c].cursor /\ client'[c].first # 0
      BY <1>1, <1>5, <1>8
    <3> QED
      BY <2>2, <2>3, <2>5, <2>6, <3>1 DEF PageIsSound
<1>13. PumpIsSound(c)'
  <2>1. \A k \in Slots(c) : Queue(c)[k] \in Nat
    BY ConnTypes DEF Inv
  <2> QED
    BY <1>2, <1>5, <1>6, <1>8, <2>1 DEF PumpIsSound
<1>14. NothingIsLost(c)'
  <2> SUFFICES ASSUME conn[c].pc = "sendingLast", NEW e \in Retained,
                      IsDue(c, e)', IsOffered(c, e)'
               PROVE  IsWaiting(c, e)'
    BY <1>1, <1>5, <1>9 DEF NothingIsLost
  <2>1. Wants(c, e) /\ head < e.seq /\ client[c].cursor < e.seq
    BY <1>1, <1>2, <1>3, <1>4, <1>8 DEF IsDue, Wants, head
  <2>2. IsDue(c, e) /\ IsOffered(c, e)
    BY <1>1, <1>5, <1>6, <2>1 DEF IsDue, IsOffered
  <2>3. IsWaiting(c, e)
    BY <1>1, <2>2 DEF ConnIsSound, NothingIsLost
  <2>4. CASE \E k \in Slots(c) : Queue(c)[k] = e.seq
    BY <1>6, <2>4 DEF IsWaiting
  <2>5. CASE \E k \in 1..Len(page) : page[k] = e.seq
    <3>1. PICK k \in 1..Len(page) : page[k] = e.seq
      BY <2>5
    <3>2. k \in 2..Len(page) /\ Len(page) > 1
      BY <1>2, <1>4, <2>1, <3>1 DEF head
    <3>3. k - 1 \in 1..Len(Tail(page)) /\ Tail(page)[k - 1] = e.seq
      BY <1>2, <3>1, <3>2
    <3> QED
      BY <1>5, <1>9, <3>2, <3>3 DEF IsWaiting
  <2> QED
    BY <2>3, <2>4, <2>5 DEF IsWaiting, page
<1>15. Len(Queue(c)') <= QueueSize
  BY <1>6 DEF Inv, TypeOK, Queue
<1>16. /\ ConnIsSound(c)' /\ faults' \in 0..MaxFaults
       /\ client'[c].cursor <= lastSeq /\ (client'[c].first = 0 <=> client'[c].cursor = 0)
  <2>1. head \in Nat /\ 0 < head /\ head <= lastSeq
    BY <1>1, <1>2, <1>3 DEF head
  <2> QED
    BY <1>1, <1>8, <1>11, <1>12, <1>13, <1>14, <2>1 DEF ConnIsSound, Inv, TypeOK
<1> QED
  BY <1>1, <1>5, <1>8, <1>15, <1>16, OneConnection

(***************************************************************************)
(* The pump.                                                               *)
(***************************************************************************)
\* An event leaves the queue; it is passed over or sent.
LEMMA PumpEventStep ==
  ASSUME Inv, NEW c \in Client, conn[c].pc = "getting", Queue(c) # <<>>,
         Queue(c)[1] # Shutdown,
         conn' = [conn EXCEPT ![c].sub.queue = Tail(@), ![c].pc = "pumping"],
         \/ AlreadySent(c, Queue(c)[1]) /\ UNCHANGED client
         \/ ~AlreadySent(c, Queue(c)[1]) /\ Receive(c, Queue(c)[1]),
         UNCHANGED <<lastSeq, published, trimmed, tailer, faults>>
  PROVE  Inv'
<1> DEFINE q == Queue(c)
           head == q[1]
<1>1. /\ q \in Seq(Nat \cup {Shutdown}) /\ \A k \in Slots(c) : q[k] \in Nat
      /\ conn[c].skip \in Nat /\ client[c].cursor \in Nat /\ client[c].first \in Nat
      /\ ConnIsSound(c) /\ UNCHANGED Retained
      /\ \A e \in Retained : e.seq \in Nat
  BY ConnTypes DEF Inv, Retained, TypeOK, Event
<1>2. /\ Len(q) \in Nat \ {0} /\ 1 \in 1..Len(q)
      /\ Tail(q) \in Seq(Nat \cup {Shutdown}) /\ Len(Tail(q)) = Len(q) - 1
      /\ \A k \in 1..Len(q) - 1 : Tail(q)[k] = q[k + 1]
      /\ \A k \in 2..Len(q) : k - 1 \in 1..Len(q) - 1 /\ Tail(q)[k - 1] = q[k]
  BY <1>1, TailFacts
<1>3. 1 \in Slots(c) /\ head \in Nat
  BY <1>1, <1>2 DEF Slots
<1>4. /\ conn' \in [Client -> Connection] /\ \A d \in Client \ {c} : conn'[d] = conn[d]
      /\ conn'[c].pc = "pumping" /\ conn'[c].worker = conn[c].worker
      /\ conn'[c].sub.queue = Tail(q) /\ conn'[c].sub.overflowed = conn[c].sub.overflowed
      /\ conn'[c].skip = conn[c].skip
  <2>1. /\ conn' = [conn EXCEPT ![c].sub.queue = Tail(q), ![c].pc = "pumping"]
        /\ conn \in [Client -> Connection]
    BY DEF Queue, Inv, TypeOK
  <2> DEFINE s == [conn[c].sub EXCEPT !.queue = Tail(q)]
  <2> HIDE DEF q
  <2>2. conn' = [conn EXCEPT ![c].sub = s, ![c].pc = "pumping"]
    BY <2>1
  <2>3. conn[c] \in Connection /\ conn[c].sub \in Subscriber
    BY ConnTypes DEF Inv
  <2>4. s \in Subscriber /\ s.queue = Tail(q) /\ s.overflowed = conn[c].sub.overflowed
    BY <1>2, <2>3 DEF Subscriber
  <2> DEFINE r == [conn[c] EXCEPT !.sub = s, !.pc = "pumping"]
  <2> HIDE DEF s
  <2>5. /\ r \in Connection /\ r.pc = "pumping" /\ r.sub = s
        /\ r.worker = conn[c].worker /\ r.skip = conn[c].skip
    BY <2>3, <2>4 DEF Connection, PC
  <2>6. conn' = [conn EXCEPT ![c] = r]
    BY <2>1, <2>2
  <2> HIDE DEF r
  <2>7. /\ conn' \in [Client -> Connection] /\ conn'[c] = r
        /\ \A d \in Client \ {c} : conn'[d] = conn[d]
    <3>1. conn \in [Client -> Connection]
      BY <2>1
    <3> QED
      BY <3>1, <2>5, <2>6, ConnUpdated, Zenon
  <2> QED
    BY <2>4, <2>5, <2>7
<1>5. Queue(c)' = Tail(q) /\ Home(c)' = Home(c)
  BY <1>4 DEF Queue, Home
<1>6. /\ \A k \in Slots(c)' : k + 1 \in Slots(c) /\ Tail(q)[k] = q[k + 1]
      /\ \A k \in Slots(c) : k # 1 => k - 1 \in Slots(c)' /\ Tail(q)[k - 1] = q[k]
  <2>1. /\ Slots(c) = {k \in 1..Len(q) : q[k] # Shutdown}
        /\ Slots(c)' = {k \in 1..Len(Tail(q)) : Tail(q)[k] # Shutdown}
    BY <1>5 DEF Slots
  <2> HIDE DEF q
  <2> QED
    BY <1>2, <2>1, SMTT(30)
<1>7. Len(Queue(c)') <= QueueSize
  BY <1>2, <1>5 DEF Inv, TypeOK, Queue
<1>8. /\ \A k \in Slots(c) : 0 < q[k] /\ q[k] <= Home(c).cursor
      /\ \A j, k \in Slots(c) : j < k => q[j] < q[k]
      /\ conn[c].skip <= client[c].cursor
      /\ client[c].cursor = conn[c].skip \/ client[c].cursor <= Home(c).cursor
      /\ \A k \in Slots(c) : q[k] <= conn[c].skip \/ client[c].cursor < q[k]
      /\ \A e \in Retained : IsDue(c, e) /\ IsOffered(c, e) => \E k \in Slots(c) : q[k] = e.seq
      /\ IsServed(c)
  BY <1>1 DEF ConnIsSound, QueueIsOrdered, PumpIsSound, NothingIsLost, IsWaiting, Registered,
              Pumping
<1>9. Home(c).cursor \in Nat /\ Home(c).cursor <= lastSeq
  BY <1>8, TailerTypes DEF IsServed, Home, Inv, NumbersAreDrawn
<1>10. Slots(c) \subseteq Nat
  BY <1>2 DEF Slots
<1> HIDE DEF q
<1>11. /\ client' \in [Client -> Memory] /\ \A d \in Client \ {c} : client'[d] = client[d]
       /\ client'[c].cursor <= lastSeq /\ (client'[c].first = 0 <=> client'[c].cursor = 0)
       /\ ClientIsSound(c)'
       /\ client'[c].first # 0
       /\ \/ client'[c].cursor = client[c].cursor /\ client[c].first # 0 /\ head <= client[c].cursor
          \/ client'[c].cursor = head /\ client[c].cursor < head
  <2>1. CASE AlreadySent(c, head) /\ UNCHANGED client
    <3>1. TableMoves
      BY <1>1 DEF Inv, TypeOK, TableMoves
    <3>2. ClientIsSound(c)'
      BY <2>1, <3>1, ClientIsKept DEF Inv
    <3>3. head <= client[c].cursor /\ 0 < head
      BY <1>1, <1>3, <1>8, <2>1 DEF AlreadySent
    <3>4. client[c].first # 0
      BY <1>1, <1>3, <3>3 DEF Inv, NumbersAreDrawn
    <3> QED
      BY <2>1, <3>2, <3>3, <3>4 DEF Inv, TypeOK, NumbersAreDrawn
  <2>2. CASE ~AlreadySent(c, head) /\ Receive(c, head)
    <3>1. client[c].cursor < head /\ head <= lastSeq /\ 0 < head
      <4>1. lastSeq \in Nat /\ head <= Home(c).cursor /\ 0 < head /\ ~(head <= conn[c].skip)
        BY <1>3, <1>8, <2>2 DEF AlreadySent, Inv, TypeOK
      <4> HIDE DEF head
      <4>2. client[c].cursor < head
        BY <1>3, <1>8, <4>1 DEF head
      <4> QED
        BY <1>3, <1>9, <4>1, <4>2
    <3>2. ASSUME NEW e \in Retained, Wants(c, e), client[c].first # 0, client[c].cursor < e.seq
          PROVE  head <= e.seq
      <4> SUFFICES ASSUME e.seq < head PROVE FALSE
        BY <1>1, <1>3
      <4>1. IsDue(c, e) /\ IsOffered(c, e)
        BY <1>1, <1>3, <3>2 DEF IsDue, IsOffered, q
      <4>2. PICK k \in Slots(c) : q[k] = e.seq
        BY <1>8, <4>1
      <4>3. k \in 1..Len(q)
        BY DEF Slots, q
      <4>4. k = 1 \/ 1 < k
        BY <1>2, <4>3
      <4>5. 1 < k => head < q[k]
        BY <1>3, <1>8
      <4>6. e.seq \in Nat
        BY <1>1
      <4> HIDE DEF head
      <4>7. e.seq = head \/ head < e.seq
        BY <4>2, <4>4, <4>5 DEF head
      <4> QED
        BY <1>3, <4>6, <4>7
    <3> HIDE DEF head
    <3>3. /\ client' \in [Client -> Memory] /\ \A d \in Client \ {c} : client'[d] = client[d]
          /\ client'[c].cursor = head /\ client'[c].first # 0 /\ ClientIsSound(c)'
      BY <1>3, <2>2, <3>1, <3>2, ReceiveFacts
    <3> QED
      BY <1>3, <3>1, <3>3
  <2> QED
    BY <2>1, <2>2 DEF q
<1>12. IsServed(c)' /\ PageIsSound(c)'
  BY <1>4, <1>5, <1>8 DEF IsServed, PageIsSound, Replaying, Sending
<1>13. QueueIsOrdered(c)'
  <2>1. ASSUME NEW j \in Slots(c)', NEW k \in Slots(c)', j < k
        PROVE  Tail(q)[j] < Tail(q)[k]
    <3>1. j + 1 \in Slots(c) /\ k + 1 \in Slots(c) /\ j \in Nat /\ k \in Nat
      BY <1>2, <1>5, <1>6, SMTT(30) DEF Slots
    <3>2. j + 1 < k + 1
      BY <2>1, <3>1
    <3>3. q[j + 1] < q[k + 1]
      BY <1>8, <3>1, <3>2
    <3> QED
      BY <1>6, <3>3
  <2>2. \A k \in Slots(c)' : 0 < Tail(q)[k] /\ Tail(q)[k] <= Home(c).cursor
    BY <1>6, <1>8
  <2> QED
    BY <1>5, <2>1, <2>2 DEF QueueIsOrdered
<1>14. PumpIsSound(c)'
  <2>1. \A k \in Slots(c)' : head < Tail(q)[k] /\ Tail(q)[k] \in Nat
    <3> SUFFICES ASSUME NEW k \in Slots(c)' PROVE head < Tail(q)[k] /\ Tail(q)[k] \in Nat
      OBVIOUS
    <3>1. k + 1 \in Slots(c) /\ k \in 1..Len(q) - 1
      BY <1>2, <1>5, <1>6 DEF Slots
    <3>2. 1 < k + 1
      BY <1>2, <3>1
    <3> QED
      BY <1>1, <1>3, <1>6, <1>8, <3>1, <3>2 DEF q
  <2>2. \A k \in Slots(c)' : Tail(q)[k] <= conn[c].skip \/ client[c].cursor < Tail(q)[k]
    BY <1>6, <1>8
  <2>3. conn[c].skip <= client'[c].cursor
    BY <1>1, <1>3, <1>8, <1>11
  <2>4. client'[c].cursor = conn[c].skip \/ client'[c].cursor <= Home(c).cursor
    BY <1>3, <1>8, <1>11
  <2>5. \A k \in Slots(c)' : Tail(q)[k] <= conn[c].skip \/ client'[c].cursor < Tail(q)[k]
    BY <1>11, <2>1, <2>2
  <2> QED
    BY <1>4, <1>5, <2>3, <2>4, <2>5 DEF PumpIsSound
<1>15. NothingIsLost(c)'
  <2> SUFFICES ASSUME NEW e \in Retained, IsDue(c, e)', IsOffered(c, e)'
               PROVE  IsWaiting(c, e)'
    BY <1>1 DEF NothingIsLost
  <2>1. Wants(c, e) /\ client'[c].cursor < e.seq /\ e.seq \in Nat
    BY <1>1, <1>11 DEF IsDue, Wants
  <2>2. head < e.seq /\ client[c].cursor < e.seq
    BY <1>1, <1>3, <1>11, <2>1, SMTT(30)
  <2>3. IsDue(c, e)
    BY <1>1, <1>3, <2>1, <2>2 DEF IsDue, q
  <2>4. IsOffered(c, e)
    <3>1. CASE \E k \in Slots(c)' : e.seq <= Tail(q)[k]
      BY <1>6, <3>1 DEF IsOffered, q
    <3>2. CASE ~conn[c].sub.overflowed /\ e.seq <= Home(c).cursor
      BY <3>2 DEF IsOffered
    <3>3. \/ \E k \in Slots(c)' : e.seq <= Tail(q)[k]
          \/ ~conn[c].sub.overflowed /\ e.seq <= Home(c).cursor
      BY <1>4, <1>5 DEF IsOffered
    <3> QED
      BY <3>1, <3>2, <3>3
  <2>5. PICK k \in Slots(c) : q[k] = e.seq
    BY <1>8, <2>3, <2>4
  <2>6. k # 1
    BY <1>3, <2>1, <2>2, <2>5
  <2>7. k - 1 \in Slots(c)' /\ Tail(q)[k - 1] = e.seq
    BY <1>6, <2>5, <2>6
  <2> QED
    BY <1>5, <2>7 DEF IsWaiting
<1>16. ConnIsSound(c)' /\ faults' \in 0..MaxFaults
  BY <1>12, <1>13, <1>14, <1>15 DEF ConnIsSound, Inv, TypeOK
<1> QED
  BY <1>4, <1>7, <1>11, <1>16, OneConnection

LEMMA PumpGetStep ==
  ASSUME Inv, NEW c \in Client, PumpGet(c)
  PROVE  Inv'
<1>1. /\ conn[c].pc = "getting" /\ Queue(c) # <<>> /\ Head(Queue(c)) = Queue(c)[1]
      /\ UNCHANGED <<lastSeq, published, trimmed, tailer, faults>> /\ faults \in 0..MaxFaults
  <2>1. Queue(c) \in Seq(Nat \cup {Shutdown}) /\ Queue(c) # <<>>
    BY ConnTypes DEF PumpGet, Queue, Inv
  <2> QED
    BY <2>1, TailFacts DEF PumpGet, Inv, TypeOK
<1>2. CASE Close(c) /\ UNCHANGED client
  BY <1>1, <1>2, CloseStep
<1>3. CASE /\ Queue(c)[1] # Shutdown
           /\ conn' = [conn EXCEPT ![c].sub.queue = Tail(@), ![c].pc = "pumping"]
           /\ \/ AlreadySent(c, Queue(c)[1]) /\ UNCHANGED client
              \/ ~AlreadySent(c, Queue(c)[1]) /\ Receive(c, Queue(c)[1])
  BY <1>1, <1>3, PumpEventStep
<1> QED
  BY <1>1, <1>2, <1>3 DEF PumpGet, Queue

(***************************************************************************)
(* The table.                                                              *)
(***************************************************************************)
LEMMA TableStep ==
  ASSUME Inv, TableMoves, published \subseteq published', trimmed' \subseteq Nat,
         \A e \in published' : e.seq <= lastSeq',
         \A e, f \in published' : e.seq = f.seq => e = f,
         UNCHANGED <<tailer, conn, client, faults>>
  PROVE  Inv'
<1>1. TypeOK'
  BY DEF Inv, TypeOK, TableMoves
<1>2. NumbersAreDrawn'
  <2>1. \A c \in Client : client[c].cursor \in Nat
    BY ConnTypes DEF Inv
  <2>2. \A w \in Worker : tailer[w].cursor \in Nat
    BY TailerTypes DEF Inv
  <2>3. lastSeq \in Nat /\ lastSeq' \in Nat /\ lastSeq <= lastSeq'
    BY DEF Inv, TypeOK, TableMoves
  <2> QED
    BY <2>1, <2>2, <2>3 DEF Inv, NumbersAreDrawn
<1>3. \A w \in Worker : FetchIsSound(w)'
  BY FetchIsKept DEF Inv
<1>4. ASSUME NEW c \in Client PROVE ConnIsSound(c)' /\ ClientIsSound(c)'
  <2>1. \A w \in Worker : conn[c].worker = w /\ conn[c].pc # "offline" => tailer'[w].state # "down"
    BY DEF Inv, ConnIsSound, IsServed, Home
  <2> QED
    BY <2>1, ConnIsKept, ClientIsKept DEF Inv
<1> QED
  BY <1>1, <1>2, <1>3, <1>4 DEF Inv

LEMMA EnvironmentStep ==
  ASSUME Inv, Environment
  PROVE  Inv'
<1>1. /\ lastSeq \in Nat /\ published \subseteq Event /\ trimmed \subseteq Nat
      /\ \A e \in published : e.seq \in Nat /\ e.seq <= lastSeq
      /\ \A e, f \in published : e.seq = f.seq => e = f
  BY DEF Inv, TypeOK, NumbersAreDrawn, Event
<1>2. ASSUME NEW i \in Item, Publish(i) PROVE Inv'
  <2> DEFINE new == [seq |-> lastSeq + 1, item |-> i]
  <2>1. new \in Event /\ new.seq = lastSeq + 1
    BY <1>1 DEF Event
  <2>2. /\ published' = published \cup {new} /\ lastSeq' = lastSeq + 1
        /\ UNCHANGED <<trimmed, tailer, conn, client, faults>>
    BY <1>2 DEF Publish
  <2> HIDE DEF new
  <2>3. TableMoves
    BY <1>1, <2>1, <2>2 DEF TableMoves, Retained
  <2>4. \A e \in published' : e.seq <= lastSeq'
    BY <1>1, <2>1, <2>2
  <2>5. \A e, f \in published' : e.seq = f.seq => e = f
    BY <1>1, <2>1, <2>2
  <2> QED
    BY <1>1, <2>2, <2>3, <2>4, <2>5, TableStep
<1>3. ASSUME PublisherRollsBack PROVE Inv'
  <2>1. /\ lastSeq' = lastSeq + 1
        /\ UNCHANGED <<published, trimmed, tailer, conn, client, faults>>
    BY <1>3 DEF PublisherRollsBack
  <2>2. TableMoves /\ \A e \in published' : e.seq <= lastSeq'
    BY <1>1, <2>1 DEF TableMoves, Retained
  <2> QED
    BY <1>1, <2>1, <2>2, TableStep
<1>4. ASSUME NEW e \in Retained, Trim(e) PROVE Inv'
  <2>1. /\ trimmed' = trimmed \cup {e.seq} /\ e.seq \in Nat
        /\ UNCHANGED <<lastSeq, published, tailer, conn, client, faults>>
    BY <1>1, <1>4 DEF Trim, Retained
  <2>2. TableMoves
    BY <1>1, <2>1 DEF TableMoves, Retained
  <2> QED
    BY <1>1, <2>1, <2>2, TableStep
<1> QED
  BY <1>2, <1>3, <1>4 DEF Environment

(***************************************************************************)
(* The tailers.                                                            *)
(***************************************************************************)
\* A step of one tailer that leaves the connections it serves where they are.
LEMMA OneTailer ==
  ASSUME Inv, NEW w \in Worker,
         UNCHANGED <<lastSeq, published, trimmed, client>>, faults' \in 0..MaxFaults,
         conn' \in [Client -> Connection], \A c \in Client : Len(Queue(c)') <= QueueSize,
         tailer' \in [Worker -> Tailer], \A v \in Worker \ {w} : tailer'[v] = tailer[v],
         tailer'[w].cursor <= lastSeq, FetchIsSound(w)',
         \A c \in Client : ConnIsSound(c)'
  PROVE  Inv'
<1>1. TableMoves
  BY DEF Inv, TypeOK, TableMoves, Retained
<1>2. TypeOK' /\ NumbersAreDrawn'
  BY DEF Inv, TypeOK, NumbersAreDrawn, Queue
<1>3. \A v \in Worker : FetchIsSound(v)'
  <2>1. ASSUME NEW v \in Worker, v # w PROVE FetchIsSound(v)'
    BY <1>1, <2>1, FetchIsKept DEF Inv
  <2> QED
    BY <2>1
<1>4. \A c \in Client : ClientIsSound(c)'
  BY <1>1, ClientIsKept DEF Inv
<1> QED
  BY <1>2, <1>3, <1>4 DEF Inv

LEMMA TailFetchStep ==
  ASSUME Inv, NEW w \in Worker, TailFetch(w)
  PROVE  Inv'
<1> DEFINE cursor == tailer[w].cursor
<1>1. PICK rows \in Pages(Retained, cursor, TailBatch) :
        rows # <<>> /\ tailer' = [tailer EXCEPT ![w].fetched = rows]
  BY DEF TailFetch
<1>2. /\ cursor \in Nat /\ Retained \in SUBSET Event /\ TailBatch \in Nat
      /\ UNCHANGED <<lastSeq, published, trimmed, conn, client, faults, Retained>>
      /\ tailer[w].state # "down"
  BY TailerTypes DEF Inv, TypeOK, Retained, TailFetch
<1>3. rows \in Seq(Event) /\ Ascending(rows)
  BY <1>2, PageFacts
<1>4. \A k \in 1..Len(rows) : rows[k] \in Retained /\ cursor < rows[k].seq
  BY <1>2, PageFacts
<1>5. HasNoGap(rows, Retained, cursor, TailBatch)
  BY <1>2, PageFacts
<1>6. /\ tailer' \in [Worker -> Tailer] /\ \A v \in Worker \ {w} : tailer'[v] = tailer[v]
      /\ tailer'[w].cursor = cursor /\ tailer'[w].fetched = rows
      /\ tailer'[w].state = tailer[w].state
  <2> DEFINE r == [tailer[w] EXCEPT !.fetched = rows]
  <2>1. tailer \in [Worker -> Tailer] /\ tailer[w] \in Tailer
    BY DEF Inv, TypeOK
  <2>2. r \in Tailer /\ r.cursor = cursor /\ r.fetched = rows /\ r.state = tailer[w].state
    BY <1>3, <2>1 DEF Tailer
  <2>3. tailer' = [tailer EXCEPT ![w] = r]
    BY <1>1
  <2> HIDE DEF r
  <2> QED
    BY <2>1, <2>2, <2>3, TailerUpdated
<1>7. FetchIsSound(w)'
  <2>1. \A k \in 1..Len(rows) : rows[k] \in published'
    BY <1>2, <1>4 DEF Retained
  <2>2. \A e \in Retained' : \A k \in 1..Len(rows) :
          cursor < e.seq /\ e.seq <= rows[k].seq => \E j \in 1..Len(rows) : rows[j] = e
    BY <1>2, <1>5 DEF HasNoGap
  <2> HIDE DEF cursor
  <2> QED
    BY <1>3, <1>4, <1>6, <2>1, <2>2 DEF FetchIsSound, Ascending
<1>8. ASSUME NEW c \in Client PROVE ConnIsSound(c)'
  <2>1. TableMoves
    BY <1>2 DEF Inv, TypeOK, TableMoves
  <2>2. \A v \in Worker : conn[c].worker = v /\ conn[c].pc # "offline" =>
          tailer'[v].state # "down" /\ tailer'[v].cursor = tailer[v].cursor
    BY <1>6 DEF Inv, ConnIsSound, IsServed, Home
  <2> QED
    BY <1>2, <2>1, <2>2, ConnIsKept DEF Inv
<1>9. /\ faults' \in 0..MaxFaults /\ conn' \in [Client -> Connection]
      /\ \A c \in Client : Len(Queue(c)') <= QueueSize
      /\ tailer'[w].cursor <= lastSeq
  BY <1>2, <1>6 DEF Inv, TypeOK, Queue, NumbersAreDrawn
<1> QED
  BY <1>2, <1>6, <1>7, <1>8, <1>9, OneTailer

\* A process begins to serve, or ends: it has nothing in memory.
LEMMA LifeStep ==
  ASSUME Inv, NEW w \in Worker, NEW state \in {"running", "down"},
         NEW n \in Nat, n <= lastSeq,
         tailer' = [tailer EXCEPT ![w] = [Started(n) EXCEPT !.state = state]],
         UNCHANGED <<lastSeq, published, trimmed, client>>, faults' \in 0..MaxFaults,
         \/ state = "running" /\ tailer[w].state = "down" /\ UNCHANGED conn
         \/ state = "down" /\ Disconnect(w)
  PROVE  Inv'
<1>1. /\ tailer' \in [Worker -> Tailer] /\ \A v \in Worker \ {w} : tailer'[v] = tailer[v]
      /\ tailer'[w].cursor = n /\ tailer'[w].fetched = <<>> /\ tailer'[w].state = state
  <2> DEFINE r == [Started(n) EXCEPT !.state = state]
  <2>1. r \in Tailer /\ r.cursor = n /\ r.fetched = <<>> /\ r.state = state
    <3>1. r = [state |-> state, cursor |-> n, fetched |-> <<>>]
      BY DEF Started
    <3>2. <<>> \in Seq(Event) /\ state \in {"running", "closing", "down"}
      OBVIOUS
    <3> HIDE DEF r
    <3> QED
      BY <3>1, <3>2 DEF Tailer
  <2>2. tailer' = [tailer EXCEPT ![w] = r] /\ tailer \in [Worker -> Tailer]
    BY DEF Inv, TypeOK
  <2> HIDE DEF r
  <2> QED
    BY <2>1, <2>2, TailerUpdated
<1>2. FetchIsSound(w)'
  BY <1>1 DEF FetchIsSound, Ascending
<1>3. /\ conn' \in [Client -> Connection]
      /\ \A c \in Client : \/ conn'[c] = Offline
                           \/ conn'[c] = conn[c] /\ (conn[c].worker = w => conn[c].pc = "offline")
  <2>1. CASE UNCHANGED conn /\ tailer[w].state = "down"
    BY <2>1 DEF Inv, TypeOK, ConnIsSound, IsServed, Home
  <2>2. CASE Disconnect(w)
    BY <2>2, OfflineType DEF Inv, TypeOK, Disconnect
  <2> QED
    BY <2>1, <2>2
<1>4. ASSUME NEW c \in Client PROVE ConnIsSound(c)' /\ Len(Queue(c)') <= QueueSize
  <2>1. CASE conn'[c] = Offline
    BY <2>1, OfflineType, OfflineIsSound DEF Queue
  <2>2. CASE conn'[c] = conn[c] /\ (conn[c].worker = w => conn[c].pc = "offline")
    <3>1. TableMoves
      BY DEF Inv, TypeOK, TableMoves, Retained
    <3>2. \A v \in Worker : conn[c].worker = v /\ conn[c].pc # "offline" =>
            tailer'[v].state # "down" /\ tailer'[v].cursor = tailer[v].cursor
      BY <1>1, <2>2 DEF Inv, ConnIsSound, IsServed, Home
    <3> QED
      BY <2>2, <3>1, <3>2, ConnIsKept DEF Inv, TypeOK, Queue
  <2> QED
    BY <1>3, <2>1, <2>2
<1> QED
  BY <1>1, <1>2, <1>3, <1>4, OneTailer

\* The shutdown of a hub: the sentinel goes to the end of every queue, or the
\* subscriber counts as overflowed.
LEMMA InterruptFacts ==
  ASSUME NEW sub \in Subscriber, Len(sub.queue) <= QueueSize
  PROVE  /\ Interrupt(sub) \in Subscriber /\ Len(Interrupt(sub).queue) <= QueueSize
         /\ Len(sub.queue) <= Len(Interrupt(sub).queue)
         /\ \A k \in 1..Len(sub.queue) : Interrupt(sub).queue[k] = sub.queue[k]
         /\ \A k \in 1..Len(Interrupt(sub).queue) :
              k \in 1..Len(sub.queue) \/ Interrupt(sub).queue[k] = Shutdown
         /\ sub.overflowed => Interrupt(sub).overflowed
<1>1. /\ sub.queue \in Seq(Nat \cup {Shutdown}) /\ sub.overflowed \in BOOLEAN
      /\ Len(sub.queue) \in Nat
  BY DEF Subscriber
<1>2. CASE Room(sub) > 0
  <2> DEFINE r == [sub EXCEPT !.queue = Append(@, Shutdown)]
  <2>1. Interrupt(sub) = r
    BY <1>2 DEF Interrupt
  <2>2. r \in Subscriber /\ r.queue = Append(sub.queue, Shutdown) /\ r.overflowed = sub.overflowed
    BY <1>1, SMTT(30) DEF Subscriber
  <2> HIDE DEF r
  <2>3. /\ Len(r.queue) = Len(sub.queue) + 1 /\ r.queue[Len(sub.queue) + 1] = Shutdown
        /\ \A k \in 1..Len(sub.queue) : r.queue[k] = sub.queue[k]
    BY <1>1, <2>2
  <2>4. Len(sub.queue) < QueueSize
    BY <1>1, <1>2 DEF Room
  <2> QED
    BY <1>1, <2>1, <2>2, <2>3, <2>4
<1>3. CASE ~(Room(sub) > 0)
  <2> DEFINE r == [sub EXCEPT !.overflowed = TRUE]
  <2>1. Interrupt(sub) = r
    BY <1>3 DEF Interrupt
  <2>2. r \in Subscriber /\ r.queue = sub.queue /\ r.overflowed = TRUE
    BY <1>1 DEF Subscriber
  <2> HIDE DEF r
  <2> QED
    BY <1>1, <2>1, <2>2
<1> QED
  BY <1>2, <1>3

LEMMA ShutDownStep ==
  ASSUME Inv, NEW w \in Worker, ShutDown(w)
  PROVE  Inv'
<1>1. /\ tailer' \in [Worker -> Tailer] /\ \A v \in Worker \ {w} : tailer'[v] = tailer[v]
      /\ tailer'[w].cursor = tailer[w].cursor /\ tailer'[w].fetched = tailer[w].fetched
      /\ tailer'[w].state = "closing"
  <2> DEFINE r == [tailer[w] EXCEPT !.state = "closing"]
  <2>1. tailer \in [Worker -> Tailer] /\ tailer[w] \in Tailer
    BY DEF Inv, TypeOK
  <2>2. /\ r \in Tailer /\ r.cursor = tailer[w].cursor /\ r.fetched = tailer[w].fetched
        /\ r.state = "closing"
    BY <2>1 DEF Tailer
  <2>3. tailer' = [tailer EXCEPT ![w] = r]
    BY DEF ShutDown
  <2> HIDE DEF r
  <2> QED
    BY <2>1, <2>2, <2>3, TailerUpdated
<1>2. /\ UNCHANGED <<lastSeq, published, trimmed, client, Retained>> /\ faults' \in 0..MaxFaults
      /\ TableMoves
  BY DEF ShutDown, Fault, Inv, TypeOK, TableMoves, Retained
<1>3. FetchIsSound(w)'
  <2>1. FetchIsSound(w)
    BY DEF Inv
  <2> QED
    BY <1>1, <1>2, <2>1 DEF FetchIsSound, Ascending
<1>4. ASSUME NEW c \in Client
      PROVE  /\ conn'[c] \in Connection /\ Len(Queue(c)') <= QueueSize
             /\ ConnIsSound(c)'
  <2>1. \A v \in Worker : conn[c].worker = v /\ conn[c].pc # "offline" =>
          tailer'[v].state # "down" /\ tailer'[v].cursor = tailer[v].cursor
    BY <1>1 DEF Inv, ConnIsSound, IsServed, Home
  <2>2. ConnIsSound(c) /\ conn[c] \in Connection /\ Len(Queue(c)) <= QueueSize
    BY DEF Inv, TypeOK, Queue
  <2>3. CASE c \notin Subscribers(w)
    <3>1. conn'[c] = conn[c]
      BY <2>3 DEF ShutDown
    <3> QED
      BY <1>2, <2>1, <2>2, <3>1, ConnIsKept DEF Inv, Queue
  <2>4. CASE c \in Subscribers(w)
    <3>1. /\ conn[c].sub \in Subscriber /\ conn[c].worker = w /\ conn[c].pc \in Registered
          /\ Len(conn[c].sub.queue) \in Nat
      BY <2>4, ConnTypes DEF Subscribers, Inv, Queue
    <3> DEFINE s == Interrupt(conn[c].sub)
    <3>2. /\ s \in Subscriber /\ Len(s.queue) <= QueueSize
          /\ Len(conn[c].sub.queue) <= Len(s.queue)
          /\ \A k \in 1..Len(conn[c].sub.queue) : s.queue[k] = conn[c].sub.queue[k]
          /\ \A k \in 1..Len(s.queue) : k \in 1..Len(conn[c].sub.queue) \/ s.queue[k] = Shutdown
          /\ conn[c].sub.overflowed => s.overflowed
      BY <2>2, <3>1, InterruptFacts DEF Queue
    <3>3. Len(s.queue) \in Nat /\ s.overflowed \in BOOLEAN
      BY <3>2 DEF Subscriber
    <3>4. conn'[c] = [conn[c] EXCEPT !.sub = s]
      BY <2>4 DEF ShutDown
    <3> HIDE DEF s
    <3>5. /\ conn'[c] \in Connection /\ conn'[c].pc = conn[c].pc
          /\ conn'[c].worker = conn[c].worker /\ conn'[c].skip = conn[c].skip
          /\ conn'[c].page = conn[c].page /\ conn'[c].sub = s
      BY <2>2, <3>2, <3>4, SubUpdated
    <3>6. Queue(c) = conn[c].sub.queue /\ Queue(c)' = s.queue
      BY <3>5 DEF Queue
    <3>7. /\ Slots(c)' = Slots(c)
          /\ \A k \in Slots(c) : Queue(c)'[k] = Queue(c)[k]
      <4> DEFINE q == conn[c].sub.queue
      <4>1. /\ Len(q) \in Nat /\ Len(s.queue) \in Nat /\ Len(q) <= Len(s.queue)
            /\ \A k \in 1..Len(q) : s.queue[k] = q[k]
            /\ \A k \in 1..Len(s.queue) : k \in 1..Len(q) \/ s.queue[k] = Shutdown
        BY <3>1, <3>2, <3>3
      <4> HIDE DEF q
      <4>2. 1..Len(q) \subseteq 1..Len(s.queue)
        BY <4>1
      <4>3. {k \in 1..Len(s.queue) : s.queue[k] # Shutdown}
              = {k \in 1..Len(q) : q[k] # Shutdown}
        BY <4>1, <4>2
      <4> QED
        BY <3>6, <4>1, <4>3 DEF Slots, q
    <3>8. Home(c).cursor' = Home(c).cursor /\ IsServed(c)'
      BY <1>1, <3>1, <3>5 DEF Home, IsServed
    <3>9. PageIsSound(c)'
      BY <1>2, <2>2, <3>5 DEF ConnIsSound, PageIsSound, Wants
    <3>10. QueueIsOrdered(c)' /\ PumpIsSound(c)'
      BY <1>2, <2>2, <3>5, <3>7, <3>8 DEF ConnIsSound, QueueIsOrdered, PumpIsSound
    <3>11. NothingIsLost(c)'
      <4> SUFFICES ASSUME conn[c].pc \in Pumping \cup {"sendingLast"}, NEW e \in Retained,
                          IsDue(c, e)', IsOffered(c, e)'
                   PROVE  IsWaiting(c, e)'
        BY <1>2, <3>5 DEF NothingIsLost
      <4>1. IsDue(c, e)
        BY <1>2, <3>7 DEF IsDue, Wants
      <4>2. IsOffered(c, e)
        BY <3>2, <3>5, <3>7, <3>8 DEF IsOffered
      <4>3. IsWaiting(c, e)
        BY <2>2, <4>1, <4>2 DEF ConnIsSound, NothingIsLost
      <4> QED
        BY <3>5, <3>7, <4>3 DEF IsWaiting
    <3>12. Len(Queue(c)') <= QueueSize
      BY <3>2, <3>6
    <3> QED
      BY <3>5, <3>8, <3>9, <3>10, <3>11, <3>12 DEF ConnIsSound
  <2> QED
    BY <2>3, <2>4
<1>5. conn' \in [Client -> Connection]
  <2>1. conn' = [c \in Client |-> conn'[c]]
    BY DEF ShutDown
  <2> QED
    BY <1>4, <2>1
<1>6. tailer'[w].cursor <= lastSeq
  BY <1>1 DEF Inv, NumbersAreDrawn
<1> QED
  BY <1>1, <1>2, <1>3, <1>4, <1>5, <1>6, OneTailer

\* An offer: the queue grows by a prefix of what is offered, by all of it unless
\* the subscriber overflows.
LEMMA OfferFacts ==
  ASSUME NEW sub \in Subscriber, Len(sub.queue) <= QueueSize, NEW seqs \in Seq(Nat)
  PROVE  LET new == Offer(sub, seqs)
         IN  /\ new \in Subscriber /\ Len(new.queue) <= QueueSize
             /\ \/ sub.overflowed /\ new = sub
                \/ /\ ~sub.overflowed
                   /\ \E m \in 0..Len(seqs) :
                        /\ Len(new.queue) = Len(sub.queue) + m
                        /\ \A k \in 1..Len(sub.queue) : new.queue[k] = sub.queue[k]
                        /\ \A k \in 1..m : new.queue[Len(sub.queue) + k] = seqs[k]
                        /\ new.overflowed \/ m = Len(seqs)
<1> DEFINE new == Offer(sub, seqs)
           Grows(m) == /\ Len(new.queue) = Len(sub.queue) + m
                       /\ \A k \in 1..Len(sub.queue) : new.queue[k] = sub.queue[k]
                       /\ \A k \in 1..m : new.queue[Len(sub.queue) + k] = seqs[k]
                       /\ new.overflowed \/ m = Len(seqs)
<1>1. /\ sub.queue \in Seq(Nat \cup {Shutdown}) /\ sub.overflowed \in BOOLEAN
      /\ Len(sub.queue) \in Nat /\ Len(seqs) \in Nat /\ seqs \in Seq(Nat \cup {Shutdown})
      /\ QueueSize \in Nat
  <2>1. sub.queue \in Seq(Nat \cup {Shutdown}) /\ sub.overflowed \in BOOLEAN
    BY DEF Subscriber
  <2>2. seqs \in Seq(Nat \cup {Shutdown}) /\ Len(seqs) \in Nat
    OBVIOUS
  <2> QED
    BY <2>1, <2>2
<1>2. CASE sub.overflowed
  BY <1>2 DEF Offer
<1>3. CASE ~sub.overflowed /\ Len(seqs) <= Room(sub)
  <2> DEFINE r == [sub EXCEPT !.queue = @ \o seqs]
  <2>1. new = r
    BY <1>3 DEF Offer
  <2>2. r \in Subscriber /\ r.queue = sub.queue \o seqs
    <3> DEFINE q == sub.queue \o seqs
    <3>1. q \in Seq(Nat \cup {Shutdown})
      BY <1>1, ConcatFacts
    <3>2. r = [sub EXCEPT !.queue = q]
      OBVIOUS
    <3> HIDE DEF r, q
    <3>3. r \in Subscriber /\ r.queue = q
      BY <3>1, <3>2 DEF Subscriber
    <3> QED
      BY <3>3 DEF q
  <2> HIDE DEF r, new
  <2>3. /\ Len(sub.queue \o seqs) = Len(sub.queue) + Len(seqs)
        /\ \A k \in 1..Len(sub.queue) : (sub.queue \o seqs)[k] = sub.queue[k]
        /\ \A k \in 1..Len(seqs) : (sub.queue \o seqs)[Len(sub.queue) + k] = seqs[k]
    BY <1>1, ConcatFacts
  <2>4. Len(new.queue) <= QueueSize
    BY <1>1, <1>3, <2>1, <2>2, <2>3 DEF Room
  <2>5. Grows(Len(seqs))
    BY <2>1, <2>2, <2>3
  <2>6. Len(seqs) \in 0..Len(seqs)
    BY <1>1
  <2> HIDE DEF Grows
  <2>7. \E m \in 0..Len(seqs) : Grows(m)
    BY <2>5, <2>6
  <2> QED
    BY <1>3, <2>1, <2>2, <2>4, <2>7 DEF new, Grows
<1>4. CASE ~sub.overflowed /\ ~(Len(seqs) <= Room(sub))
  <2> DEFINE room == Room(sub)
             fits == SubSeq(seqs, 1, room)
  <2>1. room \in 0..Len(seqs) /\ room = QueueSize - Len(sub.queue) /\ room \in Nat
    BY <1>1, <1>4 DEF Room
  <2>2. new = [queue |-> sub.queue \o fits, overflowed |-> TRUE]
    BY <1>4 DEF Offer
  <2> HIDE DEF room, new
  <2>3. fits \in Seq(Nat \cup {Shutdown}) /\ Len(fits) = room
    BY <1>1, <2>1, PrefixFacts
  <2>4. \A k \in 1..room : fits[k] = seqs[k]
    BY <1>1, <2>1, PrefixFacts
  <2> HIDE DEF fits
  <2>5. /\ Len(sub.queue \o fits) = Len(sub.queue) + room
        /\ sub.queue \o fits \in Seq(Nat \cup {Shutdown})
        /\ \A k \in 1..Len(sub.queue) : (sub.queue \o fits)[k] = sub.queue[k]
        /\ \A k \in 1..room : (sub.queue \o fits)[Len(sub.queue) + k] = fits[k]
    <3>1. /\ Len(sub.queue \o fits) = Len(sub.queue) + Len(fits)
          /\ sub.queue \o fits \in Seq(Nat \cup {Shutdown})
          /\ \A k \in 1..Len(sub.queue) : (sub.queue \o fits)[k] = sub.queue[k]
          /\ \A k \in 1..Len(fits) : (sub.queue \o fits)[Len(sub.queue) + k] = fits[k]
      <4>1. sub.queue \in Seq(Nat \cup {Shutdown}) /\ fits \in Seq(Nat \cup {Shutdown})
        BY <1>1, <2>3
      <4> QED
        BY <4>1, ConcatFacts
    <3> QED
      BY <2>3, <3>1, Zenon
  <2>6. new \in Subscriber /\ new.queue = sub.queue \o fits /\ new.overflowed
    BY <2>2, <2>5 DEF Subscriber
  <2>7. Len(new.queue) <= QueueSize
    BY <1>1, <2>1, <2>5, <2>6
  <2>8. Grows(room)
    BY <2>4, <2>5, <2>6
  <2> HIDE DEF Grows
  <2>9. \E m \in 0..Len(seqs) : Grows(m)
    BY <2>1, <2>8
  <2> QED
    BY <1>4, <2>6, <2>7, <2>9 DEF new, Grows
<1> QED
  BY <1>1, <1>2, <1>3, <1>4

\* The queue after an offer, S and T its slots before and after.
Filled(q) == {k \in 1..Len(q) : q[k] # Shutdown}

\* p is q and the first m of seqs.
IsExtended(q, p, seqs, m) ==
  /\ Len(p) = Len(q) + m
  /\ \A k \in 1..Len(q) : p[k] = q[k]
  /\ \A k \in 1..m : p[Len(q) + k] = seqs[k]

\* q ascends from above low to high, in the slots S.
Ascends(q, S, low, high) ==
  /\ \A k \in S : low < q[k] /\ q[k] <= high
  /\ \A j, k \in S : j < k => q[j] < q[k]

\* Nothing moved, and of seqs the new slots hold all up to their last.
IsMerged(q, p, S, T, seqs, m, old) ==
  /\ \A k \in S : k \in T /\ p[k] = q[k]
  /\ \A k \in T : k \notin S => old < p[k]
  /\ \A k \in 1..Len(seqs) : m = Len(seqs) \/ (\E j \in T : seqs[k] <= p[j]) =>
       \E j \in T : p[j] = seqs[k]

LEMMA AppendedQueue ==
  ASSUME NEW q \in Seq(Nat \cup {Shutdown}), NEW p, NEW S, NEW T, S = Filled(q), T = Filled(p),
         NEW seqs \in Seq(Nat), NEW m \in 0..Len(seqs), IsExtended(q, p, seqs, m),
         NEW old \in Nat, NEW last \in Nat, old < last,
         Ascends(q, S, 0, old), Ascends(seqs, 1..Len(seqs), old, last)
  PROVE  /\ IsMerged(q, p, S, T, seqs, m, old)
         /\ Ascends(p, T, 0, last) /\ \A k \in T : p[k] \in Nat
<1> USE DEF IsExtended, Ascends
<1>1. /\ Len(q) \in Nat /\ Len(seqs) \in Nat /\ m \in Nat /\ m <= Len(seqs)
      /\ \A k \in 1..Len(seqs) : seqs[k] \in Nat
      /\ \A k \in S : k \in 1..Len(q) /\ q[k] \in Nat
  BY DEF Filled
<1>2. \A k \in S : k \in T /\ p[k] = q[k]
  BY <1>1 DEF Filled
<1>3. \A i \in 1..m : i \in 1..Len(seqs) /\ Len(q) + i \in T /\ p[Len(q) + i] = seqs[i]
  <2>1. \A i \in 1..m : /\ i \in 1..Len(seqs) /\ seqs[i] # Shutdown
                        /\ Len(q) + i \in 1..Len(p)
    BY <1>1
  <2> QED
    BY <2>1 DEF Filled
<1>4. ASSUME NEW k \in T, k \notin S
      PROVE  \E i \in 1..m : k = Len(q) + i
  <2>1. k \in 1..(Len(q) + m) /\ p[k] # Shutdown
    BY DEF Filled
  <2>2. ~(k <= Len(q))
    BY <1>1, <1>4, <2>1 DEF Filled
  <2>3. k - Len(q) \in 1..m /\ k = Len(q) + (k - Len(q))
    BY <1>1, <2>1, <2>2
  <2> QED
    BY <2>3
<1>5. ASSUME NEW k \in T, k \notin S
      PROVE  old < p[k] /\ p[k] <= last /\ p[k] \in Nat
  <2>1. PICK i \in 1..m : k = Len(q) + i
    BY <1>4, <1>5
  <2>2. p[k] = seqs[i] /\ i \in 1..Len(seqs)
    BY <1>3, <2>1
  <2> QED
    BY <1>1, <2>2, SMTT(30)
<1>6. \A k \in T : p[k] \in Nat /\ 0 < p[k] /\ p[k] <= last
  <2>1. ASSUME NEW k \in S PROVE p[k] \in Nat /\ 0 < p[k] /\ p[k] <= last
    <3>1. p[k] \in Nat /\ 0 < p[k] /\ p[k] <= old
      BY <1>1, <1>2, <2>1
    <3> QED
      BY <3>1
  <2>2. ASSUME NEW k \in T, k \notin S PROVE p[k] \in Nat /\ 0 < p[k] /\ p[k] <= last
    BY <1>5, <2>2
  <2> QED
    BY <2>1, <2>2
<1>7. ASSUME NEW j \in T, NEW k \in T, j < k
      PROVE  p[j] < p[k]
  <2>1. CASE j \in S /\ k \in S
    BY <1>2, <1>7, <2>1
  <2>2. CASE j \in S /\ k \notin S
    <3>1. p[j] = q[j] /\ q[j] \in Nat /\ q[j] <= old /\ old < p[k] /\ p[k] \in Nat
      BY <1>1, <1>2, <1>5, <2>2
    <3> QED
      BY <3>1
  <2>3. CASE j \notin S
    <3>1. PICK h \in 1..m : j = Len(q) + h
      BY <1>4, <2>3
    <3>2. k \notin S
      BY <1>1, <1>7, <3>1
    <3>3. PICK i \in 1..m : k = Len(q) + i
      BY <1>4, <3>2
    <3>4. h < i
      BY <1>1, <1>7, <3>1, <3>3
    <3> QED
      BY <1>3, <3>1, <3>3, <3>4
  <2> QED
    BY <2>1, <2>2, <2>3
<1>8. ASSUME NEW k \in 1..Len(seqs), m = Len(seqs) \/ \E j \in T : seqs[k] <= p[j]
      PROVE  \E j \in T : p[j] = seqs[k]
  <2>1. k \in 1..m
    <3>1. CASE m = Len(seqs)
      BY <3>1
    <3>2. CASE \E j \in T : seqs[k] <= p[j]
      <4>1. PICK j \in T : seqs[k] <= p[j]
        BY <3>2
      <4>2. j \notin S
        <5>1. ASSUME j \in S PROVE FALSE
          <6>1. p[j] \in Nat /\ p[j] <= old /\ old < seqs[k] /\ seqs[k] \in Nat
            BY <1>1, <1>2, <5>1
          <6> QED
            BY <4>1, <6>1
        <5> QED
          BY <5>1
      <4>3. PICK i \in 1..m : j = Len(q) + i
        BY <1>4, <4>2
      <4>4. i \in 1..Len(seqs) /\ seqs[k] <= seqs[i]
        BY <1>3, <4>1, <4>3
      <4>5. ~(i < k)
        <5>1. i < k => seqs[i] < seqs[k]
          BY <4>4
        <5>2. seqs[i] \in Nat /\ seqs[k] \in Nat
          BY <1>1, <4>4
        <5> QED
          BY <4>4, <5>1, <5>2, SMTT(30)
      <4> QED
        BY <1>1, <4>5
    <3> QED
      BY <1>8, <3>1, <3>2
  <2> QED
    BY <1>3, <2>1
<1> QED
  BY <1>2, <1>5, <1>6, <1>7, <1>8 DEF IsMerged

\* seqs leaves out no event that c wants and that is still in the table.
Covers(c, seqs, low, high) ==
  \A e \in Retained : Wants(c, e) /\ low < e.seq /\ e.seq <= high =>
    \E k \in 1..Len(seqs) : seqs[k] = e.seq

\* The batch reaches a subscriber: seqs is what it wants of the rows between the
\* tailer's old cursor and its new one.
LEMMA OfferedStep ==
  ASSUME Inv, NEW w \in Worker, NEW c \in Client, conn[c].worker = w, conn[c].pc \in Registered,
         NEW last \in Nat, tailer[w].cursor < last,
         tailer'[w].cursor = last, tailer'[w].state # "down",
         NEW seqs \in Seq(Nat),
         Ascends(seqs, 1..Len(seqs), tailer[w].cursor, last),
         Covers(c, seqs, tailer[w].cursor, last),
         conn'[c] = [conn[c] EXCEPT !.sub = Offer(@, seqs)],
         UNCHANGED <<lastSeq, published, trimmed, client>>
  PROVE  /\ conn'[c] \in Connection /\ Len(Queue(c)') <= QueueSize
         /\ ConnIsSound(c)'
<1> DEFINE old == tailer[w].cursor
           sub == conn[c].sub
           new == Offer(sub, seqs)
<1>1. /\ conn[c] \in Connection /\ sub \in Subscriber /\ Len(sub.queue) <= QueueSize
      /\ sub.overflowed \in BOOLEAN /\ conn[c].pc # "offline"
      /\ old \in Nat /\ client[c].cursor \in Nat /\ conn[c].skip \in Nat
      /\ \A e \in Retained : e.seq \in Nat
      /\ \A k \in Slots(c) : Queue(c)[k] \in Nat
      /\ sub.queue \in Seq(Nat \cup {Shutdown})
  BY ConnTypes, TailerTypes DEF Inv, TypeOK, Queue, Retained, Event, Registered
<1>2. /\ new \in Subscriber /\ Len(new.queue) <= QueueSize
      /\ \/ sub.overflowed /\ new = sub
         \/ /\ ~sub.overflowed
            /\ \E m \in 0..Len(seqs) :
                 /\ Len(new.queue) = Len(sub.queue) + m
                 /\ \A k \in 1..Len(sub.queue) : new.queue[k] = sub.queue[k]
                 /\ \A k \in 1..m : new.queue[Len(sub.queue) + k] = seqs[k]
                 /\ new.overflowed \/ m = Len(seqs)
  BY <1>1, OfferFacts
<1>3. conn'[c] = [conn[c] EXCEPT !.sub = new]
  OBVIOUS
<1> HIDE DEF new
<1>4. /\ conn'[c] \in Connection /\ conn'[c].pc = conn[c].pc
      /\ conn'[c].worker = w /\ conn'[c].skip = conn[c].skip
      /\ conn'[c].page = conn[c].page /\ conn'[c].sub = new
  BY <1>1, <1>2, <1>3 DEF Connection
<1>5. /\ Queue(c) = sub.queue /\ Queue(c)' = new.queue
      /\ Home(c) = tailer[w] /\ Home(c)' = tailer'[w]
  BY <1>4 DEF Queue, Home
<1>6. ConnIsSound(c) /\ UNCHANGED <<client, Retained>>
  BY DEF Inv, Retained
<1>7. IsServed(c)' /\ PageIsSound(c)'
  BY <1>4, <1>5, <1>6 DEF ConnIsSound, IsServed, PageIsSound, Wants
<1>8. /\ \A k \in Slots(c) : 0 < Queue(c)[k] /\ Queue(c)[k] <= old
      /\ \A j, k \in Slots(c) : j < k => Queue(c)[j] < Queue(c)[k]
  BY <1>5, <1>6 DEF ConnIsSound, QueueIsOrdered
<1>9. CASE sub.overflowed /\ new = sub
  <2>1. Queue(c)' = Queue(c) /\ Slots(c)' = Slots(c)
    BY <1>5, <1>9 DEF Slots
  <2>2. QueueIsOrdered(c)'
    <3>1. \A k \in Slots(c) : Queue(c)[k] <= last
      BY <1>1, <1>8
    <3> QED
      BY <1>5, <1>8, <2>1, <3>1 DEF QueueIsOrdered
  <2>3. PumpIsSound(c)'
    <3>1. client[c].cursor <= old => client[c].cursor <= last
      BY <1>1
    <3> QED
      BY <1>4, <1>5, <1>6, <2>1, <3>1 DEF ConnIsSound, PumpIsSound
  <2>4. NothingIsLost(c)'
    BY <1>4, <1>5, <1>6, <1>9, <2>1
       DEF ConnIsSound, NothingIsLost, IsDue, IsOffered, IsWaiting, Wants
  <2> QED
    BY <1>2, <1>4, <1>5, <1>7, <2>2, <2>3, <2>4 DEF ConnIsSound
<1>10. ASSUME ~sub.overflowed, NEW m \in 0..Len(seqs),
              Len(new.queue) = Len(sub.queue) + m,
              \A k \in 1..Len(sub.queue) : new.queue[k] = sub.queue[k],
              \A k \in 1..m : new.queue[Len(sub.queue) + k] = seqs[k],
              new.overflowed \/ m = Len(seqs)
       PROVE  ConnIsSound(c)'
  <2>1. SUFFICES ASSUME NEW S, NEW T, S = Slots(c), T = Slots(c)', NEW p, p = Queue(c)',
                        NEW q, q = Queue(c)
                 PROVE  ConnIsSound(c)'
    OBVIOUS
  <2>2. /\ q = sub.queue /\ p = new.queue
        /\ S = Filled(q) /\ T = Filled(p)
    BY <1>5, <2>1 DEF Slots, Filled
  <2>3. /\ \A k \in S : 0 < q[k] /\ q[k] <= old
        /\ \A j, k \in S : j < k => q[j] < q[k]
    BY <1>8, <2>1
  <2>4. /\ \A k \in S : k \in T /\ p[k] = q[k]
        /\ \A k \in T : p[k] \in Nat /\ 0 < p[k] /\ p[k] <= last
        /\ \A k \in T : k \notin S => old < p[k]
        /\ \A j, k \in T : j < k => p[j] < p[k]
        /\ \A k \in 1..Len(seqs) : m = Len(seqs) \/ (\E j \in T : seqs[k] <= p[j]) =>
             \E j \in T : p[j] = seqs[k]
    <3>1. /\ q \in Seq(Nat \cup {Shutdown}) /\ old \in Nat /\ old < last
          /\ IsExtended(q, p, seqs, m)
      BY <1>1, <1>10, <2>2 DEF IsExtended
    <3>2. Ascends(q, S, 0, old) /\ Ascends(seqs, 1..Len(seqs), old, last)
      <4>1. Ascends(q, S, 0, old)
        BY <2>3 DEF Ascends
      <4> QED
        BY <4>1
    <3> HIDE DEF old
    <3>3. /\ IsMerged(q, p, S, T, seqs, m, old)
          /\ Ascends(p, T, 0, last) /\ \A k \in T : p[k] \in Nat
      BY <2>2, <3>1, <3>2, AppendedQueue, SMTT(30)
    <3> QED
      BY <3>3 DEF IsMerged, Ascends
  <2>5. QueueIsOrdered(c)'
    BY <1>5, <2>1, <2>4 DEF QueueIsOrdered
  <2>6. PumpIsSound(c)'
    <3> SUFFICES ASSUME conn[c].pc \in Pumping
                 PROVE  /\ conn[c].skip <= client[c].cursor
                        /\ client[c].cursor = conn[c].skip \/ client[c].cursor <= last
                        /\ \A k \in T : p[k] <= conn[c].skip \/ client[c].cursor < p[k]
      BY <1>4, <1>5, <1>6, <2>1 DEF PumpIsSound
    <3>1. /\ conn[c].skip <= client[c].cursor
          /\ client[c].cursor = conn[c].skip \/ client[c].cursor <= old
          /\ \A k \in S : q[k] <= conn[c].skip \/ client[c].cursor < q[k]
      BY <1>5, <1>6, <2>1 DEF ConnIsSound, PumpIsSound
    <3>2. client[c].cursor = conn[c].skip \/ client[c].cursor <= last
      <4>1. old \in Nat /\ last \in Nat /\ old < last /\ client[c].cursor \in Nat
        BY <1>1
      <4> HIDE DEF old
      <4> QED
        BY <3>1, <4>1
    <3>3. ASSUME NEW k \in T, k \notin S
          PROVE  p[k] <= conn[c].skip \/ client[c].cursor < p[k]
      <4>1. old < p[k] /\ p[k] \in Nat
        BY <2>4, <3>3
      <4>2. old \in Nat /\ conn[c].skip \in Nat /\ client[c].cursor \in Nat
        BY <1>1
      <4>3. CASE client[c].cursor = conn[c].skip
        BY <4>1, <4>2, <4>3, SMTT(30)
      <4>4. CASE client[c].cursor <= old
        BY <4>1, <4>2, <4>4, SMTT(30)
      <4> QED
        BY <3>1, <4>3, <4>4
    <3> QED
      BY <2>4, <3>1, <3>2, <3>3
  <2>7. NothingIsLost(c)'
    <3> SUFFICES ASSUME conn[c].pc \in Pumping \cup {"sendingLast"}, NEW e \in Retained,
                        IsDue(c, e)', IsOffered(c, e)'
                 PROVE  IsWaiting(c, e)'
      BY <1>4, <1>6 DEF NothingIsLost
    <3>1. e.seq \in Nat /\ Wants(c, e)
      BY <1>1 DEF IsDue, Wants
    <3>2. \/ ~new.overflowed /\ e.seq <= last
          \/ \E k \in T : e.seq <= p[k]
      BY <1>4, <1>5, <2>1 DEF IsOffered
    <3>3. CASE e.seq <= old
      <4>1. IsDue(c, e)
        <5>1. CASE client[c].first # 0
          BY <1>6, <5>1 DEF IsDue, Wants
        <5>2. CASE client[c].first = 0
          <6>1. PICK k \in T : p[k] <= e.seq
            BY <1>6, <2>1, <5>2 DEF IsDue
          <6>2. k \in S
            <7>1. p[k] \in Nat
              BY <2>4
            <7>2. ~(old < p[k])
              BY <1>1, <3>1, <3>3, <6>1, <7>1, SMTT(30)
            <7> QED
              BY <2>4, <7>2
          <6>3. q[k] <= e.seq
            BY <2>4, <6>1, <6>2
          <6> QED
            BY <2>1, <3>1, <5>2, <6>2, <6>3 DEF IsDue
        <5> QED
          BY <5>1, <5>2
      <4>2. IsOffered(c, e)
        BY <1>5, <1>10, <3>3 DEF IsOffered
      <4>3. IsWaiting(c, e)
        BY <1>6, <4>1, <4>2 DEF ConnIsSound, NothingIsLost
      <4>4. \/ \E k \in S : q[k] = e.seq
            \/ conn[c].pc = "sendingLast" /\ \E k \in 1..Len(conn[c].page) : conn[c].page[k] = e.seq
        BY <2>1, <4>3 DEF IsWaiting
      <4>5. \/ \E k \in T : p[k] = e.seq
            \/ conn[c].pc = "sendingLast" /\ \E k \in 1..Len(conn[c].page) : conn[c].page[k] = e.seq
        BY <2>4, <4>4
      <4> QED
        BY <1>4, <2>1, <4>5 DEF IsWaiting
    <3>4. CASE ~(e.seq <= old)
      <4>1. old < e.seq /\ e.seq <= last
        <5>1. \A k \in T : p[k] \in Nat /\ p[k] <= last
          BY <2>4
        <5> QED
          BY <1>1, <3>1, <3>2, <3>4, <5>1, SMTT(30)
      <4>2. PICK k \in 1..Len(seqs) : seqs[k] = e.seq
        BY <3>1, <4>1 DEF Covers
      <4>3. m = Len(seqs) \/ \E j \in T : seqs[k] <= p[j]
        BY <1>10, <3>2, <4>2
      <4>4. \E j \in T : p[j] = e.seq
        BY <2>4, <4>2, <4>3
      <4> QED
        BY <2>1, <4>4 DEF IsWaiting
    <3> QED
      BY <3>3, <3>4
  <2> QED
    BY <1>7, <2>5, <2>6, <2>7 DEF ConnIsSound
<1> QED
  BY <1>2, <1>4, <1>5, <1>9, <1>10

\* What a subscriber is offered of the rows a tailer has fetched.
LEMMA WantedFacts ==
  ASSUME Inv, NEW w \in Worker, NEW c \in Client,
         NEW rows, rows = tailer[w].fetched, rows # <<>>,
         NEW list, list \in UpTo(Len(rows), {rows[k] : k \in 1..Len(rows)}),
         IsWanted(list, c, rows)
  PROVE  /\ Seqs(list) \in Seq(Nat)
         /\ Ascends(Seqs(list), 1..Len(Seqs(list)), tailer[w].cursor, rows[Len(rows)].seq)
         /\ Covers(c, Seqs(list), tailer[w].cursor, rows[Len(rows)].seq)
<1>1. /\ rows \in Seq(Event) /\ Len(rows) \in Nat \ {0}
      /\ \A k \in 1..Len(rows) : rows[k] \in Event /\ rows[k].seq \in Nat \ {0}
  BY TailerTypes DEF Inv
<1>2. Len(rows) \in 1..Len(rows) /\ Len(rows) \in Nat
  BY <1>1
<1>3. FetchIsSound(w)
  BY DEF Inv
<1>4. ASSUME NEW k \in 1..Len(rows)
      PROVE  tailer[w].cursor < rows[k].seq /\ rows[k].seq <= rows[Len(rows)].seq
  <2>1. tailer[w].cursor < rows[k].seq
    BY <1>3 DEF FetchIsSound
  <2>2. k < Len(rows) => rows[k].seq < rows[Len(rows)].seq
    BY <1>2, <1>3 DEF FetchIsSound, Ascending
  <2>3. k = Len(rows) \/ k < Len(rows)
    BY <1>2
  <2> QED
    BY <1>1, <1>2, <2>1, <2>2, <2>3, SMTT(30)
<1> DEFINE Row == {rows[k] : k \in 1..Len(rows)}
<1>5. list \in Seq(Row) /\ Len(list) \in Nat
  BY <1>2, UpToType
<1>6. \A k \in 1..Len(list) : \E j \in 1..Len(rows) : list[k] = rows[j]
  <2>1. \A k \in 1..Len(list) : list[k] \in Row
    BY <1>5
  <2> QED
    BY <2>1
<1>7. list \in Seq(Event)
  <2>1. Row \subseteq Event
    BY <1>1
  <2> HIDE DEF Row
  <2> QED
    BY <1>5, <2>1
<1>8. /\ Seqs(list) \in Seq(Nat) /\ Len(Seqs(list)) = Len(list)
      /\ \A k \in 1..Len(list) : Seqs(list)[k] = list[k].seq
  BY <1>7, SeqsType
<1>9. \A k \in 1..Len(list) :
        tailer[w].cursor < list[k].seq /\ list[k].seq <= rows[Len(rows)].seq
  BY <1>4, <1>6
<1>10. \A j, k \in 1..Len(list) : j < k => list[j].seq < list[k].seq
  BY DEF IsWanted, Ascending
<1>11. ASSUME NEW e \in Retained, Wants(c, e), tailer[w].cursor < e.seq,
              e.seq <= rows[Len(rows)].seq
       PROVE  \E k \in 1..Len(list) : list[k].seq = e.seq
  <2>1. PICK j \in 1..Len(rows) : rows[j] = e
    BY <1>2, <1>3, <1>11 DEF FetchIsSound
  <2>2. PICK k \in 1..Len(list) : list[k] = rows[j]
    BY <1>11, <2>1 DEF IsWanted
  <2> QED
    BY <2>1, <2>2
<1> QED
  BY <1>8, <1>9, <1>10, <1>11 DEF Ascends, Covers

LEMMA TailDeliverStep ==
  ASSUME Inv, NEW w \in Worker, TailDeliver(w)
  PROVE  Inv'
<1> DEFINE rows == tailer[w].fetched
           last == rows[Len(rows)].seq
<1>1. /\ rows # <<>> /\ tailer[w].state # "down"
      /\ tailer' = [tailer EXCEPT ![w].cursor = last, ![w].fetched = <<>>]
      /\ UNCHANGED <<lastSeq, published, trimmed, client, faults>>
  BY DEF TailDeliver
<1>2. PICK wanted \in [Subscribers(w) -> UpTo(Len(rows), {rows[k] : k \in 1..Len(rows)})] :
        /\ \A c \in Subscribers(w) : IsWanted(wanted[c], c, rows)
        /\ conn' = [c \in Client |->
                      IF c \in Subscribers(w)
                        THEN [conn[c] EXCEPT !.sub = Offer(@, Seqs(wanted[c]))]
                        ELSE conn[c]]
  BY Zenon DEF TailDeliver
<1>3. /\ rows \in Seq(Event) /\ Len(rows) \in Nat \ {0} /\ Len(rows) \in 1..Len(rows)
      /\ tailer[w].cursor \in Nat
      /\ \A k \in 1..Len(rows) : rows[k].seq \in Nat \ {0}
  BY <1>1, TailerTypes DEF Inv
<1>4. last \in Nat /\ tailer[w].cursor < last /\ last <= lastSeq
  <2>1. FetchIsSound(w) /\ NumbersAreDrawn
    BY DEF Inv
  <2> QED
    BY <1>3, <2>1 DEF FetchIsSound, NumbersAreDrawn
<1>5. /\ tailer' \in [Worker -> Tailer] /\ \A v \in Worker \ {w} : tailer'[v] = tailer[v]
      /\ tailer'[w].cursor = last /\ tailer'[w].fetched = <<>>
      /\ tailer'[w].state # "down"
  <2> HIDE DEF last
  <2> DEFINE r == [tailer[w] EXCEPT !.cursor = last, !.fetched = <<>>]
  <2>1. tailer' = [tailer EXCEPT ![w] = r] /\ tailer \in [Worker -> Tailer]
    BY <1>1 DEF Inv, TypeOK
  <2>2. /\ r \in Tailer /\ r.cursor = last /\ r.fetched = <<>>
        /\ r.state = tailer[w].state
    <3>1. tailer[w] \in Tailer /\ <<>> \in Seq(Event)
      BY <2>1
    <3> QED
      BY <1>4, <3>1 DEF Tailer
  <2> HIDE DEF r
  <2> QED
    BY <1>1, <2>1, <2>2, TailerUpdated
<1>6. FetchIsSound(w)'
  BY <1>5 DEF FetchIsSound, Ascending
<1>7. TableMoves
  BY <1>1 DEF Inv, TypeOK, TableMoves, Retained
<1>8. ASSUME NEW c \in Client
      PROVE  /\ conn'[c] \in Connection /\ Len(Queue(c)') <= QueueSize
             /\ ConnIsSound(c)'
  <2>1. CASE c \in Subscribers(w)
    <3> DEFINE seqs == Seqs(wanted[c])
    <3>1. conn[c].worker = w /\ conn[c].pc \in Registered
      BY <2>1 DEF Subscribers
    <3>2. conn'[c] = [conn[c] EXCEPT !.sub = Offer(@, seqs)]
      BY <1>2, <2>1
    <3>3. /\ wanted[c] \in UpTo(Len(rows), {rows[k] : k \in 1..Len(rows)})
          /\ IsWanted(wanted[c], c, rows)
      BY <1>2, <2>1
    <3>4. /\ seqs \in Seq(Nat)
          /\ Ascends(seqs, 1..Len(seqs), tailer[w].cursor, last)
          /\ Covers(c, seqs, tailer[w].cursor, last)
      BY <1>1, <3>3, WantedFacts
    <3> HIDE DEF seqs, last
    <3> QED
      BY <1>1, <1>4, <1>5, <3>1, <3>2, <3>4, OfferedStep
  <2>2. CASE c \notin Subscribers(w)
    <3>1. conn'[c] = conn[c] /\ client'[c] = client[c]
      BY <1>1, <1>2, <2>2
    <3>2. \A v \in Worker : conn[c].worker = v /\ conn[c].pc # "offline" =>
            /\ tailer'[v].state # "down"
            /\ conn[c].pc \in Registered => tailer'[v].cursor = tailer[v].cursor
      <4> SUFFICES ASSUME NEW v \in Worker, conn[c].worker = v, conn[c].pc # "offline"
                   PROVE  /\ tailer'[v].state # "down"
                          /\ conn[c].pc \in Registered => tailer'[v].cursor = tailer[v].cursor
        OBVIOUS
      <4>1. CASE v = w
        BY <1>5, <2>2, <4>1 DEF Subscribers
      <4>2. CASE v # w
        BY <1>5, <4>2 DEF Inv, ConnIsSound, IsServed, Home
      <4> QED
        BY <4>1, <4>2
    <3> QED
      BY <1>7, <3>1, <3>2, ConnIsKept DEF Inv, TypeOK, Queue
  <2> QED
    BY <2>1, <2>2
<1>9. conn' \in [Client -> Connection]
  <2>1. conn' = [c \in Client |-> conn'[c]]
    BY <1>2
  <2> QED
    BY <1>8, <2>1
<1>10. faults' \in 0..MaxFaults
  BY <1>1 DEF Inv, TypeOK
<1> QED
  BY <1>1, <1>4, <1>5, <1>6, <1>8, <1>9, <1>10, OneTailer

(***************************************************************************)
(* The invariant holds.                                                    *)
(***************************************************************************)
LEMMA InitInv == Init => Inv
<1> SUFFICES ASSUME Init PROVE Inv
  OBVIOUS
<1>1. \A w \in Worker : /\ tailer[w] = [state |-> "running", cursor |-> 0, fetched |-> <<>>]
                        /\ tailer[w] \in Tailer
  BY DEF Init, Started, Tailer
<1>2. \A c \in Client : conn[c] = Offline /\ client[c] = Fresh
  BY DEF Init
<1>3. Fresh \in Memory /\ Fresh.cursor = 0 /\ Fresh.first = 0 /\ Fresh.duplicate = FALSE
  BY DEF Fresh, Memory
<1>4. TypeOK
  <2>1. tailer \in [Worker -> Tailer]
    BY <1>1 DEF Init
  <2>2. conn \in [Client -> Connection] /\ \A c \in Client : Len(conn[c].sub.queue) <= QueueSize
    BY <1>2, OfflineType DEF Init
  <2>3. client \in [Client -> Memory]
    BY <1>3 DEF Init
  <2> QED
    BY <2>1, <2>2, <2>3 DEF Init, TypeOK
<1>5. NumbersAreDrawn
  BY <1>1, <1>2, <1>3 DEF Init, NumbersAreDrawn
<1>6. ASSUME NEW w \in Worker PROVE FetchIsSound(w)
  BY <1>1 DEF FetchIsSound, Ascending
<1>7. ASSUME NEW c \in Client PROVE ConnIsSound(c) /\ ClientIsSound(c)
  <2>1. conn[c].pc \in {"offline"}
    BY <1>2, OfflineType
  <2>2. ConnIsSound(c)
    BY <2>1 DEF ConnIsSound, IsServed, PageIsSound, QueueIsOrdered, PumpIsSound, NothingIsLost,
                Replaying, Sending, Registered, Pumping
  <2>3. ClientIsSound(c)
    BY <1>2, <1>3 DEF ClientIsSound, Passed
  <2> QED
    BY <2>2, <2>3
<1> QED
  BY <1>4, <1>5, <1>6, <1>7 DEF Inv

LEMMA NoStep ==
  ASSUME Inv, UNCHANGED vars
  PROVE  Inv'
<1>1. UNCHANGED <<lastSeq, published, trimmed, tailer, conn, client, faults>>
  BY DEF vars
<1>2. TableMoves
  BY <1>1 DEF Inv, TypeOK, TableMoves, Retained
<1>3. /\ published \subseteq published' /\ trimmed' \subseteq Nat
      /\ \A e \in published' : e.seq <= lastSeq'
      /\ \A e, f \in published' : e.seq = f.seq => e = f
  BY <1>1 DEF Inv, TypeOK, NumbersAreDrawn
<1> QED
  BY <1>1, <1>2, <1>3, TableStep

LEMMA TailStepKeepsInv ==
  ASSUME Inv, NEW w \in Worker, TailStep(w) \/ StartWorker(w)
  PROVE  Inv'
<1>1. lastSeq \in Nat /\ faults \in 0..MaxFaults
  BY DEF Inv, TypeOK
<1>2. ASSUME StartWorker(w) PROVE Inv'
  <2>1. PICK n \in 0..lastSeq : tailer' = [tailer EXCEPT ![w] = Started(n)]
    BY <1>2 DEF StartWorker
  <2>2. Started(n) = [Started(n) EXCEPT !.state = "running"]
    BY DEF Started
  <2>3. n \in Nat /\ n <= lastSeq
    BY <1>1
  <2> QED
    BY <1>1, <1>2, <2>1, <2>2, <2>3, LifeStep DEF StartWorker
<1>3. ASSUME Exit(w) PROVE Inv'
  <2>1. faults' \in 0..MaxFaults
    BY <1>1, <1>3 DEF Exit, Fault
  <2>2. 0 \in Nat /\ 0 <= lastSeq
    BY <1>1
  <2> QED
    BY <1>3, <2>1, <2>2, LifeStep DEF Exit
<1> QED
  BY <1>2, <1>3, TailFetchStep, TailDeliverStep DEF TailStep

LEMMA StreamStepKeepsInv ==
  ASSUME Inv, NEW c \in Client, StreamStep(c) \/ Heartbeat(c)
  PROVE  Inv'
<1>1. faults \in 0..MaxFaults
  BY DEF Inv, TypeOK
<1>2. ASSUME Refuse(c) PROVE Inv'
  BY <1>1, <1>2, CloseStep DEF Refuse
<1>3. ASSUME PumpTop(c) PROVE Inv'
  <2>1. CASE Close(c)
    BY <1>1, <1>3, <2>1, CloseStep DEF PumpTop
  <2>2. CASE conn' = [conn EXCEPT ![c].pc = "getting"]
    BY <1>3, <2>2, PumpLoopStep DEF PumpTop, Pumping
  <2> QED
    BY <1>3, <2>1, <2>2 DEF PumpTop
<1>4. ASSUME Heartbeat(c) PROVE Inv'
  BY <1>4, PumpLoopStep DEF Heartbeat, Pumping
<1> QED
  BY <1>2, <1>3, <1>4, ClientConnectStep, CheckOldestStep, SubscribeStep, ReplayFetchStep,
     ReplaySendStep, PumpGetStep DEF StreamStep

LEMMA FaultsKeepInv ==
  ASSUME Inv, Faults
  PROVE  Inv'
<1>1. lastSeq \in Nat /\ faults \in 0..MaxFaults
  BY DEF Inv, TypeOK
<1>2. ASSUME NEW c \in Client, ConnectionLost(c) PROVE Inv'
  <2>1. faults' \in 0..MaxFaults
    BY <1>1, <1>2 DEF ConnectionLost, Fault
  <2> QED
    BY <1>2, <2>1, CloseStep DEF ConnectionLost
<1>3. ASSUME NEW w \in Worker, Exit(w) PROVE Inv'
  <2>1. faults' \in 0..MaxFaults
    BY <1>1, <1>3 DEF Exit, Fault
  <2>2. 0 \in Nat /\ 0 <= lastSeq
    BY <1>1
  <2> QED
    BY <1>3, <2>1, <2>2, LifeStep DEF Exit
<1> QED
  BY <1>2, <1>3, ShutDownStep DEF Faults

LEMMA InvStep == Inv /\ [Next]_vars => Inv'
<1> SUFFICES ASSUME Inv, [Next]_vars PROVE Inv'
  OBVIOUS
<1>1. CASE Environment
  BY <1>1, EnvironmentStep
<1>2. CASE \E w \in Worker : TailStep(w) \/ StartWorker(w)
  BY <1>2, TailStepKeepsInv
<1>3. CASE \E c \in Client : StreamStep(c) \/ Heartbeat(c)
  BY <1>3, StreamStepKeepsInv
<1>4. CASE Faults
  BY <1>4, FaultsKeepInv
<1>5. CASE UNCHANGED vars
  BY <1>5, NoStep
<1> QED
  BY <1>1, <1>2, <1>3, <1>4, <1>5 DEF Next

\* The whole invariant: what the tailers hold, what the queues and the pages of
\* the replay hold, and what the clients remember fit together.
THEOREM InvHolds == Spec => []Inv
<1> QED
  BY InitInv, InvStep, PTL DEF Spec

(***************************************************************************)
(* The properties.                                                         *)
(***************************************************************************)
\* The state of StreamHub, of the tailers, of the endpoints and of the clients
\* is what TypeOK says; no queue is longer than its maxsize.
THEOREM TypeCorrect == Spec => []TypeOK
<1>1. Inv => TypeOK
  BY DEF Inv
<1> QED
  BY <1>1, InvHolds, PTL

\* A client's cursor never passes an event of the table that it wants and has
\* not processed: not between pages, nor at the switch from the replay to the
\* queue, nor after overflows, lost connections, restarts and other workers.
THEOREM NoEventIsSkipped == Spec => []NothingRetainedIsSkipped
<1>1. Inv => NothingRetainedIsSkipped
  BY DEF Inv, ClientIsSound, NothingRetainedIsSkipped
<1> QED
  BY <1>1, InvHolds, PTL

\* On a connection, and from one to the next, the numbers sent to a client ascend.
THEOREM NoEventIsRepeated == Spec => []NeverSentTwice
<1>1. Inv => NeverSentTwice
  BY DEF Inv, ClientIsSound, NeverSentTwice
<1> QED
  BY <1>1, InvHolds, PTL

\* What the tailer has passed and a pump has not sent waits in the queue.
THEOREM QueueIsComplete == Spec => []QueueHasNoGap
<1>1. ASSUME Inv PROVE QueueHasNoGap
  <2> SUFFICES ASSUME NEW c \in Client, NEW e \in Retained,
                      conn[c].pc \in {"pumping", "getting"}, ~conn[c].sub.overflowed,
                      client[c].first # 0, client[c].cursor < e.seq, Wants(c, e),
                      e.seq <= tailer[conn[c].worker].cursor
               PROVE  \E k \in 1..Len(conn[c].sub.queue) : conn[c].sub.queue[k] = e.seq
    BY DEF QueueHasNoGap
  <2>1. IsDue(c, e) /\ IsOffered(c, e)
    BY DEF IsDue, IsOffered, Home
  <2>2. IsWaiting(c, e)
    BY <1>1, <2>1 DEF Inv, ConnIsSound, NothingIsLost, Pumping
  <2> QED
    BY <2>2 DEF IsWaiting, Slots, Queue
<1> QED
  BY <1>1, InvHolds, PTL
=============================================================================
