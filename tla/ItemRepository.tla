-------------------------- MODULE ItemRepository --------------------------
(***************************************************************************)
(* The write path: ItemRepository.create, update and delete of             *)
(* app/db/repository.py, as the handlers of app/api/items.py call them, at *)
(* the granularity of one SQL statement.                                   *)
(*                                                                         *)
(* A request borrows a connection from the pool, opens a transaction,      *)
(* locks or inserts the item's row, writes it, appends the event to the    *)
(* outbox and commits.  PostgreSQL is external: READ COMMITTED snapshots,  *)
(* row locks held until the end of the transaction, and a sequence for     *)
(* outbox.id that no rollback gives back.                                  *)
(*                                                                         *)
(* A field's value is the request that last wrote it, so that two writes   *)
(* are never confused.                                                     *)
(***************************************************************************)
EXTENDS Integers, FiniteSets

CONSTANTS
  Item,      \* the UUIDs gen_random_uuid() may draw
  Request,   \* the HTTP requests clients send, each sent once
  Field,     \* the writable columns of items
  PoolSize,  \* db_pool_max_size
  Named,     \* bound: the versions that clients name, of all that are ge=1
  None       \* SQL NULL, an absent row, "no answer yet"

ASSUME RepositoryAssumption ==
  /\ IsFiniteSet(Request) /\ IsFiniteSet(Item)
  /\ Field # {}
  /\ PoolSize \in Nat \ {0}
  /\ Named \subseteq Nat \ {0}
  /\ None \notin Item /\ None \notin Request

VARIABLES
  items,    \* items[i]: committed row of item i, or None
  holder,   \* holder[i]: request whose transaction holds i's row lock
  outbox,   \* committed rows of the outbox
  lastId,   \* last value drawn from the sequence of outbox.id
  drawn,    \* UUIDs already drawn, by rolled-back inserts too
  call,     \* call[r]: the operation r asks for and its arguments
  pc,       \* pc[r]: the last thing the handler of r did
  newRow,   \* newRow[r]: the item's row as r's open transaction sees it
  event,    \* event[r]: the outbox row r's open transaction inserted
  reply     \* reply[r]: the answer to r

vars == <<items, holder, outbox, lastId, drawn, call, pc, newRow, event, reply>>

Row   == [version : Nat \ {0}, data : [Field -> Request]]
Type  == {"item.created", "item.updated", "item.deleted"}
Event == [id : Nat \ {0}, item : Item, type : Type, payload : Row]

Expected == (Nat \ {0}) \cup {None}

\* expected is ge=1 or absent; a PATCH names at least one field, a POST all.
Call ==
  [op : {"create"}, item : Item \cup {None}, fields : {Field}, expected : {None}]
    \cup
  [op : {"update"}, item : Item, fields : (SUBSET Field) \ {{}},
   expected : Expected]
    \cup
  [op : {"delete"}, item : Item, fields : {{}},
   expected : Expected]

InTransaction == {"begun", "locked", "written", "logged"}
PC            == {"idle", "queued", "done"} \cup InTransaction
OK            == {"201", "200", "204"}

\* The status code and the event_id, 0 when the answer has none.
Reply == [code : OK \cup {"404", "409", "error"}, event : Nat]

\* NULL is no value: a row, an event, a call or an answer is never None.
ASSUME NullAssumption == None \notin Row \cup Event \cup Call \cup Reply \cup Nat

\* Mutant: a connection is not given back.
BorrowersMutant == {r \in Request : pc[r] \in InTransaction \cup {"done"}}

\* Requests that hold one of the pool's connections.
Borrowers == {r \in Request : pc[r] \in InTransaction}

TypeOK ==
  /\ items \in [Item -> Row \cup {None}]
  /\ holder \in [Item -> Request \cup {None}]
  /\ outbox \subseteq Event
  /\ lastId \in Nat
  /\ drawn \subseteq Item
  /\ call \in [Request -> Call \cup {None}]
  /\ pc \in [Request -> PC]
  /\ newRow \in [Request -> Row \cup {None}]
  /\ event \in [Request -> Event \cup {None}]
  /\ reply \in [Request -> Reply \cup {None}]

Init ==
  /\ items = [i \in Item |-> None]
  /\ holder = [i \in Item |-> None]
  /\ outbox = {}
  /\ lastId = 0
  /\ drawn = {}
  /\ call = [r \in Request |-> None]
  /\ pc = [r \in Request |-> "idle"]
  /\ newRow = [r \in Request |-> None]
  /\ event = [r \in Request |-> None]
  /\ reply = [r \in Request |-> None]

----------------------------------------------------------------------------
(***************************************************************************)
(* Arrival of a request and the pool.                                      *)
(***************************************************************************)
Creations == {r \in Request : call[r] # None /\ call[r].op = "create"}

\* Bound: as many creations as Item has UUIDs, which in the program never run out.
Submit(r, c) ==
  /\ pc[r] = "idle"
  /\ c.op = "create" => Cardinality(Creations) < Cardinality(Item)
  /\ call' = [call EXCEPT ![r] = c]
  /\ pc' = [pc EXCEPT ![r] = "queued"]
  /\ UNCHANGED <<items, holder, outbox, lastId, drawn, newRow, event, reply>>

\* pool.acquire() waits for a free connection; then BEGIN.
Acquire(r) ==
  /\ pc[r] = "queued"
  /\ Cardinality(Borrowers) < PoolSize
  /\ pc' = [pc EXCEPT ![r] = "begun"]
  /\ UNCHANGED <<items, holder, outbox, lastId, drawn, call, newRow, event, reply>>

(***************************************************************************)
(* How a transaction ends.  Either way the row locks are released, the     *)
(* connection returns to the pool and the answer is sent.                  *)
(***************************************************************************)
Release(r) == [i \in Item |-> IF holder[i] = r THEN None ELSE holder[i]]

Answer(r, code, id) ==
  /\ pc' = [pc EXCEPT ![r] = "done"]
  /\ reply' = [reply EXCEPT ![r] = [code |-> code, event |-> id]]
  /\ holder' = Release(r)
  /\ newRow' = [newRow EXCEPT ![r] = None]
  /\ event' = [event EXCEPT ![r] = None]
  /\ UNCHANGED <<lastId, drawn, call>>

\* Mutant: the event is written outside the transaction and stays.
RollbackMutant(r, code) ==
  /\ Answer(r, code, 0)
  /\ outbox' = outbox \cup ({event[r]} \ {None})
  /\ UNCHANGED items

Rollback(r, code) ==
  /\ Answer(r, code, 0)
  /\ UNCHANGED <<items, outbox>>

(***************************************************************************)
(* The statements.                                                         *)
(***************************************************************************)
\* INSERT INTO items ... RETURNING: a fresh UUID, version 1.
InsertItem(r) ==
  /\ pc[r] = "begun"
  /\ call[r].op = "create"
  /\ \E i \in Item \ drawn :
       /\ drawn' = drawn \cup {i}
       /\ call' = [call EXCEPT ![r].item = i]
       /\ holder' = [holder EXCEPT ![i] = r]
  /\ newRow' = [newRow EXCEPT ![r] = [version |-> 1, data |-> [f \in Field |-> r]]]
  /\ pc' = [pc EXCEPT ![r] = "written"]
  /\ UNCHANGED <<items, outbox, lastId, event, reply>>

\* SELECT ... FOR UPDATE waits for the row lock, then reads the row as
\* committed by its last holder.  Another's uncommitted insert is invisible.
Visible(r) == items[call[r].item]

\* Mutant: a SELECT without FOR UPDATE.
FreeOrInvisibleMutant(r) == TRUE

FreeOrInvisible(r) == holder[call[r].item] = None \/ Visible(r) = None

\* Mutant: only a version from the future is refused.
ConflictMutant(r) ==
  call[r].expected # None /\ Visible(r).version < call[r].expected

Conflict(r) == call[r].expected # None /\ Visible(r).version # call[r].expected

SelectForUpdate(r) ==
  /\ pc[r] = "begun"
  /\ call[r].op \in {"update", "delete"}
  /\ FreeOrInvisible(r)
  /\ \/ /\ Visible(r) = None
        /\ Rollback(r, "404")
     \/ /\ Visible(r) # None
        /\ Conflict(r)
        /\ Rollback(r, "409")
     \/ /\ Visible(r) # None
        /\ ~Conflict(r)
        /\ holder' = [holder EXCEPT ![call[r].item] = r]
        /\ pc' = [pc EXCEPT ![r] = "locked"]
        /\ UNCHANGED <<items, outbox, lastId, drawn, call, newRow, event, reply>>

\* Mutant: a column the PATCH leaves out is written all the same.
PatchedMutant(row, fields, r) ==
  [version |-> row.version + 1, data |-> [f \in Field |-> r]]

\* COALESCE($n, column): a field the PATCH leaves out keeps its value.
Patched(row, fields, r) ==
  [version |-> row.version + 1,
   data    |-> [f \in Field |-> IF f \in fields THEN r ELSE row.data[f]]]

UpdateRow(r) ==
  /\ pc[r] = "locked"
  /\ call[r].op = "update"
  /\ newRow' = [newRow EXCEPT ![r] = Patched(Visible(r), call[r].fields, r)]
  /\ pc' = [pc EXCEPT ![r] = "written"]
  /\ UNCHANGED <<items, holder, outbox, lastId, drawn, call, event, reply>>

DeleteRow(r) ==
  /\ pc[r] = "locked"
  /\ call[r].op = "delete"
  /\ newRow' = [newRow EXCEPT ![r] = None]
  /\ pc' = [pc EXCEPT ![r] = "written"]
  /\ UNCHANGED <<items, holder, outbox, lastId, drawn, call, event, reply>>

\* _append_event: a delete's payload is the row as it was, any other's is the
\* row as written.
EventType(op) == CASE op = "create" -> "item.created"
                   [] op = "update" -> "item.updated"
                   [] op = "delete" -> "item.deleted"

\* Mutant: a deletion's payload is the row after the DELETE.
PayloadMutant(r) == newRow[r]

Payload(r) == IF call[r].op = "delete" THEN Visible(r) ELSE newRow[r]

AppendEvent(r) ==
  /\ pc[r] = "written"
  /\ lastId' = lastId + 1
  /\ event' = [event EXCEPT ![r] =
                 [id   |-> lastId + 1, item |-> call[r].item,
                  type |-> EventType(call[r].op), payload |-> Payload(r)]]
  /\ pc' = [pc EXCEPT ![r] = "logged"]
  /\ UNCHANGED <<items, holder, outbox, drawn, call, newRow, reply>>

\* COMMIT makes the row and the event visible in one step.
Durable(r) ==
  /\ items' = [items EXCEPT ![call[r].item] = newRow[r]]
  /\ outbox' = outbox \cup {event[r]}

Success(op) == CASE op = "create" -> "201"
                 [] op = "update" -> "200"
                 [] op = "delete" -> "204"

\* Mutant: the answer is sent before the COMMIT, which may still fail.
CommitMutant(r) ==
  /\ pc[r] = "logged"
  /\ Durable(r) \/ UNCHANGED <<items, outbox>>
  /\ Answer(r, Success(call[r].op), event[r].id)

Commit(r) ==
  /\ pc[r] = "logged"
  /\ Durable(r)
  /\ Answer(r, Success(call[r].op), event[r].id)

(***************************************************************************)
(* Faults: an error, a timeout or a crash before the COMMIT rolls back; a  *)
(* COMMIT may also succeed and its acknowledgement never arrive.           *)
(***************************************************************************)
Fail(r) ==
  /\ pc[r] \in {"queued"} \cup InTransaction
  /\ Rollback(r, "error")

CommitUnacknowledged(r) ==
  /\ pc[r] = "logged"
  /\ Durable(r)
  /\ Answer(r, "error", 0)

(***************************************************************************)
(* GET /outbox?aggregate_id=i&after_id=after&limit=limit, which changes    *)
(* nothing: OutboxRepository.list_events.                                  *)
(***************************************************************************)
\* Mutant: the filter is dropped.
ListEventsMutant(i, after, limit) ==
  {e \in outbox : e.id > after
     /\ Cardinality({f \in outbox : after < f.id /\ f.id <= e.id}) <= limit}

ListEvents(i, after, limit) ==
  LET next == {e \in outbox : e.item = i /\ e.id > after}
  IN  {e \in next : Cardinality({f \in next : f.id <= e.id}) <= limit}

----------------------------------------------------------------------------
Statement(r) ==
  \/ InsertItem(r)
  \/ SelectForUpdate(r)
  \/ UpdateRow(r)
  \/ DeleteRow(r)
  \/ AppendEvent(r)
  \/ Commit(r)

\* Every request has been answered: the program may stop here and only here.
AllAnswered ==
  /\ \A r \in Request : pc[r] = "done"
  /\ UNCHANGED vars

Versions == Named \cup {None}

Calls ==
  [op : {"create"}, item : {None}, fields : {Field}, expected : {None}]
    \cup
  [op : {"update"}, item : Item, fields : (SUBSET Field) \ {{}},
   expected : Versions]
    \cup
  [op : {"delete"}, item : Item, fields : {{}}, expected : Versions]

Next ==
  \/ \E r \in Request :
       \/ \E c \in Calls : Submit(r, c)
       \/ Acquire(r)
       \/ Statement(r)
       \/ Fail(r)
       \/ CommitUnacknowledged(r)
  \/ AllAnswered

Spec == Init /\ [][Next]_vars

(***************************************************************************)
(* Clients and faults owe nothing.  The event loop runs every handler that *)
(* can run, the pool hands out a free connection and PostgreSQL a free     *)
(* lock; each request runs once, so weak fairness is all that is needed.   *)
(***************************************************************************)
Fairness ==
  \A r \in Request : WF_vars(Acquire(r)) /\ WF_vars(Statement(r))

FairSpec == Spec /\ Fairness

----------------------------------------------------------------------------
(***************************************************************************)
(* Properties.                                                             *)
(***************************************************************************)
History(i) == {e \in outbox : e.item = i}

Latest(e) == \A f \in History(e.item) : f.id <= e.id

\* "No event without committed data, no committed change without an event":
\* replaying an item's events in id order yields exactly the committed row,
\* every column of it, and no row once the last event is a deletion.
TableMatchesOutbox ==
  /\ \A i \in Item : items[i] # None => History(i) # {}
  /\ \A e \in outbox : Latest(e) =>
       items[e.item] = IF e.type = "item.deleted" THEN None ELSE e.payload

\* Adjacent events of one item, in id order.
Successive(e, f) ==
  /\ e.item = f.item /\ e.id < f.id
  /\ \A g \in History(e.item) : g.id <= e.id \/ f.id <= g.id

\* Ordering within an entity (README, "Consistency guarantees"): the first
\* event of an item is its creation at version 1, each update is one version
\* above its predecessor and keeps the columns its PATCH left out, a deletion
\* repeats its predecessor's row, and nothing follows a deletion.
EntityHistory ==
  /\ \A e \in outbox :
       (\A f \in History(e.item) : e.id <= f.id) <=> e.type = "item.created"
  /\ \A e \in outbox : e.type = "item.created" => e.payload.version = 1
  /\ \A e, f \in outbox : Successive(e, f) =>
       /\ e.type # "item.deleted"
       /\ \/ /\ f.type = "item.updated"
             /\ f.payload.version = e.payload.version + 1
             /\ \E r \in Request : call[r] # None /\ \A g \in Field :
                  f.payload.data[g] = IF g \in call[r].fields THEN r ELSE e.payload.data[g]
          \/ f.type = "item.deleted" /\ f.payload = e.payload

Answered(r, codes) == reply[r] # None /\ reply[r].code \in codes

\* Event e is what request r asked for, and the step that makes it visible is the
\* step in which the items table takes its row, at the version r has named.
Writes(r, e) ==
  /\ e \notin outbox /\ outbox' = outbox \cup {e}
  /\ e.item = call[r].item /\ e.type = EventType(call[r].op)
  /\ \A f \in call[r].fields : e.payload.data[f] = r
  /\ e.type = "item.deleted" => e.payload = items[e.item]
  /\ items' = [items EXCEPT ![e.item] =
                 IF e.type = "item.deleted" THEN None ELSE e.payload]
  /\ call[r].expected # None =>
       /\ items[e.item] # None
       /\ items[e.item].version = call[r].expected

\* What an answer says of the two tables.  They change only in the step that
\* answers a request, which a request has once.  A success is the whole write, row
\* and event, of a row that was at the COMMIT, not only at the SELECT, what the
\* request thought it was, and names that event; after a 404 or a 409 there is
\* nothing of the request, a deletion included; an "error", which is also what a
\* lost acknowledgement of the COMMIT looks like, is the whole write or nothing.
AnswersAreTruthful ==
  [][/\ reply' = reply => UNCHANGED <<items, outbox>>
     /\ \A r \in Request : reply'[r] # reply[r] =>
          /\ reply[r] = None
          /\ \/ /\ reply'[r].code \in {"404", "409", "error"}
                /\ UNCHANGED <<items, outbox>>
             \/ \E e \in outbox' :
                  /\ Writes(r, e)
                  /\ \/ reply'[r] = [code |-> Success(call[r].op), event |-> e.id]
                     \/ reply'[r].code = "error"]_vars

\* Optimistic locking (tests/test_concurrency.py, "exactly one writer wins"):
\* of the requests that named the same version of an item, one succeeds.
OneWinnerPerVersion ==
  \A r, s \in Request :
    /\ Answered(r, OK) /\ Answered(s, OK)
    /\ call[r].item = call[s].item
    /\ call[r].expected = call[s].expected /\ call[r].expected # None
    => r = s

(***************************************************************************)
(* What the outbox shows to the publishers: the rows inserted but not yet  *)
(* committed, and the committed ones.                                      *)
(***************************************************************************)
Entry(e) == [id |-> e.id, item |-> e.item]

Table == INSTANCE OutboxTable WITH
           lastId    <- lastId,
           open      <- {Entry(event[r]) : r \in {q \in Request : pc[q] = "logged"}},
           committed <- {Entry(e) : e \in outbox}

\* The write path implements OutboxTable: whatever the interleaving, no two
\* transactions have an open event for one item, and a row becomes visible
\* whole, once, by its commit.
ImplementsOutboxTable == Table!OutboxSpec

\* Ids are no cursor for the whole outbox, but they are for one entity: a full
\* page of its events stays what it was and a short one grows only at its end, so
\* who reads GET /outbox?aggregate_id= page by page, at whatever moments, misses
\* nothing but what retention deletes.
EntityPagesAreFinal ==
  [][\A i \in Item, after \in 0..lastId, limit \in 1..2 :
       LET page  == ListEvents(i, after, limit)
           later == ListEvents(i, after, limit)'
       IN  /\ page \subseteq later
           /\ Cardinality(page) = limit => later = page
           /\ \A e \in page, f \in later \ page : e.id < f.id]_vars

\* Once submitted, a request is answered: writers that wait for a connection
\* or for a row lock never wait on each other in a circle.
EveryRequestIsAnswered ==
  \A r \in Request : pc[r] = "queued" ~> pc[r] = "done"
============================================================================
