----------------------- MODULE ItemRepository_proofs -----------------------
(***************************************************************************)
(* Proofs about ItemRepository, for any number of requests, items and      *)
(* columns and any size of the pool.                                       *)
(***************************************************************************)
EXTENDS ItemRepository, FiniteSetTheorems, TLAPS

USE RepositoryAssumption, NullAssumption

(***************************************************************************)
(* The invariant.                                                          *)
(***************************************************************************)
\* Between taking the lock of its item's row and the end of its transaction.
Holding(r) == pc[r] \in {"locked", "written", "logged"}

\* A handler has its call from the submission on, an answer at its end, a row and
\* an event only within its transaction.
HandlersAgree ==
  \A r \in Request :
    /\ call[r] = None <=> pc[r] = "idle"
    /\ reply[r] # None <=> pc[r] = "done"
    /\ event[r] # None <=> pc[r] = "logged"
    /\ newRow[r] # None => Holding(r)

\* A row lock is held by the one transaction that writes the item, and only rows
\* that exist or are being inserted are locked.
LocksAreExclusive ==
  /\ \A i \in Item : holder[i] # None =>
       i \in drawn /\ Holding(holder[i]) /\ call[holder[i]].item = i
  /\ \A r \in Request : Holding(r) =>
       call[r].item \in Item /\ holder[call[r].item] = r

\* Ids: unique, drawn from the sequence, and an open event is younger than every
\* committed event of its item.
IdsAreOrdered ==
  /\ \A e, f \in outbox : e.id = f.id => e = f
  /\ \A e \in outbox : e.id <= lastId
  /\ \A r \in Request : pc[r] = "logged" =>
       /\ event[r].id <= lastId
       /\ \A e \in outbox :
            e.id # event[r].id /\ (e.item = event[r].item => e.id < event[r].id)
       /\ \A s \in Request :
            pc[s] = "logged" /\ event[s].id = event[r].id => s = r

\* What a transaction that holds the row knows: a creation is the first write of
\* its item, any other finds the row it has locked, at the version it asked for,
\* until it commits; what it writes and logs follows from that row.
WriteIsCurrent(r) ==
  /\ call[r].op = "create" =>
       /\ pc[r] # "locked"
       /\ items[call[r].item] = None /\ History(call[r].item) = {}
       /\ newRow[r] = [version |-> 1, data |-> [f \in Field |-> r]]
  /\ call[r].op # "create" => Visible(r) # None /\ ~Conflict(r)
  /\ call[r].op = "update" /\ pc[r] # "locked" =>
       newRow[r] = Patched(Visible(r), call[r].fields, r)
  /\ call[r].op = "delete" => newRow[r] = None
  /\ pc[r] = "logged" =>
       /\ event[r].item = call[r].item
       /\ event[r].type = EventType(call[r].op)
       /\ event[r].payload = Payload(r)

WritesAreCurrent == \A r \in Request : Holding(r) => WriteIsCurrent(r)

\* A UUID is never drawn again, so an item that is gone never comes back.
DrawnOnce ==
  /\ \A i \in Item : items[i] # None => i \in drawn
  /\ \A e \in outbox : e.item \in drawn

\* A request that has succeeded has an event of its item in the outbox.
SuccessIsLogged ==
  \A r \in Request : Answered(r, OK) => \E e \in outbox : e.item = call[r].item

\* The version a successful request has named is gone for good.
VersionIsSpent ==
  \A r \in Request : Answered(r, OK) /\ call[r].expected # None =>
    /\ call[r].item \in Item
    /\ items[call[r].item] = None \/ items[call[r].item].version > call[r].expected

Inv ==
  /\ TypeOK
  /\ IsFiniteSet(outbox)
  /\ HandlersAgree
  /\ LocksAreExclusive
  /\ IdsAreOrdered
  /\ WritesAreCurrent
  /\ DrawnOnce
  /\ TableMatchesOutbox
  /\ EntityHistory
  /\ SuccessIsLogged
  /\ VersionIsSpent
  /\ OneWinnerPerVersion

(***************************************************************************)
(* Types.                                                                  *)
(***************************************************************************)
\* The arguments of a call (Create, Update, DeleteItem of app/api/items.py).
LEMMA CallType ==
  ASSUME NEW c \in Call
  PROVE  /\ c.op \in {"create", "update", "delete"}
         /\ c.item \in Item \cup {None}
         /\ c.op # "create" => c.item \in Item
         /\ c.fields \in SUBSET Field
         /\ c.expected \in Expected
         /\ c.op = "create" => c.fields = Field /\ c.expected = None
BY DEF Call, Expected

\* What requests may ask for in a run are calls of the program.
LEMMA CallsAreCalls == Calls \subseteq Call
<1>1. Versions \subseteq Expected
  BY DEF Versions, Expected
<1> QED
  BY <1>1 DEF Calls, Call

LEMMA PatchedType ==
  ASSUME NEW row \in Row, NEW fields \in SUBSET Field, NEW r \in Request
  PROVE  Patched(row, fields, r) \in Row
<1>1. row.version + 1 \in Nat \ {0} /\ row.data \in [Field -> Request]
  BY DEF Row
<1> QED
  BY <1>1 DEF Patched, Row

LEMMA PayloadType ==
  ASSUME TypeOK, WritesAreCurrent, NEW r \in Request, pc[r] = "written",
         call[r] \in Call, call[r].item \in Item
  PROVE  Payload(r) \in Row
<1>1. WriteIsCurrent(r) /\ Visible(r) \in Row \cup {None}
  BY DEF WritesAreCurrent, Holding, TypeOK, Visible
<1>2. CASE call[r].op = "create"
  <2>1. [version |-> 1, data |-> [f \in Field |-> r]] \in Row
    BY DEF Row
  <2> QED
    BY <1>1, <1>2, <2>1 DEF WriteIsCurrent, Payload
<1>3. CASE call[r].op = "update"
  BY <1>1, <1>3, PatchedType, CallType DEF WriteIsCurrent, Payload
<1>4. CASE call[r].op = "delete"
  BY <1>1, <1>4 DEF WriteIsCurrent, Payload
<1> QED
  BY <1>2, <1>3, <1>4, CallType

\* The end of a transaction, whatever it did to the tables.
LEMMA AnswerType ==
  ASSUME TypeOK, NEW r \in Request, NEW code \in OK \cup {"404", "409", "error"},
         NEW id \in Nat, Answer(r, code, id),
         items' \in [Item -> Row \cup {None}], outbox' \subseteq Event
  PROVE  TypeOK'
<1>1. [code |-> code, event |-> id] \in Reply
  BY DEF Reply
<1>2. Release(r) \in [Item -> Request \cup {None}]
  BY DEF Release, TypeOK
<1>3. "done" \in PC
  BY DEF PC
<1> QED
  BY <1>1, <1>2, <1>3 DEF TypeOK, Answer

LEMMA RollbackType ==
  ASSUME TypeOK, NEW r \in Request, NEW code \in {"404", "409", "error"},
         Rollback(r, code)
  PROVE  TypeOK'
BY AnswerType DEF Rollback, TypeOK, OK

\* The row and the event that a COMMIT makes durable.
LEMMA DurableType ==
  ASSUME TypeOK, HandlersAgree, LocksAreExclusive, NEW r \in Request, pc[r] = "logged",
         Durable(r)
  PROVE  items' \in [Item -> Row \cup {None}] /\ outbox' \subseteq Event
<1>1. event[r] \in Event
  BY DEF TypeOK, HandlersAgree
<1>2. newRow[r] \in Row \cup {None}
  BY DEF TypeOK
<1> QED
  BY <1>1, <1>2 DEF TypeOK, Durable

LEMMA SuccessType ==
  ASSUME NEW op \in {"create", "update", "delete"}
  PROVE  Success(op) \in OK
BY DEF Success, OK

LEMMA EventTypeType ==
  ASSUME NEW op \in {"create", "update", "delete"}
  PROVE  /\ EventType(op) \in Type
         /\ EventType(op) = "item.created" <=> op = "create"
         /\ EventType(op) = "item.updated" <=> op = "update"
         /\ EventType(op) = "item.deleted" <=> op = "delete"
BY DEF EventType, Type

\* A handler past the submission has a call.
LEMMA HasCall ==
  ASSUME TypeOK, HandlersAgree, NEW r \in Request, pc[r] # "idle"
  PROVE  call[r] \in Call
BY DEF TypeOK, HandlersAgree

\* The UUID of a creation is filled in.
LEMMA InsertedCall ==
  ASSUME TypeOK, HandlersAgree, NEW r \in Request, InsertItem(r)
  PROVE  \E i \in Item \ drawn :
           /\ drawn' = drawn \cup {i}
           /\ holder' = [holder EXCEPT ![i] = r]
           /\ call' = [call EXCEPT ![r] = [@ EXCEPT !.item = i]]
           /\ call'[r] \in Call /\ call'[r].op = "create" /\ call'[r].item = i
           /\ call'[r].fields = call[r].fields
           /\ call'[r].expected = call[r].expected
<1>1. PICK i \in Item \ drawn :
        /\ drawn' = drawn \cup {i}
        /\ call' = [call EXCEPT ![r].item = i]
        /\ holder' = [holder EXCEPT ![i] = r]
  BY DEF InsertItem
<1>2. call[r] \in Call /\ call[r].op = "create"
  BY HasCall DEF InsertItem
<1>3. [call[r] EXCEPT !.item = i] \in Call
  BY <1>2, CallType DEF Call
<1>4. call'[r] = [call[r] EXCEPT !.item = i]
  BY <1>1 DEF TypeOK
<1>5. /\ [call[r] EXCEPT !.item = i].op = "create"
      /\ [call[r] EXCEPT !.item = i].item = i
      /\ [call[r] EXCEPT !.item = i].fields = call[r].fields
      /\ [call[r] EXCEPT !.item = i].expected = call[r].expected
  BY <1>2 DEF Call
<1> QED
  BY <1>1, <1>3, <1>4, <1>5

\* The event of a write is one of its item, with the next id.
LEMMA AppendedEvent ==
  ASSUME TypeOK, HandlersAgree, LocksAreExclusive, WritesAreCurrent,
         NEW r \in Request, AppendEvent(r)
  PROVE  /\ event'[r] \in Event
         /\ event'[r].id = lastId + 1 /\ event'[r].item = call[r].item
         /\ event'[r].type = EventType(call[r].op) /\ event'[r].payload = Payload(r)
         /\ \A s \in Request \ {r} : event'[s] = event[s]
         /\ event' \in [Request -> Event \cup {None}]
         /\ lastId' = lastId + 1 /\ lastId \in Nat
         /\ call[r] \in Call /\ call[r].item \in Item
<1>1. call[r] \in Call /\ call[r].item \in Item /\ pc[r] = "written"
  BY HasCall DEF AppendEvent, LocksAreExclusive, Holding
<1>2. Payload(r) \in Row /\ EventType(call[r].op) \in Type
  BY <1>1, PayloadType, EventTypeType, CallType
<1>3. lastId \in Nat /\ lastId + 1 \in Nat \ {0}
  BY DEF TypeOK
<1>4. [id   |-> lastId + 1, item |-> call[r].item,
       type |-> EventType(call[r].op), payload |-> Payload(r)] \in Event
  BY <1>1, <1>2, <1>3 DEF Event
<1> QED
  BY <1>1, <1>3, <1>4 DEF AppendEvent, TypeOK

\* Every variable keeps its type, whatever the handlers and PostgreSQL do.
LEMMA TypeStep ==
  ASSUME TypeOK, HandlersAgree, LocksAreExclusive, IdsAreOrdered, WritesAreCurrent,
         [Next]_vars
  PROVE  TypeOK'
<1>1. ASSUME NEW r \in Request, NEW c \in Calls, Submit(r, c) PROVE TypeOK'
  BY <1>1, CallsAreCalls DEF Submit, TypeOK, PC
<1>2. ASSUME NEW r \in Request, Acquire(r) PROVE TypeOK'
  BY <1>2 DEF Acquire, TypeOK, PC, InTransaction
<1>3. ASSUME NEW r \in Request, InsertItem(r) PROVE TypeOK'
  <2>1. drawn' \subseteq Item /\ holder' \in [Item -> Request \cup {None}]
    BY <1>3, InsertedCall DEF TypeOK
  <2>2. call' \in [Request -> Call \cup {None}]
    BY <1>3, InsertedCall DEF TypeOK
  <2>3. [version |-> 1, data |-> [f \in Field |-> r]] \in Row
    BY DEF Row
  <2> QED
    BY <1>3, <2>1, <2>2, <2>3 DEF InsertItem, TypeOK, PC, InTransaction
<1>4. ASSUME NEW r \in Request, SelectForUpdate(r) PROVE TypeOK'
  <2>1. CASE Rollback(r, "404") \/ Rollback(r, "409")
    BY <2>1, RollbackType
  <2>2. CASE /\ holder' = [holder EXCEPT ![call[r].item] = r]
             /\ pc' = [pc EXCEPT ![r] = "locked"]
             /\ UNCHANGED <<items, outbox, lastId, drawn, call, newRow, event, reply>>
    BY <2>2 DEF TypeOK, PC, InTransaction
  <2> QED
    BY <1>4, <2>1, <2>2 DEF SelectForUpdate
<1>5. ASSUME NEW r \in Request, UpdateRow(r) PROVE TypeOK'
  <2>1. call[r] \in Call /\ call[r].op = "update" /\ pc[r] = "locked"
    BY <1>5, HasCall DEF UpdateRow
  <2>2. Visible(r) \in Row
    BY <2>1, CallType DEF WritesAreCurrent, WriteIsCurrent, Holding, Visible, TypeOK
  <2>3. Patched(Visible(r), call[r].fields, r) \in Row
    BY <2>1, <2>2, CallType, PatchedType
  <2> QED
    BY <1>5, <2>3 DEF UpdateRow, TypeOK, PC, InTransaction
<1>6. ASSUME NEW r \in Request, DeleteRow(r) PROVE TypeOK'
  BY <1>6 DEF DeleteRow, TypeOK, PC, InTransaction
<1>7. ASSUME NEW r \in Request, AppendEvent(r) PROVE TypeOK'
  <2>1. event' \in [Request -> Event \cup {None}] /\ lastId' \in Nat
    BY <1>7, AppendedEvent
  <2> QED
    BY <1>7, <2>1 DEF AppendEvent, TypeOK, PC, InTransaction
<1>8. ASSUME NEW r \in Request, Commit(r) PROVE TypeOK'
  <2>1. call[r].op \in {"create", "update", "delete"}
    BY <1>8, HasCall, CallType DEF Commit
  <2>2. event[r].id \in Nat
    BY <1>8 DEF Commit, TypeOK, HandlersAgree, Event
  <2> QED
    BY <1>8, <2>1, <2>2, SuccessType, DurableType, AnswerType DEF Commit
<1>9. ASSUME NEW r \in Request, CommitUnacknowledged(r) PROVE TypeOK'
  BY <1>9, DurableType, AnswerType DEF CommitUnacknowledged
<1>10. ASSUME NEW r \in Request, Fail(r) PROVE TypeOK'
  BY <1>10, RollbackType DEF Fail
<1>11. CASE AllAnswered \/ UNCHANGED vars
  BY <1>11 DEF AllAnswered, vars, TypeOK
<1> QED
  BY <1>1, <1>2, <1>3, <1>4, <1>5, <1>6, <1>7, <1>8, <1>9, <1>10, <1>11
     DEF Next, Statement

(***************************************************************************)
(* The handlers and the locks.                                             *)
(***************************************************************************)
LEMMA HandlersAgreeStep ==
  ASSUME Inv, [Next]_vars
  PROVE  HandlersAgree'
<1> USE DEF Inv, TypeOK, HandlersAgree, Holding
<1>1. ASSUME NEW r \in Request, NEW c \in Calls, Submit(r, c) PROVE HandlersAgree'
  BY <1>1, CallsAreCalls DEF Submit
<1>2. ASSUME NEW r \in Request, Acquire(r) PROVE HandlersAgree'
  BY <1>2 DEF Acquire
<1>3. ASSUME NEW r \in Request, InsertItem(r) PROVE HandlersAgree'
  <2>1. call'[r] \in Call /\ \A s \in Request \ {r} : call'[s] = call[s]
    BY <1>3, InsertedCall
  <2> QED
    BY <1>3, <2>1 DEF InsertItem
<1>4. ASSUME NEW r \in Request, NEW code \in OK \cup {"404", "409", "error"},
             NEW id \in Nat, Answer(r, code, id), pc[r] # "idle"
      PROVE  HandlersAgree'
  <2>1. [code |-> code, event |-> id] # None
    BY DEF Reply
  <2> QED
    BY <1>4, <2>1 DEF Answer
<1>5. ASSUME NEW r \in Request, SelectForUpdate(r) PROVE HandlersAgree'
  <2>1. CASE Rollback(r, "404") \/ Rollback(r, "409")
    BY <1>4, <1>5, <2>1 DEF SelectForUpdate, Rollback
  <2>2. CASE /\ pc' = [pc EXCEPT ![r] = "locked"]
             /\ UNCHANGED <<call, newRow, event, reply>>
    BY <1>5, <2>2 DEF SelectForUpdate
  <2> QED
    BY <1>5, <2>1, <2>2 DEF SelectForUpdate
<1>6. ASSUME NEW r \in Request, UpdateRow(r) \/ DeleteRow(r) PROVE HandlersAgree'
  BY <1>6 DEF UpdateRow, DeleteRow
<1>7. ASSUME NEW r \in Request, AppendEvent(r) PROVE HandlersAgree'
  <2>1. event'[r] \in Event /\ \A s \in Request \ {r} : event'[s] = event[s]
    BY <1>7, AppendedEvent
  <2> QED
    BY <1>7, <2>1 DEF AppendEvent
<1>8. ASSUME NEW r \in Request, CommitUnacknowledged(r) \/ Fail(r)
      PROVE  HandlersAgree'
  BY <1>4, <1>8 DEF CommitUnacknowledged, Fail, Rollback, InTransaction
<1>10. ASSUME NEW r \in Request, Commit(r) PROVE HandlersAgree'
  <2>1. Success(call[r].op) \in OK /\ event[r].id \in Nat
    BY <1>10, HasCall, CallType, SuccessType DEF Commit, Event
  <2> QED
    BY <1>4, <1>10, <2>1 DEF Commit
<1>9. CASE AllAnswered \/ UNCHANGED vars
  BY <1>9 DEF AllAnswered, vars
<1> QED
  BY <1>1, <1>2, <1>3, <1>5, <1>6, <1>7, <1>8, <1>9, <1>10 DEF Next, Statement

\* A lock is taken only when it is free and given back only by its holder.
LEMMA LocksAreExclusiveStep ==
  ASSUME Inv, [Next]_vars
  PROVE  LocksAreExclusive'
<1> USE DEF Inv, TypeOK, LocksAreExclusive, Holding
<1>1. ASSUME NEW r \in Request, NEW c \in Calls, Submit(r, c) PROVE LocksAreExclusive'
  BY <1>1 DEF Submit
<1>2. ASSUME NEW r \in Request, Acquire(r) PROVE LocksAreExclusive'
  BY <1>2 DEF Acquire
<1>3. ASSUME NEW r \in Request, InsertItem(r) PROVE LocksAreExclusive'
  <2>1. PICK i \in Item \ drawn :
          /\ drawn' = drawn \cup {i} /\ holder' = [holder EXCEPT ![i] = r]
          /\ call'[r].item = i
          /\ \A s \in Request \ {r} : call'[s] = call[s]
    BY <1>3, InsertedCall
  <2>2. holder[i] = None
    BY <2>1
  <2>3. pc[r] = "begun" /\ pc' = [pc EXCEPT ![r] = "written"]
    BY <1>3 DEF InsertItem
  <2> QED
    BY <2>1, <2>2, <2>3
<1>4. ASSUME NEW r \in Request, NEW code, NEW id, Answer(r, code, id)
      PROVE  LocksAreExclusive'
  BY <1>4 DEF Answer, Release
<1>5. ASSUME NEW r \in Request, SelectForUpdate(r) PROVE LocksAreExclusive'
  <2>1. CASE Rollback(r, "404") \/ Rollback(r, "409")
    BY <2>1, <1>4 DEF Rollback
  <2>2. CASE /\ Visible(r) # None
             /\ holder' = [holder EXCEPT ![call[r].item] = r]
             /\ pc' = [pc EXCEPT ![r] = "locked"]
             /\ UNCHANGED <<drawn, call>>
    <3>1. /\ call[r].item \in Item /\ items[call[r].item] # None
          /\ holder[call[r].item] = None /\ pc[r] = "begun"
      BY <1>5, <2>2, HasCall, CallType DEF SelectForUpdate, FreeOrInvisible, Visible
    <3>2. call[r].item \in drawn
      BY <3>1 DEF DrawnOnce
    <3> QED
      BY <2>2, <3>1, <3>2
  <2> QED
    BY <1>5, <2>1, <2>2 DEF SelectForUpdate
<1>6. ASSUME NEW r \in Request, UpdateRow(r) \/ DeleteRow(r) \/ AppendEvent(r)
      PROVE  LocksAreExclusive'
  BY <1>6 DEF UpdateRow, DeleteRow, AppendEvent
<1>7. ASSUME NEW r \in Request, Commit(r) \/ CommitUnacknowledged(r) \/ Fail(r)
      PROVE  LocksAreExclusive'
  BY <1>4, <1>7 DEF Commit, CommitUnacknowledged, Fail, Rollback
<1>8. CASE AllAnswered \/ UNCHANGED vars
  BY <1>8 DEF AllAnswered, vars
<1> QED
  BY <1>1, <1>2, <1>3, <1>5, <1>6, <1>7, <1>8 DEF Next, Statement

LEMMA OneHolder ==
  ASSUME LocksAreExclusive, NEW r \in Request, NEW s \in Request,
         Holding(r), Holding(s), call[r].item = call[s].item
  PROVE  r = s
BY DEF LocksAreExclusive

\* What a step of r leaves alone.
OthersUnchanged(r) ==
  \A s \in Request \ {r} :
    /\ call'[s] = call[s] /\ pc'[s] = pc[s]
    /\ newRow'[s] = newRow[s] /\ event'[s] = event[s] /\ reply'[s] = reply[s]

LEMMA AnswerLeavesOthers ==
  ASSUME TypeOK, NEW r \in Request, NEW code, NEW id, Answer(r, code, id)
  PROVE  /\ OthersUnchanged(r)
         /\ pc'[r] = "done" /\ call'[r] = call[r]
         /\ reply'[r] = [code |-> code, event |-> id]
         /\ UNCHANGED <<lastId, drawn>>
BY DEF Answer, OthersUnchanged, TypeOK

\* What a transaction knows of its item is not disturbed from outside.
LEMMA OthersStayCurrent ==
  ASSUME NEW r \in Request, NEW s \in Request \ {r}, OthersUnchanged(r),
         WriteIsCurrent(s),
         items'[call[s].item] = items[call[s].item],
         {e \in outbox' : e.item = call[s].item} = History(call[s].item)
  PROVE  WriteIsCurrent(s)'
<1>1. /\ call'[s] = call[s] /\ pc'[s] = pc[s]
      /\ newRow'[s] = newRow[s] /\ event'[s] = event[s]
  BY DEF OthersUnchanged
<1>2. Visible(s)' = Visible(s) /\ History(call[s].item)' = History(call[s].item)
  BY <1>1 DEF Visible, History
<1>3. Conflict(s)' = Conflict(s) /\ Payload(s)' = Payload(s)
  BY <1>1, <1>2 DEF Conflict, Payload
<1> QED
  BY <1>1, <1>2, <1>3 DEF WriteIsCurrent

\* A COMMIT writes the row and the event of one item.
LEMMA CommittedWrite ==
  ASSUME Inv, NEW r \in Request, pc[r] = "logged", Durable(r)
  PROVE  /\ event[r] \in Event /\ event[r].item = call[r].item
         /\ call[r] \in Call /\ call[r].item \in Item
         /\ items'[call[r].item] = newRow[r]
         /\ \A i \in Item \ {call[r].item} : items'[i] = items[i]
         /\ outbox' = outbox \cup {event[r]}
         /\ WriteIsCurrent(r)
<1>1. call[r] \in Call /\ call[r].item \in Item
  BY HasCall DEF Inv, LocksAreExclusive, Holding
<1>2. event[r] \in Event
  BY DEF Inv, TypeOK, HandlersAgree
<1>3. WriteIsCurrent(r)
  BY DEF Inv, WritesAreCurrent, Holding
<1> QED
  BY <1>1, <1>2, <1>3 DEF Durable, WriteIsCurrent, Inv, TypeOK

\* Every transaction knows its row until it ends: what it read before it waited
\* for the next statement is still true when it writes.
LEMMA WritesAreCurrentStep ==
  ASSUME Inv, [Next]_vars
  PROVE  WritesAreCurrent'
<1>1. ASSUME NEW r \in Request, OthersUnchanged(r), UNCHANGED <<items, outbox>>,
             Holding(r)' => WriteIsCurrent(r)'
      PROVE  WritesAreCurrent'
  <2>1. ASSUME NEW s \in Request \ {r}, Holding(s)' PROVE WriteIsCurrent(s)'
    <3>1. Holding(s)
      BY <1>1, <2>1 DEF OthersUnchanged, Holding
    <3>2. WriteIsCurrent(s)
      BY <3>1 DEF Inv, WritesAreCurrent
    <3> QED
      BY <1>1, <3>2, OthersStayCurrent DEF History
  <2> QED
    BY <1>1, <2>1 DEF WritesAreCurrent
<1>2. ASSUME NEW r \in Request, NEW c \in Calls, Submit(r, c) PROVE WritesAreCurrent'
  <2>1. OthersUnchanged(r) /\ UNCHANGED <<items, outbox>> /\ ~Holding(r)'
    BY <1>2 DEF Submit, OthersUnchanged, Holding, Inv, TypeOK
  <2> QED
    BY <1>1, <2>1
<1>3. ASSUME NEW r \in Request, Acquire(r) PROVE WritesAreCurrent'
  <2>1. OthersUnchanged(r) /\ UNCHANGED <<items, outbox>> /\ ~Holding(r)'
    BY <1>3 DEF Acquire, OthersUnchanged, Holding, Inv, TypeOK
  <2> QED
    BY <1>1, <2>1
<1>4. ASSUME NEW r \in Request, InsertItem(r) PROVE WritesAreCurrent'
  <2>1. PICK i \in Item \ drawn :
          /\ call' = [call EXCEPT ![r] = [@ EXCEPT !.item = i]]
          /\ call'[r].op = "create" /\ call'[r].item = i
    BY <1>4, InsertedCall DEF Inv
  <2>2. OthersUnchanged(r) /\ UNCHANGED <<items, outbox>>
    BY <1>4, <2>1 DEF InsertItem, OthersUnchanged, Inv, TypeOK
  <2>3. /\ newRow'[r] = [version |-> 1, data |-> [f \in Field |-> r]]
        /\ pc'[r] = "written"
    BY <1>4 DEF InsertItem, Inv, TypeOK
  <2>4. items[i] = None /\ {e \in outbox : e.item = i} = {}
    BY <2>1 DEF Inv, DrawnOnce
  <2>5. WriteIsCurrent(r)'
    BY <2>1, <2>2, <2>3, <2>4 DEF WriteIsCurrent, History
  <2> QED
    BY <1>1, <2>2, <2>5
<1>5. ASSUME NEW r \in Request, NEW code, Rollback(r, code) PROVE WritesAreCurrent'
  <2>1. OthersUnchanged(r) /\ UNCHANGED <<items, outbox>> /\ ~Holding(r)'
    BY <1>5, AnswerLeavesOthers DEF Rollback, Holding, Inv
  <2> QED
    BY <1>1, <2>1
<1>6. ASSUME NEW r \in Request, SelectForUpdate(r) PROVE WritesAreCurrent'
  <2>1. CASE Rollback(r, "404") \/ Rollback(r, "409")
    BY <2>1, <1>5
  <2>2. CASE /\ Visible(r) # None /\ ~Conflict(r)
             /\ pc' = [pc EXCEPT ![r] = "locked"]
             /\ UNCHANGED <<items, outbox, lastId, drawn, call, newRow, event, reply>>
    <3>1. /\ OthersUnchanged(r) /\ UNCHANGED <<items, outbox>>
          /\ pc[r] = "begun" /\ pc'[r] = "locked" /\ call'[r] = call[r]
          /\ newRow'[r] = newRow[r] /\ call[r].op # "create"
      BY <1>6, <2>2 DEF SelectForUpdate, OthersUnchanged, Inv, TypeOK
    <3>2. newRow[r] = None
      BY <3>1 DEF Inv, HandlersAgree, Holding
    <3>3. Visible(r)' # None /\ ~Conflict(r)'
      BY <2>2, <3>1 DEF Visible, Conflict
    <3>4. WriteIsCurrent(r)'
      BY <3>1, <3>2, <3>3 DEF WriteIsCurrent
    <3> QED
      BY <1>1, <3>1, <3>4
  <2> QED
    BY <1>6, <2>1, <2>2 DEF SelectForUpdate
<1>7. ASSUME NEW r \in Request, UpdateRow(r) PROVE WritesAreCurrent'
  <2>1. /\ OthersUnchanged(r) /\ UNCHANGED <<items, outbox>>
        /\ pc[r] = "locked" /\ pc'[r] = "written" /\ call'[r] = call[r]
        /\ newRow'[r] = Patched(Visible(r), call[r].fields, r)
        /\ call[r].op = "update"
    BY <1>7 DEF UpdateRow, OthersUnchanged, Inv, TypeOK
  <2>2. Visible(r) # None /\ ~Conflict(r)
    BY <2>1 DEF Inv, WritesAreCurrent, WriteIsCurrent, Holding
  <2>3. Visible(r)' = Visible(r) /\ (Conflict(r)' <=> Conflict(r))
    BY <2>1 DEF Visible, Conflict
  <2>4. WriteIsCurrent(r)'
    BY <2>1, <2>2, <2>3 DEF WriteIsCurrent
  <2> QED
    BY <1>1, <2>1, <2>4
<1>8. ASSUME NEW r \in Request, DeleteRow(r) PROVE WritesAreCurrent'
  <2>1. /\ OthersUnchanged(r) /\ UNCHANGED <<items, outbox>>
        /\ pc[r] = "locked" /\ pc'[r] = "written" /\ call'[r] = call[r]
        /\ newRow'[r] = None /\ call[r].op = "delete"
    BY <1>8 DEF DeleteRow, OthersUnchanged, Inv, TypeOK
  <2>2. Visible(r) # None /\ ~Conflict(r)
    BY <2>1 DEF Inv, WritesAreCurrent, WriteIsCurrent, Holding
  <2>3. Visible(r)' = Visible(r) /\ (Conflict(r)' <=> Conflict(r))
    BY <2>1 DEF Visible, Conflict
  <2>4. WriteIsCurrent(r)'
    BY <2>1, <2>2, <2>3 DEF WriteIsCurrent
  <2> QED
    BY <1>1, <2>1, <2>4
<1>9. ASSUME NEW r \in Request, AppendEvent(r) PROVE WritesAreCurrent'
  <2>1. /\ OthersUnchanged(r) /\ UNCHANGED <<items, outbox>>
        /\ pc[r] = "written" /\ pc'[r] = "logged" /\ call'[r] = call[r]
        /\ newRow'[r] = newRow[r]
    BY <1>9 DEF AppendEvent, OthersUnchanged, Inv, TypeOK
  <2>2. /\ event'[r].item = call[r].item
        /\ event'[r].type = EventType(call[r].op) /\ event'[r].payload = Payload(r)
    BY <1>9, AppendedEvent DEF Inv
  <2>3. WriteIsCurrent(r)
    BY <2>1 DEF Inv, WritesAreCurrent, Holding
  <2>4. /\ Visible(r)' = Visible(r) /\ (Conflict(r)' <=> Conflict(r))
        /\ Payload(r)' = Payload(r) /\ History(call[r].item)' = History(call[r].item)
    BY <2>1 DEF Visible, Conflict, Payload, History
  <2>5. WriteIsCurrent(r)'
    BY <2>1, <2>2, <2>3, <2>4 DEF WriteIsCurrent
  <2> QED
    BY <1>1, <2>1, <2>5
<1>10. ASSUME NEW r \in Request, Commit(r) \/ CommitUnacknowledged(r)
       PROVE  WritesAreCurrent'
  <2>1. /\ pc[r] = "logged" /\ Durable(r)
        /\ OthersUnchanged(r) /\ pc'[r] = "done"
    BY <1>10, AnswerLeavesOthers DEF Commit, CommitUnacknowledged, Inv
  <2>2. ASSUME NEW s \in Request \ {r}, Holding(s)' PROVE WriteIsCurrent(s)'
    <3>1. Holding(s) /\ Holding(r)
      BY <2>1, <2>2 DEF OthersUnchanged, Holding
    <3>2. WriteIsCurrent(s) /\ call[s].item \in Item /\ call[s].item # call[r].item
      BY <3>1, OneHolder DEF Inv, WritesAreCurrent, LocksAreExclusive
    <3>3. /\ items'[call[s].item] = items[call[s].item]
          /\ {e \in outbox' : e.item = call[s].item} = History(call[s].item)
      BY <2>1, <3>2, CommittedWrite DEF History
    <3> QED
      BY <2>1, <3>2, <3>3, OthersStayCurrent
  <2> QED
    BY <2>1, <2>2 DEF WritesAreCurrent, Holding
<1>11. CASE AllAnswered \/ UNCHANGED vars
  <2>1. UNCHANGED vars
    BY <1>11 DEF AllAnswered
  <2> SUFFICES ASSUME NEW s \in Request, Holding(s)' PROVE WriteIsCurrent(s)'
    BY DEF WritesAreCurrent
  <2>2. WriteIsCurrent(s)
    BY <2>1 DEF vars, Holding, Inv, WritesAreCurrent
  <2>3. /\ Visible(s)' = Visible(s) /\ (Conflict(s)' <=> Conflict(s))
        /\ Payload(s)' = Payload(s) /\ History(call[s].item)' = History(call[s].item)
    BY <2>1 DEF vars, Visible, Conflict, Payload, History
  <2> QED
    BY <2>1, <2>2, <2>3 DEF vars, WriteIsCurrent
<1> QED
  BY <1>2, <1>3, <1>4, <1>5, <1>6, <1>7, <1>8, <1>9, <1>10, <1>11
     DEF Next, Statement, Fail

(***************************************************************************)
(* The ids and the UUIDs.                                                  *)
(***************************************************************************)
\* Only a COMMIT touches the tables, only _append_event draws an id, and who is in
\* a transaction after a step that is no INSERT into the outbox was in it before.
LEMMA WhatStepsChange ==
  ASSUME Inv, [Next]_vars
  PROVE  /\ \/ UNCHANGED <<items, outbox>>
            \/ \E r \in Request : pc[r] = "logged" /\ pc'[r] = "done" /\ Durable(r)
         /\ \/ /\ lastId' = lastId
               /\ \A s \in Request :
                    pc'[s] = "logged" => pc[s] = "logged" /\ event'[s] = event[s]
            \/ /\ UNCHANGED <<items, outbox, holder>>
               /\ \E r \in Request : AppendEvent(r)
         /\ drawn \subseteq drawn'
<1> DEFINE Kept     == /\ lastId' = lastId
                       /\ \A s \in Request : pc'[s] = "logged" =>
                            pc[s] = "logged" /\ event'[s] = event[s]
           Commits  == \E r \in Request : pc[r] = "logged" /\ pc'[r] = "done" /\ Durable(r)
           Appends  == \E r \in Request : AppendEvent(r)
           Same     == UNCHANGED <<items, outbox>>
           Grows    == drawn \subseteq drawn'
<1> USE DEF Inv, TypeOK
<1>1. ASSUME NEW r \in Request, NEW c \in Calls, Submit(r, c)
      PROVE  Same /\ Kept /\ Grows
  BY <1>1 DEF Submit
<1>2. ASSUME NEW r \in Request, Acquire(r) \/ InsertItem(r) \/ UpdateRow(r) \/ DeleteRow(r)
      PROVE  Same /\ Kept /\ Grows
  BY <1>2 DEF Acquire, InsertItem, UpdateRow, DeleteRow
<1>3. ASSUME NEW r \in Request, NEW code, NEW id, Answer(r, code, id)
      PROVE  Kept /\ Grows /\ pc'[r] = "done"
  BY <1>3 DEF Answer
<1>4. ASSUME NEW r \in Request, SelectForUpdate(r)
      PROVE  Same /\ Kept /\ Grows
  BY <1>3, <1>4 DEF SelectForUpdate, Rollback
<1>5. ASSUME NEW r \in Request, AppendEvent(r)
      PROVE  Same /\ holder' = holder /\ Appends /\ Grows
  BY <1>5 DEF AppendEvent
<1>6. ASSUME NEW r \in Request, Fail(r)
      PROVE  Same /\ Kept /\ Grows
  BY <1>3, <1>6 DEF Fail, Rollback
<1>7. ASSUME NEW r \in Request, Commit(r) \/ CommitUnacknowledged(r)
      PROVE  Commits /\ Kept /\ Grows
  BY <1>3, <1>7 DEF Commit, CommitUnacknowledged
<1>8. ASSUME AllAnswered \/ UNCHANGED vars
      PROVE  Same /\ Kept /\ Grows
  BY <1>8 DEF AllAnswered, vars
<1> HIDE DEF Inv, TypeOK
<1> QED
  BY <1>1, <1>2, <1>4, <1>5, <1>6, <1>7, <1>8 DEF Next, Statement

\* Whatever commits late has waited with its id for nobody of its own item.
LEMMA IdsAreOrderedStep ==
  ASSUME Inv, [Next]_vars
  PROVE  IdsAreOrdered'
<1> USE DEF IdsAreOrdered
<1>1. \A e \in outbox : e \in Event
  BY DEF Inv, TypeOK
<1>2. \A s \in Request : pc[s] = "logged" => event[s] \in Event
  BY DEF Inv, TypeOK, HandlersAgree
<1>3. CASE \E r \in Request : AppendEvent(r)
  <2>1. PICK r \in Request : AppendEvent(r)
    BY <1>3
  <2>2. /\ event'[r].id = lastId + 1 /\ lastId' = lastId + 1 /\ lastId \in Nat
        /\ \A s \in Request \ {r} : event'[s] = event[s]
    BY <2>1, AppendedEvent DEF Inv
  <2>3. /\ outbox' = outbox
        /\ \A s \in Request \ {r} : pc'[s] = pc[s]
    BY <2>1 DEF AppendEvent, Inv, TypeOK
  <2>4. \A e \in outbox : e.id \in Nat /\ e.id <= lastId
    BY <1>1 DEF Inv, Event
  <2>5. \A s \in Request : pc[s] = "logged" => event[s].id \in Nat /\ event[s].id <= lastId
    BY <1>2 DEF Inv, Event
  <2> QED
    BY <2>2, <2>3, <2>4, <2>5 DEF Inv
<1>4. CASE /\ lastId' = lastId
           /\ \A s \in Request :
                pc'[s] = "logged" => pc[s] = "logged" /\ event'[s] = event[s]
           /\ outbox' = outbox
  BY <1>4 DEF Inv
<1>5. CASE /\ lastId' = lastId
           /\ \A s \in Request :
                pc'[s] = "logged" => pc[s] = "logged" /\ event'[s] = event[s]
           /\ \E r \in Request : pc[r] = "logged" /\ pc'[r] = "done" /\ Durable(r)
  <2>1. PICK r \in Request : pc[r] = "logged" /\ pc'[r] = "done" /\ Durable(r)
    BY <1>5
  <2>2. outbox' = outbox \cup {event[r]}
    BY <2>1, CommittedWrite
  <2>3. ASSUME NEW s \in Request, pc'[s] = "logged"
        PROVE  event[r].id # event[s].id /\ event[r].item # event[s].item
    <3>1. s # r /\ pc[s] = "logged"
      BY <1>5, <2>1, <2>3
    <3>2. event[s].item = call[s].item /\ event[r].item = call[r].item
      BY <2>1, <3>1 DEF Inv, WritesAreCurrent, WriteIsCurrent, Holding
    <3> QED
      BY <2>1, <3>1, <3>2, OneHolder DEF Inv, Holding
  <2> QED
    BY <1>5, <2>1, <2>2, <2>3 DEF Inv
<1> QED
  BY <1>3, <1>4, <1>5, WhatStepsChange

LEMMA DrawnOnceStep ==
  ASSUME Inv, [Next]_vars
  PROVE  DrawnOnce' /\ IsFiniteSet(outbox')
<1>1. drawn \subseteq drawn'
  BY WhatStepsChange
<1>2. CASE UNCHANGED <<items, outbox>>
  BY <1>1, <1>2 DEF Inv, DrawnOnce
<1>3. ASSUME NEW r \in Request, pc[r] = "logged", Durable(r)
      PROVE  DrawnOnce' /\ IsFiniteSet(outbox')
  <2>1. call[r].item \in drawn
    BY <1>3 DEF Inv, LocksAreExclusive, Holding
  <2>2. IsFiniteSet(outbox \cup {event[r]})
    BY FS_AddElement DEF Inv
  <2>3. /\ outbox' = outbox \cup {event[r]} /\ event[r].item = call[r].item
        /\ \A i \in Item \ {call[r].item} : items'[i] = items[i]
    BY <1>3, CommittedWrite
  <2>4. IsFiniteSet(outbox')
    BY <2>2, <2>3
  <2>5. DrawnOnce'
    BY <1>1, <2>1, <2>3 DEF Inv, DrawnOnce
  <2> QED
    BY <2>4, <2>5
<1> QED
  BY <1>2, <1>3, WhatStepsChange

(***************************************************************************)
(* The calls and the answers.                                              *)
(***************************************************************************)
\* How r may have got its answer in this step.
NewReply(r) ==
  /\ pc[r] # "done" /\ pc'[r] = "done" /\ call'[r] = call[r]
  /\ \A s \in Request \ {r} : pc'[s] = pc[s] /\ reply'[s] = reply[s]
  /\ \/ UNCHANGED <<items, outbox>> /\ reply'[r].code \in {"404", "409", "error"}
     \/ /\ pc[r] = "logged" /\ Durable(r) /\ call' = call
        /\ \/ /\ reply'[r] = [code |-> Success(call[r].op), event |-> event[r].id]
              /\ reply'[r].code \in OK
           \/ reply'[r].code = "error"

\* A call does not change but for the UUID of a creation, nor an answer at all.
LEMMA WhatRepliesChange ==
  ASSUME Inv, [Next]_vars
  PROVE  /\ \A s \in Request : call[s] # None =>
              call'[s] # None /\ call'[s].fields = call[s].fields
         /\ \A s \in Request : pc[s] = "done" =>
              pc'[s] = "done" /\ call'[s] = call[s] /\ reply'[s] = reply[s]
         /\ \/ /\ reply' = reply /\ UNCHANGED <<items, outbox>>
               /\ \A s \in Request : pc'[s] = "done" => pc[s] = "done"
            \/ \E r \in Request : NewReply(r)
<1> DEFINE CallsStay   == \A s \in Request : call[s] # None =>
                            call'[s] # None /\ call'[s].fields = call[s].fields
           RepliesStay == \A s \in Request : pc[s] = "done" =>
                            /\ pc'[s] = "done"
                            /\ call'[s] = call[s] /\ reply'[s] = reply[s]
           NoReply     == /\ reply' = reply /\ UNCHANGED <<items, outbox>>
                          /\ \A s \in Request : pc'[s] = "done" => pc[s] = "done"
<1> USE DEF Inv, TypeOK, HandlersAgree
<1>1. ASSUME NEW r \in Request, NEW c \in Calls, Submit(r, c)
      PROVE  CallsStay /\ RepliesStay /\ NoReply
  BY <1>1 DEF Submit
<1>2. ASSUME NEW r \in Request, InsertItem(r)
      PROVE  CallsStay /\ RepliesStay /\ NoReply
  <2>1. /\ call'[r] \in Call /\ call'[r].fields = call[r].fields
        /\ \A s \in Request \ {r} : call'[s] = call[s]
    BY <1>2, InsertedCall
  <2>2. pc[r] = "begun" /\ pc' = [pc EXCEPT ![r] = "written"]
        /\ UNCHANGED <<items, outbox, reply>>
    BY <1>2 DEF InsertItem
  <2> QED
    BY <2>1, <2>2
<1>3. ASSUME NEW r \in Request,
             Acquire(r) \/ UpdateRow(r) \/ DeleteRow(r) \/ AppendEvent(r)
      PROVE  CallsStay /\ RepliesStay /\ NoReply
  BY <1>3 DEF Acquire, UpdateRow, DeleteRow, AppendEvent
<1>4. ASSUME NEW r \in Request, NEW code \in {"404", "409", "error"}, Rollback(r, code),
             pc[r] # "done"
      PROVE  CallsStay /\ RepliesStay /\ NewReply(r)
  BY <1>4 DEF Rollback, Answer, NewReply
<1>5. ASSUME NEW r \in Request, SelectForUpdate(r)
      PROVE  CallsStay /\ RepliesStay /\ (NoReply \/ NewReply(r))
  BY <1>4, <1>5 DEF SelectForUpdate
<1>6. ASSUME NEW r \in Request, Fail(r)
      PROVE  CallsStay /\ RepliesStay /\ NewReply(r)
  BY <1>4, <1>6 DEF Fail, InTransaction
<1>7. ASSUME NEW r \in Request, Commit(r) \/ CommitUnacknowledged(r)
      PROVE  CallsStay /\ RepliesStay /\ NewReply(r)
  <2>1. Success(call[r].op) \in OK
    BY <1>7, HasCall, CallType, SuccessType DEF Commit, CommitUnacknowledged
  <2> QED
    BY <1>7, <2>1 DEF Commit, CommitUnacknowledged, Answer, NewReply
<1>8. ASSUME AllAnswered \/ UNCHANGED vars
      PROVE  CallsStay /\ RepliesStay /\ NoReply
  BY <1>8 DEF AllAnswered, vars
<1> HIDE DEF Inv, TypeOK, HandlersAgree
<1> QED
  BY <1>1, <1>2, <1>3, <1>5, <1>6, <1>7, <1>8 DEF Next, Statement

(***************************************************************************)
(* The table and the outbox.                                               *)
(***************************************************************************)
\* The event of a COMMIT becomes the last one of its item.
LEMMA CommitIsLast ==
  ASSUME Inv, NEW r \in Request, pc[r] = "logged", Durable(r)
  PROVE  /\ event[r].id \in Nat
         /\ \A e \in outbox : e.id \in Nat /\ e.id # event[r].id
         /\ \A e \in outbox : e.item = event[r].item => e.id < event[r].id
BY CommittedWrite DEF Inv, TypeOK, IdsAreOrdered, Event

\* What a request writes, the row and the event agreeing with each other.
LEMMA WrittenRow ==
  ASSUME Inv, NEW r \in Request, pc[r] = "logged", Durable(r)
  PROVE  /\ items'[event[r].item] =
              IF event[r].type = "item.deleted" THEN None ELSE event[r].payload
         /\ event[r].type = "item.created" =>
              History(event[r].item) = {} /\ event[r].payload.version = 1
         /\ event[r].type # "item.created" => items[event[r].item] # None
         /\ event[r].type = "item.updated" =>
              event[r].payload = Patched(items[event[r].item], call[r].fields, r)
         /\ event[r].type = "item.deleted" => event[r].payload = items[event[r].item]
         /\ event[r].type \in Type
<1>1. /\ call[r].op \in {"create", "update", "delete"}
      /\ event[r].item = call[r].item /\ event[r].type = EventType(call[r].op)
      /\ event[r].payload = Payload(r) /\ items'[call[r].item] = newRow[r]
      /\ WriteIsCurrent(r)
  BY CommittedWrite, CallType DEF WriteIsCurrent
<1>2. CASE call[r].op = "create"
  <2>1. event[r].type = "item.created" /\ event[r].payload = newRow[r]
    BY <1>1, <1>2, EventTypeType DEF Payload
  <2>2. newRow[r] = [version |-> 1, data |-> [f \in Field |-> r]]
    BY <1>1, <1>2 DEF WriteIsCurrent
  <2> QED
    BY <1>1, <1>2, <2>1, <2>2 DEF WriteIsCurrent, Type
<1>3. CASE call[r].op = "update"
  <2>1. event[r].type = "item.updated" /\ event[r].payload = newRow[r]
    BY <1>1, <1>3, EventTypeType DEF Payload
  <2> QED
    BY <1>1, <1>3, <2>1 DEF WriteIsCurrent, Visible, Type
<1>4. CASE call[r].op = "delete"
  <2>1. event[r].type = "item.deleted" /\ event[r].payload = items[call[r].item]
    BY <1>1, <1>4, EventTypeType DEF Payload, Visible
  <2> QED
    BY <1>1, <1>4, <2>1 DEF WriteIsCurrent, Visible, Type
<1> QED
  BY <1>1, <1>2, <1>3, <1>4

LEMMA TableMatchesOutboxStep ==
  ASSUME Inv, [Next]_vars
  PROVE  TableMatchesOutbox'
<1>1. TableMatchesOutbox
  BY DEF Inv
<1>2. CASE UNCHANGED <<items, outbox>>
  BY <1>1, <1>2 DEF TableMatchesOutbox, History, Latest
<1>3. ASSUME NEW r \in Request, pc[r] = "logged", Durable(r)
      PROVE  TableMatchesOutbox'
  <2>1. /\ outbox' = outbox \cup {event[r]} /\ event[r].item = call[r].item
        /\ \A i \in Item \ {call[r].item} : items'[i] = items[i]
        /\ \A e \in outbox : e.item \in Item
    BY <1>3, CommittedWrite DEF Inv, TypeOK, Event
  <2>2. ASSUME NEW i \in Item, items'[i] # None
        PROVE  {e \in outbox' : e.item = i} # {}
    BY <1>1, <2>1, <2>2 DEF TableMatchesOutbox, History
  <2>3. ASSUME NEW e \in outbox',
               \A f \in outbox' : f.item = e.item => f.id <= e.id
        PROVE  items'[e.item] = IF e.type = "item.deleted" THEN None ELSE e.payload
    <3>1. CASE e = event[r]
      BY <1>3, <3>1, WrittenRow
    <3>2. CASE e # event[r]
      <4>1. e \in outbox /\ e.item # event[r].item
        BY <1>3, <2>1, <2>3, <3>2, CommitIsLast
      <4>2. Latest(e)
        BY <2>1, <2>3, <4>1 DEF Latest, History
      <4> QED
        BY <1>1, <2>1, <4>1, <4>2 DEF TableMatchesOutbox
    <3> QED
      BY <3>1, <3>2
  <2> QED
    BY <2>2, <2>3 DEF TableMatchesOutbox, Latest, History
<1> QED
  BY <1>2, <1>3, WhatStepsChange

\* Two adjacent events of one item follow from each other as the API allows.
Follows(e, f) ==
  /\ e.type # "item.deleted"
  /\ \/ /\ f.type = "item.updated"
        /\ f.payload.version = e.payload.version + 1
        /\ \E r \in Request : call[r] # None /\ \A g \in Field :
             f.payload.data[g] = IF g \in call[r].fields THEN r ELSE e.payload.data[g]
     \/ f.type = "item.deleted" /\ f.payload = e.payload

LEMMA FollowsForever ==
  ASSUME Inv, [Next]_vars, NEW e, NEW f, Follows(e, f)
  PROVE  Follows(e, f)'
BY WhatRepliesChange DEF Follows

LEMMA EntityHistoryStep ==
  ASSUME Inv, [Next]_vars
  PROVE  EntityHistory'
<1>1. /\ \A e \in outbox :
           (\A f \in outbox : f.item = e.item => e.id <= f.id) <=> e.type = "item.created"
      /\ \A e \in outbox : e.type = "item.created" => e.payload.version = 1
      /\ \A e, f \in outbox : Successive(e, f) => Follows(e, f)
  BY DEF Inv, EntityHistory, History, Follows
<1> SUFFICES
      /\ \A e \in outbox' :
           (\A f \in outbox' : f.item = e.item => e.id <= f.id) <=> e.type = "item.created"
      /\ \A e \in outbox' : e.type = "item.created" => e.payload.version = 1
      /\ \A e, f \in outbox' : Successive(e, f)' => Follows(e, f)'
  BY DEF EntityHistory, History, Follows
<1>2. CASE UNCHANGED outbox
  BY <1>1, <1>2, FollowsForever DEF Successive, History
<1>3. ASSUME NEW r \in Request, pc[r] = "logged", Durable(r)
      PROVE  /\ \A e \in outbox' :
                  (\A f \in outbox' : f.item = e.item => e.id <= f.id)
                    <=> e.type = "item.created"
             /\ \A e \in outbox' : e.type = "item.created" => e.payload.version = 1
             /\ \A e, f \in outbox' : Successive(e, f)' => Follows(e, f)'
  <2> DEFINE new == event[r]
  <2>1. outbox' = outbox \cup {new} /\ new.item \in Item
    BY <1>3, CommittedWrite
  <2>2. /\ new.id \in Nat
        /\ \A e \in outbox : e.id \in Nat /\ e.id # new.id
        /\ \A e \in outbox : e.item = new.item => e.id < new.id
    BY <1>3, CommitIsLast
  <2>3. new.type # "item.created" => \E e \in outbox : e.item = new.item
    BY <1>3, <2>1, WrittenRow DEF Inv, TableMatchesOutbox, History
  <2>4. new.type = "item.created" => \A e \in outbox : e.item # new.item
    BY <1>3, WrittenRow DEF History
  <2>5. ASSUME NEW e \in outbox'
        PROVE  (\A f \in outbox' : f.item = e.item => e.id <= f.id)
                 <=> e.type = "item.created"
    <3>1. CASE e \in outbox
      BY <1>1, <2>1, <2>2, <3>1
    <3>2. CASE e = new
      BY <2>1, <2>2, <2>3, <2>4, <3>2
    <3> QED
      BY <2>1, <3>1, <3>2
  <2>6. ASSUME NEW e \in outbox', e.type = "item.created"
        PROVE  e.payload.version = 1
    BY <1>1, <1>3, <2>1, <2>6, WrittenRow
  <2>7. ASSUME NEW e \in outbox', NEW f \in outbox', Successive(e, f)'
        PROVE  Follows(e, f)'
    <3>1. /\ e.item = f.item /\ e.id < f.id
          /\ \A g \in outbox' : g.item = e.item => g.id <= e.id \/ f.id <= g.id
      BY <2>7 DEF Successive, History
    <3>2. e \in outbox
      BY <2>1, <2>2, <3>1
    <3>3. CASE f \in outbox
      BY <1>1, <2>1, <3>1, <3>2, <3>3, FollowsForever DEF Successive, History
    <3>4. CASE f = new
      <4>1. Latest(e)
        BY <2>1, <2>2, <3>1, <3>2, <3>4 DEF Latest, History
      <4>2. items[e.item] = IF e.type = "item.deleted" THEN None ELSE e.payload
        BY <3>2, <4>1 DEF Inv, TableMatchesOutbox
      <4>3. new.type # "item.created"
        BY <2>4, <3>1, <3>2, <3>4
      <4>4. items[e.item] # None
        BY <1>3, <3>1, <3>4, <4>3, WrittenRow
      <4>5. e.type # "item.deleted" /\ items[e.item] = e.payload
        BY <4>2, <4>4
      <4>6. CASE new.type = "item.deleted"
        BY <1>3, <3>1, <3>4, <4>5, <4>6, WrittenRow DEF Follows
      <4>7. CASE new.type = "item.updated"
        <5>1. new.payload = Patched(e.payload, call[r].fields, r)
          BY <1>3, <3>1, <3>4, <4>5, <4>7, WrittenRow
        <5>2. /\ new.payload.version = e.payload.version + 1
              /\ \A g \in Field : new.payload.data[g] =
                   IF g \in call[r].fields THEN r ELSE e.payload.data[g]
          BY <5>1 DEF Patched
        <5>3. call[r] # None
          BY <1>3 DEF Inv, HandlersAgree
        <5>4. Follows(e, new)
          BY <4>5, <4>7, <5>2, <5>3 DEF Follows
        <5> QED
          BY <3>4, <5>4, FollowsForever
      <4> QED
        BY <1>3, <4>3, <4>6, <4>7, WrittenRow DEF Type
    <3> QED
      BY <2>1, <3>3, <3>4
  <2> QED
    BY <2>5, <2>6, <2>7
<1> QED
  BY <1>2, <1>3, WhatStepsChange

(***************************************************************************)
(* The answers.                                                            *)
(***************************************************************************)
\* The event that a request's success is about.
ItsEvent(r, e) ==
  /\ e.item = call[r].item
  /\ e.type = EventType(call[r].op)
  /\ \A f \in call[r].fields : e.payload.data[f] = r

\* A write carries what the request asked for.
LEMMA WriteIsOwn ==
  ASSUME Inv, NEW r \in Request, pc[r] = "logged", Durable(r)
  PROVE  ItsEvent(r, event[r])
<1>1. /\ call[r] \in Call /\ WriteIsCurrent(r)
      /\ event[r].item = call[r].item /\ event[r].type = EventType(call[r].op)
  BY CommittedWrite DEF WriteIsCurrent
<1>2. call[r].op \in {"create", "update", "delete"} /\ call[r].fields \in SUBSET Field
  BY <1>1, CallType
<1>3. CASE call[r].op = "create"
  <2>1. event[r].payload = [version |-> 1, data |-> [f \in Field |-> r]]
    BY <1>1, <1>3 DEF WriteIsCurrent, Payload
  <2> QED
    BY <1>1, <1>2, <2>1 DEF ItsEvent
<1>4. CASE call[r].op = "update"
  <2>1. event[r].payload = Patched(Visible(r), call[r].fields, r)
    BY <1>1, <1>4 DEF WriteIsCurrent, Payload
  <2> QED
    BY <1>1, <1>2, <2>1 DEF ItsEvent, Patched
<1>5. CASE call[r].op = "delete"
  <2>1. call[r].fields = {}
    BY <1>1, <1>5 DEF Call
  <2> QED
    BY <1>1, <2>1 DEF ItsEvent
<1> QED
  BY <1>2, <1>3, <1>4, <1>5

\* A success stays, and a new one is that of the COMMIT of this step.
LEMMA OldSuccess ==
  ASSUME Inv, [Next]_vars, NEW r \in Request, Answered(r, OK)
  PROVE  Answered(r, OK)' /\ call'[r] = call[r] /\ reply'[r] = reply[r]
<1>1. pc[r] = "done"
  BY DEF Inv, HandlersAgree, Answered
<1> QED
  BY <1>1, WhatRepliesChange DEF Answered

LEMMA NewSuccess ==
  ASSUME Inv, [Next]_vars, NEW r \in Request, Answered(r, OK)', ~Answered(r, OK)
  PROVE  /\ pc[r] = "logged" /\ Durable(r) /\ call' = call
         /\ reply'[r].event = event[r].id
         /\ \A s \in Request \ {r} : reply'[s] = reply[s]
<1>1. PICK s \in Request : NewReply(s)
  BY WhatRepliesChange DEF Answered
<1>2. s = r
  BY <1>1 DEF NewReply, Answered
<1> QED
  BY <1>1, <1>2 DEF NewReply, Answered, OK

LEMMA SuccessIsLoggedStep ==
  ASSUME Inv, [Next]_vars
  PROVE  SuccessIsLogged'
<1>1. outbox \subseteq outbox'
  BY WhatStepsChange, CommittedWrite
<1>2. ASSUME NEW r \in Request, Answered(r, OK)
      PROVE  call'[r] = call[r] /\ \E e \in outbox' : e.item = call[r].item
  BY <1>1, <1>2, OldSuccess DEF Inv, SuccessIsLogged
<1>3. ASSUME NEW r \in Request, Answered(r, OK)', ~Answered(r, OK)
      PROVE  call'[r] = call[r] /\ \E e \in outbox' : e.item = call[r].item
  BY <1>3, NewSuccess, CommittedWrite
<1> QED
  BY <1>2, <1>3 DEF SuccessIsLogged

\* A COMMIT of a request that has named a version finds the row at that version and
\* leaves it above.
LEMMA CommitSpendsVersion ==
  ASSUME Inv, NEW r \in Request, pc[r] = "logged", Durable(r)
  PROVE  /\ call[r].expected # None =>
              /\ items[call[r].item] # None
              /\ items[call[r].item].version = call[r].expected
         /\ items[call[r].item] # None =>
              \/ items'[call[r].item] = None
              \/ items'[call[r].item].version = items[call[r].item].version + 1
<1>1. /\ call[r] \in Call /\ call[r].item \in Item /\ WriteIsCurrent(r)
      /\ event[r].item = call[r].item
  BY CommittedWrite
<1>2. call[r].expected # None => call[r].op # "create"
  BY <1>1, CallType
<1>3. /\ items'[call[r].item] =
           IF event[r].type = "item.deleted" THEN None ELSE event[r].payload
      /\ items[call[r].item] # None => event[r].type # "item.created"
  BY <1>1, WrittenRow, CallType DEF WriteIsCurrent, EventType
<1>4. ASSUME event[r].type = "item.updated"
      PROVE  event[r].payload.version = items[call[r].item].version + 1
  <2>1. event[r].payload = Patched(items[call[r].item], call[r].fields, r)
    BY <1>1, <1>4, WrittenRow
  <2> QED
    BY <2>1 DEF Patched
<1> QED
  BY <1>1, <1>2, <1>3, <1>4, WrittenRow DEF WriteIsCurrent, Conflict, Visible, Type

LEMMA VersionIsSpentStep ==
  ASSUME Inv, [Next]_vars
  PROVE  VersionIsSpent'
<1> DEFINE Spent(i, v)  == items[i] = None \/ items[i].version > v
           SpentBy(i, v) == items'[i] = None \/ items'[i].version > v
<1>1. \A i \in Item : items[i] # None => items[i] \in Row /\ items[i].version \in Nat
  BY DEF Inv, TypeOK, Row
<1>2. ASSUME NEW r \in Request, Answered(r, OK), call[r].expected # None
      PROVE  call[r].item \in Item /\ SpentBy(call[r].item, call[r].expected)
  <2>1. /\ call[r].item \in Item /\ Spent(call[r].item, call[r].expected)
        /\ call[r].expected \in Nat
    <3>1. pc[r] = "done"
      BY <1>2 DEF Inv, HandlersAgree, Answered
    <3>2. call[r].expected \in Nat
      BY <1>2, <3>1, HasCall, CallType DEF Inv, Expected
    <3> QED
      BY <1>2, <3>2 DEF Inv, VersionIsSpent
  <2>2. CASE UNCHANGED <<items, outbox>>
    BY <2>1, <2>2 DEF Spent, SpentBy
  <2>3. ASSUME NEW s \in Request, pc[s] = "logged", Durable(s)
        PROVE  SpentBy(call[r].item, call[r].expected)
    <3>1. CASE call[s].item # call[r].item
      BY <2>1, <2>3, <3>1, CommittedWrite
    <3>2. CASE call[s].item = call[r].item
      <4>1. \E e \in outbox : e.item = call[r].item
        BY <1>2 DEF Inv, SuccessIsLogged
      <4>2. items[call[s].item] = None => call[s].op = "create"
        BY <2>3, CommittedWrite DEF WriteIsCurrent, Visible
      <4>3. items[call[s].item] # None
        BY <2>3, <3>2, <4>1, <4>2, CommittedWrite DEF WriteIsCurrent, History
      <4>4. \/ items'[call[r].item] = None
            \/ items'[call[r].item].version = items[call[r].item].version + 1
        BY <2>3, <3>2, <4>3, CommitSpendsVersion
      <4> QED
        BY <1>1, <2>1, <3>2, <4>3, <4>4
    <3> QED
      BY <3>1, <3>2
  <2> QED
    BY <2>1, <2>2, <2>3, WhatStepsChange
<1>3. ASSUME NEW r \in Request, Answered(r, OK)', ~Answered(r, OK),
             call'[r].expected # None
      PROVE  call[r].item \in Item /\ SpentBy(call[r].item, call[r].expected)
  <2>1. /\ pc[r] = "logged" /\ Durable(r) /\ call' = call
    BY <1>3, NewSuccess
  <2>2. call[r].item \in Item
    BY <2>1, CommittedWrite
  <2> QED
    BY <1>1, <1>3, <2>1, <2>2, CommitSpendsVersion
<1>4. \A r \in Request : Answered(r, OK)' => call'[r] = call[r]
  BY OldSuccess, NewSuccess
<1> QED
  BY <1>2, <1>3, <1>4 DEF VersionIsSpent

LEMMA OneWinnerPerVersionStep ==
  ASSUME Inv, [Next]_vars
  PROVE  OneWinnerPerVersion'
<1> DEFINE Rivals(r, s) == /\ call[r].item = call[s].item
                           /\ call[r].expected = call[s].expected
                           /\ call[r].expected # None
<1>1. \A r \in Request : Answered(r, OK)' => call'[r] = call[r]
  BY OldSuccess, NewSuccess
<1>2. ASSUME NEW r \in Request, NEW s \in Request, Rivals(r, s),
             Answered(r, OK)', ~Answered(r, OK), Answered(s, OK)
      PROVE  FALSE
  <2>1. pc[r] = "logged" /\ Durable(r)
    BY <1>2, NewSuccess
  <2>2. /\ call[r].item \in Item /\ items[call[r].item] # None
        /\ items[call[r].item].version = call[r].expected
    BY <1>2, <2>1, CommitSpendsVersion, CommittedWrite
  <2>3. items[call[r].item].version \in Nat
    BY <2>2 DEF Inv, TypeOK, Row
  <2> QED
    BY <1>2, <2>2, <2>3 DEF Inv, VersionIsSpent
<1>3. ASSUME NEW r \in Request, NEW s \in Request,
             Answered(r, OK)', ~Answered(r, OK), Answered(s, OK)', ~Answered(s, OK)
      PROVE  r = s
  BY <1>3, NewSuccess DEF Answered
<1>4. ASSUME NEW r \in Request, NEW s \in Request, Rivals(r, s),
             Answered(r, OK)', Answered(s, OK)'
      PROVE  r = s
  BY <1>2, <1>3, <1>4 DEF Inv, OneWinnerPerVersion
<1> QED
  BY <1>1, <1>4 DEF OneWinnerPerVersion

(***************************************************************************)
(* The theorems.                                                           *)
(***************************************************************************)
LEMMA InitInv == Init => Inv
<1> SUFFICES ASSUME Init PROVE Inv
  OBVIOUS
<1> USE DEF Init
<1>1. TypeOK
  BY DEF TypeOK, PC
<1>2. IsFiniteSet(outbox)
  BY FS_EmptySet
<1>3. HandlersAgree /\ LocksAreExclusive /\ IdsAreOrdered /\ WritesAreCurrent
  BY DEF HandlersAgree, LocksAreExclusive, IdsAreOrdered, WritesAreCurrent, Holding
<1>4. DrawnOnce /\ TableMatchesOutbox /\ EntityHistory
  BY DEF DrawnOnce, TableMatchesOutbox, EntityHistory
<1>5. SuccessIsLogged /\ VersionIsSpent /\ OneWinnerPerVersion
  BY DEF SuccessIsLogged, VersionIsSpent, OneWinnerPerVersion, Answered
<1> QED
  BY <1>1, <1>2, <1>3, <1>4, <1>5 DEF Inv

LEMMA InvStep == Inv /\ [Next]_vars => Inv'
<1> SUFFICES ASSUME Inv, [Next]_vars PROVE Inv'
  OBVIOUS
<1>1. TypeOK'
  BY TypeStep DEF Inv
<1> QED
  BY <1>1, HandlersAgreeStep, LocksAreExclusiveStep, IdsAreOrderedStep,
     WritesAreCurrentStep, DrawnOnceStep, TableMatchesOutboxStep, EntityHistoryStep,
     SuccessIsLoggedStep, VersionIsSpentStep, OneWinnerPerVersionStep
     DEF Inv

\* The inductive invariant: from its lock to its COMMIT a transaction's view of its
\* row is the committed row, so what it writes and logs continues the history.
THEOREM InvHolds == Spec => []Inv
BY InitInv, InvStep, PTL DEF Spec

\* Every variable keeps its type: rows have all their columns, events a payload.
THEOREM TypeCorrect == Spec => []TypeOK
<1>1. Inv => TypeOK
  BY DEF Inv
<1> QED
  BY <1>1, InvHolds, PTL

\* Dual writes cannot happen: replaying the events of an item gives its row.
THEOREM TableIsReplay == Spec => []TableMatchesOutbox
<1>1. Inv => TableMatchesOutbox
  BY DEF Inv
<1> QED
  BY <1>1, InvHolds, PTL

\* The events of an item are its history: created at version 1, each update one
\* version above its predecessor, nothing after a deletion.
THEOREM HistoryIsSound == Spec => []EntityHistory
<1>1. Inv => EntityHistory
  BY DEF Inv
<1> QED
  BY <1>1, InvHolds, PTL

\* A COMMIT makes exactly what its request asked for visible, row and event.
LEMMA CommitWrites ==
  ASSUME Inv, NEW r \in Request, pc[r] = "logged", Durable(r)
  PROVE  event[r] \in outbox' /\ Writes(r, event[r])
<1>1. event[r] \notin outbox /\ outbox' = outbox \cup {event[r]}
  BY CommittedWrite, CommitIsLast
<1>2. items' = [items EXCEPT ![event[r].item] =
                  IF event[r].type = "item.deleted" THEN None ELSE event[r].payload]
  BY CommittedWrite, WrittenRow DEF Inv, TypeOK, Durable
<1>3. call[r].expected # None =>
        items[event[r].item] # None /\ items[event[r].item].version = call[r].expected
  BY CommittedWrite, CommitSpendsVersion
<1> QED
  BY <1>1, <1>2, <1>3, WriteIsOwn, WrittenRow DEF Writes, ItsEvent

\* No answer is a lie, a lost one included: a success is the whole write, of a row
\* still at the version named, and its event; a refusal is nothing; an error is the
\* whole write or nothing.
THEOREM AnswersHold == Spec => AnswersAreTruthful
<1> DEFINE Truth(r) ==
      /\ reply[r] = None
      /\ \/ /\ reply'[r].code \in {"404", "409", "error"}
            /\ UNCHANGED <<items, outbox>>
         \/ \E e \in outbox' :
              /\ Writes(r, e)
              /\ \/ reply'[r] = [code |-> Success(call[r].op), event |-> e.id]
                 \/ reply'[r].code = "error"
<1>1. ASSUME Inv, NEW r \in Request, NewReply(r) PROVE Truth(r)
  <2>1. reply[r] = None
    BY <1>1 DEF NewReply, Inv, HandlersAgree
  <2>2. CASE pc[r] = "logged" /\ Durable(r)
    BY <1>1, <2>1, <2>2, CommitWrites DEF NewReply
  <2> QED
    BY <1>1, <2>1, <2>2 DEF NewReply
<1>2. ASSUME Inv, [Next]_vars
      PROVE  /\ reply' = reply => UNCHANGED <<items, outbox>>
             /\ \A r \in Request : reply'[r] # reply[r] => Truth(r)
  <2>1. CASE reply' = reply /\ UNCHANGED <<items, outbox>>
    BY <2>1
  <2>2. ASSUME NEW r \in Request, NewReply(r)
        PROVE  /\ reply' # reply
               /\ \A s \in Request : reply'[s] # reply[s] => s = r
    <3>1. pc[r] # "done" /\ pc'[r] = "done" /\ reply'[r] # None
      BY <1>2, <2>2, HandlersAgreeStep DEF NewReply, HandlersAgree
    <3>2. reply[r] = None
      BY <1>2, <3>1 DEF Inv, HandlersAgree
    <3> QED
      BY <2>2, <3>1, <3>2 DEF NewReply
  <2> QED
    BY <1>1, <1>2, <2>1, <2>2, WhatRepliesChange
<1> QED
  BY <1>2, InvHolds, PTL DEF Spec, AnswersAreTruthful

\* Optimistic locking: of the writers that name one version, one succeeds.
THEOREM OneWinner == Spec => []OneWinnerPerVersion
<1>1. Inv => OneWinnerPerVersion
  BY DEF Inv
<1> QED
  BY <1>1, InvHolds, PTL

(***************************************************************************)
(* The pages of one entity.                                                *)
(***************************************************************************)
\* What is cut from a finite set is finite.
LEMMA CutIsFinite ==
  ASSUME NEW S, IsFiniteSet(S), NEW T, T \subseteq S
  PROVE  IsFiniteSet(T) /\ Cardinality(T) \in Nat
BY FS_Subset, FS_CardinalityType

LEMMA PagesAreFinalStep ==
  ASSUME Inv, NEW r \in Request, pc[r] = "logged", Durable(r),
         NEW i \in Item, NEW after \in Nat, NEW limit \in Nat
  PROVE  LET page  == ListEvents(i, after, limit)
             later == ListEvents(i, after, limit)'
         IN  /\ page \subseteq later
             /\ Cardinality(page) = limit => later = page
             /\ \A e \in page, f \in later \ page : e.id < f.id
<1> DEFINE new      == event[r]
           next     == {e \in outbox : e.item = i /\ e.id > after}
           nextp    == {e \in outbox' : e.item = i /\ e.id > after}
           upTo(e)  == {f \in next : f.id <= e.id}
           upTop(e) == {f \in nextp : f.id <= e.id}
           page     == {e \in next : Cardinality(upTo(e)) <= limit}
           later    == {e \in nextp : Cardinality(upTop(e)) <= limit}
<1>1. ListEvents(i, after, limit) = page /\ ListEvents(i, after, limit)' = later
  BY DEF ListEvents
<1>2. outbox' = outbox \cup {new} /\ IsFiniteSet(outbox)
  BY CommittedWrite DEF Inv
<1>3. /\ new.id \in Nat
      /\ \A e \in outbox : e.id \in Nat /\ e.id # new.id
      /\ \A e \in outbox : e.item = new.item => e.id < new.id
  BY CommitIsLast
\* What is up to an old event does not change.
<1>4. \A e \in next : upTop(e) = upTo(e) /\ e \in nextp
  BY <1>2, <1>3
<1>5. nextp \subseteq next \cup {new}
  BY <1>2
<1>6. page \subseteq later
  BY <1>4
<1>7. \A f \in later \ page : f = new /\ f \notin next
  BY <1>4, <1>5
<1>8. \A e \in page, f \in later \ page : e.id < f.id
  BY <1>3, <1>4, <1>7
<1>9. ASSUME Cardinality(page) = limit, new \in later, new \notin next
      PROVE  FALSE
  <2>1. page \subseteq upTop(new) \ {new} /\ new \in upTop(new)
    BY <1>3, <1>4, <1>9
  <2>2. upTop(new) \subseteq outbox \cup {new} /\ IsFiniteSet(outbox \cup {new})
    BY <1>2, FS_AddElement
  <2>3. /\ IsFiniteSet(upTop(new)) /\ Cardinality(upTop(new)) \in Nat
        /\ IsFiniteSet(upTop(new) \ {new}) /\ Cardinality(upTop(new) \ {new}) \in Nat
    BY <2>2, CutIsFinite
  <2>4. Cardinality(upTop(new) \ {new}) = Cardinality(upTop(new)) - 1
    BY <2>1, <2>3, FS_RemoveElement
  <2>5. Cardinality(page) <= Cardinality(upTop(new) \ {new})
    BY <2>1, <2>3, FS_Subset
  <2>6. Cardinality(upTop(new)) <= limit
    BY <1>9
  <2> HIDE DEF upTop, page
  <2> QED
    BY <1>9, <2>3, <2>4, <2>5, <2>6
<1> HIDE DEF page, later, next, nextp
<1>10. ASSUME Cardinality(page) = limit PROVE later = page
  <2>1. ASSUME NEW f \in later \ page PROVE FALSE
    BY <1>7, <1>9, <1>10, <2>1
  <2> QED
    BY <1>6, <2>1
<1> QED
  BY <1>1, <1>6, <1>8, <1>10

\* Whoever reads one entity's events page by page misses nothing.
THEOREM PagesAreFinal == Spec => EntityPagesAreFinal
<1>1. Inv /\ [Next]_vars =>
        [\A i \in Item, after \in 0..lastId, limit \in 1..2 :
           LET page  == ListEvents(i, after, limit)
               later == ListEvents(i, after, limit)'
           IN  /\ page \subseteq later
               /\ Cardinality(page) = limit => later = page
               /\ \A e \in page, f \in later \ page : e.id < f.id]_vars
  <2> SUFFICES ASSUME Inv, [Next]_vars,
                      NEW i \in Item, NEW after \in 0..lastId, NEW limit \in 1..2
               PROVE  LET page  == ListEvents(i, after, limit)
                          later == ListEvents(i, after, limit)'
                      IN  /\ page \subseteq later
                          /\ Cardinality(page) = limit => later = page
                          /\ \A e \in page, f \in later \ page : e.id < f.id
    OBVIOUS
  <2>1. after \in Nat /\ limit \in Nat
    BY DEF Inv, TypeOK
  <2>2. CASE UNCHANGED outbox
    BY <2>2 DEF ListEvents
  <2>3. CASE \E r \in Request : pc[r] = "logged" /\ Durable(r)
    BY <2>1, <2>3, PagesAreFinalStep
  <2> QED
    BY <2>2, <2>3, WhatStepsChange
<1> QED
  BY <1>1, InvHolds, PTL DEF Spec, EntityPagesAreFinal

(***************************************************************************)
(* The write path implements OutboxTable.                                  *)
(***************************************************************************)
Logged == {r \in Request : pc[r] = "logged"}
Open   == {Entry(event[r]) : r \in Logged}

\* The rows of open transactions differ from each other.
LEMMA OpenRowsDiffer ==
  ASSUME Inv, NEW r \in Logged, NEW s \in Logged, Entry(event[r]) = Entry(event[s])
  PROVE  r = s
<1>1. event[r].id = event[s].id
  BY DEF Entry
<1> QED
  BY <1>1 DEF Inv, IdsAreOrdered, Logged

\* An INSERT into the outbox is one of an item that has no open row.
LEMMA AppendIsInsert ==
  ASSUME Inv, NEW r \in Request, AppendEvent(r)
  PROVE  \E i \in Item : Table!Insert(i)
<1>1. /\ event'[r].id = lastId + 1 /\ event'[r].item = call[r].item
      /\ \A s \in Request \ {r} : event'[s] = event[s]
      /\ lastId' = lastId + 1 /\ call[r].item \in Item
  BY AppendedEvent DEF Inv
<1>2. /\ pc[r] = "written" /\ pc' = [pc EXCEPT ![r] = "logged"]
      /\ outbox' = outbox
  BY DEF AppendEvent
<1>3. Logged' = Logged \cup {r} /\ r \notin Logged
  BY <1>2 DEF Logged, Inv, TypeOK
<1>4. \A s \in Logged : Entry(event[s]).item # call[r].item
  <2> SUFFICES ASSUME NEW s \in Logged PROVE event[s].item # call[r].item
    BY DEF Entry
  <2>1. event[s].item = call[s].item
    BY DEF Logged, Inv, WritesAreCurrent, WriteIsCurrent, Holding
  <2>2. s # r
    BY <1>3
  <2> QED
    BY <1>2, <2>1, <2>2, OneHolder DEF Inv, Holding, Logged
<1>5. Entry(event[r])' = [id |-> lastId + 1, item |-> call[r].item]
  BY <1>1 DEF Entry
<1>6. \A s \in Logged : Entry(event[s])' = Entry(event[s])
  BY <1>1, <1>3 DEF Entry, Logged
<1>7. Open' = Open \cup {[id |-> lastId + 1, item |-> call[r].item]}
  BY <1>3, <1>5, <1>6 DEF Open
<1>8. PICK i : i = call[r].item
  OBVIOUS
<1>9. i \in Item /\ Table!Insert(i)
  BY <1>1, <1>2, <1>4, <1>7, <1>8 DEF Table!Insert, Open, Logged, Entry
<1> QED
  BY <1>9

\* The end of a transaction closes its row and no other.
LEMMA AnswerClosesRow ==
  ASSUME Inv, NEW r \in Logged, NEW code, NEW id, Answer(r, code, id)
  PROVE  Open' = Open \ {Entry(event[r])} /\ Entry(event[r]) \in Open
<1>1. r \in Request /\ pc' = [pc EXCEPT ![r] = "done"] /\ event' = [event EXCEPT ![r] = None]
  BY DEF Answer, Logged
<1>2. Logged' = Logged \ {r}
  BY <1>1 DEF Logged, Inv, TypeOK
<1>3. \A s \in Logged \ {r} : Entry(event[s])' = Entry(event[s])
  BY <1>1 DEF Entry, Logged, Inv, TypeOK
<1>4. \A s \in Logged \ {r} : Entry(event[s]) # Entry(event[r])
  BY OpenRowsDiffer
<1> HIDE DEF Logged
<1> QED
  BY <1>2, <1>3, <1>4 DEF Open

\* No other step opens or closes a row.
LEMMA OpenIsKept ==
  ASSUME UNCHANGED outbox,
         \A s \in Request : pc'[s] = "logged" <=> pc[s] = "logged",
         \A s \in Logged : event'[s] = event[s]
  PROVE  UNCHANGED <<Open, {Entry(e) : e \in outbox}>>
<1>1. Logged' = Logged
  BY DEF Logged
<1>2. \A s \in Logged : Entry(event[s])' = Entry(event[s])
  BY DEF Entry
<1>3. Open' = Open
  BY <1>1, <1>2 DEF Open
<1>4. {Entry(e) : e \in outbox}' = {Entry(e) : e \in outbox}
  BY DEF Entry
<1> QED
  BY <1>3, <1>4

\* A rollback closes the row that the transaction has inserted, if it has.
LEMMA RollbackClosesRow ==
  ASSUME Inv, NEW r \in Request, NEW code, Rollback(r, code)
  PROVE  [Table!OutboxNext]_(Table!outboxVars)
<1>1. Answer(r, code, 0) /\ UNCHANGED <<outbox, lastId>>
  BY DEF Rollback, Answer
<1>2. CASE r \in Logged
  <2>1. Open' = Open \ {Entry(event[r])} /\ Entry(event[r]) \in Open
    BY <1>1, <1>2, AnswerClosesRow
  <2>2. PICK e : e = Entry(event[r])
    OBVIOUS
  <2>3. e \in Open /\ Table!RollbackRow(e)
    BY <1>1, <2>1, <2>2 DEF Table!RollbackRow, Open, Logged, Entry
  <2> QED
    BY <2>3 DEF Table!OutboxNext, Open, Logged
<1>3. CASE r \notin Logged
  <2>1. /\ \A s \in Request : pc'[s] = "logged" <=> pc[s] = "logged"
        /\ \A s \in Logged : event'[s] = event[s]
    BY <1>1, <1>3 DEF Answer, Logged, Inv, TypeOK
  <2>2. UNCHANGED <<Open, {Entry(e) : e \in outbox}>>
    BY <1>1, <2>1, OpenIsKept
  <2> QED
    BY <1>1, <2>2 DEF Table!outboxVars, Open, Logged
<1> QED
  BY <1>2, <1>3

\* A COMMIT makes the row it closes visible.
LEMMA CommitShowsRow ==
  ASSUME Inv, NEW r \in Logged, Durable(r), NEW code, NEW id, Answer(r, code, id)
  PROVE  Table!OutboxNext
<1>1. Open' = Open \ {Entry(event[r])} /\ Entry(event[r]) \in Open
  BY AnswerClosesRow
<1>2. outbox' = outbox \cup {event[r]}
  BY CommittedWrite DEF Logged
<1>3. {Entry(e) : e \in outbox}' = {Entry(e) : e \in outbox} \cup {Entry(event[r])}
  BY <1>2 DEF Entry
<1>4. PICK row : row = Entry(event[r])
  OBVIOUS
<1>5. row \in Open /\ Table!CommitRow(row)
  BY <1>1, <1>3, <1>4 DEF Table!CommitRow, Open, Logged, Answer
<1> QED
  BY <1>5 DEF Table!OutboxNext, Open, Logged

\* Whatever the interleaving of the writers, no two of them have an open event for
\* one item, and an event becomes visible whole, once, by its COMMIT.
THEOREM Refinement == Spec => ImplementsOutboxTable
<1>1. Init => Table!OutboxInit
  BY DEF Init, Table!OutboxInit
<1>2. Inv /\ [Next]_vars => [Table!OutboxNext]_(Table!outboxVars)
  <2> SUFFICES ASSUME Inv, [Next]_vars PROVE [Table!OutboxNext]_(Table!outboxVars)
    OBVIOUS
  <2> DEFINE Quiet == /\ UNCHANGED <<outbox, lastId>>
                      /\ \A s \in Request : pc'[s] = "logged" <=> pc[s] = "logged"
                      /\ \A s \in Logged : event'[s] = event[s]
  <2>1. ASSUME Quiet PROVE [Table!OutboxNext]_(Table!outboxVars)
    BY <2>1, OpenIsKept DEF Table!outboxVars, Open, Logged
  <2>2. ASSUME NEW r \in Request, NEW c \in Calls, Submit(r, c) PROVE Quiet
    BY <2>2 DEF Submit, Inv, TypeOK
  <2>3. ASSUME NEW r \in Request, Acquire(r) \/ InsertItem(r) \/ UpdateRow(r) \/ DeleteRow(r)
        PROVE  Quiet
    BY <2>3 DEF Acquire, InsertItem, UpdateRow, DeleteRow, Inv, TypeOK
  <2>4. ASSUME NEW r \in Request, SelectForUpdate(r)
        PROVE  Quiet \/ \E code \in {"404", "409"} : Rollback(r, code)
    BY <2>4 DEF SelectForUpdate, Inv, TypeOK
  <2>5. ASSUME NEW r \in Request, AppendEvent(r) PROVE Table!OutboxNext
    BY <2>5, AppendIsInsert DEF Table!OutboxNext
  <2>6. ASSUME NEW r \in Request, Commit(r) \/ CommitUnacknowledged(r)
        PROVE  Table!OutboxNext
    BY <2>6, CommitShowsRow DEF Commit, CommitUnacknowledged, Logged
  <2>7. ASSUME NEW r \in Request, Fail(r) PROVE Rollback(r, "error")
    BY <2>7 DEF Fail
  <2>8. ASSUME AllAnswered \/ UNCHANGED vars PROVE Quiet
    BY <2>8 DEF AllAnswered, vars
  <2> HIDE DEF Quiet
  <2> QED
    BY <2>1, <2>2, <2>3, <2>4, <2>5, <2>6, <2>7, <2>8, RollbackClosesRow
       DEF Next, Statement
<1> QED
  BY <1>1, <1>2, InvHolds, PTL DEF Spec, ImplementsOutboxTable, Table!OutboxSpec
============================================================================
