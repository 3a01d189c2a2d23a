---------------------------- MODULE OutboxTable ----------------------------
(***************************************************************************)
(* What the write path promises to whoever reads the outbox table: an      *)
(* abstract specification of app/db/repository.py seen from the outbox.    *)
(*                                                                         *)
(* A row gets its id (a BIGSERIAL) when it is inserted, before its         *)
(* transaction commits, so rows become visible in another order than that  *)
(* of their ids, and a rolled-back row leaves a hole.  What the row locks  *)
(* of the writers do guarantee is that two rows of the same item are never *)
(* open at the same time.                                                  *)
(*                                                                         *)
(* ItemRepository implements this specification; OutboxPublisher uses its  *)
(* actions as the environment of the publishers.                           *)
(***************************************************************************)
EXTENDS Integers

CONSTANT Item   \* the entities (items.id)

VARIABLES
  lastId,     \* last value drawn from the sequence of outbox.id
  open,       \* rows inserted by transactions still running
  committed   \* rows whose transaction has committed

outboxVars == <<lastId, open, committed>>

\* The two columns of a row that matter here: id and aggregate_id.
Entry == [id : Nat \ {0}, item : Item]

OutboxTypeOK ==
  /\ lastId \in Nat
  /\ open \subseteq Entry
  /\ committed \subseteq Entry

OutboxInit ==
  /\ lastId = 0
  /\ open = {}
  /\ committed = {}

----------------------------------------------------------------------------
\* INSERT INTO outbox ... RETURNING id, by the transaction that holds item i.
Insert(i) ==
  /\ \A e \in open : e.item # i
  /\ lastId' = lastId + 1
  /\ open' = open \cup {[id |-> lastId + 1, item |-> i]}
  /\ UNCHANGED committed

\* COMMIT: the row of a transaction becomes visible to every later snapshot.
CommitRow(e) ==
  /\ e \in open
  /\ open' = open \ {e}
  /\ committed' = committed \cup {e}
  /\ UNCHANGED lastId

\* ROLLBACK: the row never existed for anybody else; its id is not reused.
RollbackRow(e) ==
  /\ e \in open
  /\ open' = open \ {e}
  /\ UNCHANGED <<lastId, committed>>

OutboxNext ==
  \/ \E i \in Item : Insert(i)
  \/ \E e \in open : CommitRow(e) \/ RollbackRow(e)

OutboxSpec == OutboxInit /\ [][OutboxNext]_outboxVars

----------------------------------------------------------------------------
\* Why "SELECT ... FOR UPDATE before the insert" orders the events of an item:
\* ids identify rows, an item has at most one open row, and that row is younger
\* than all of the item's committed ones.
WritesAreOrdered ==
  /\ \A e \in open \cup committed : e.id <= lastId
  /\ \A e, f \in open \cup committed : e.id = f.id => e = f
  /\ \A e, f \in open : e.item = f.item => e = f
  /\ \A e \in open, f \in committed : e.item = f.item => f.id < e.id
  /\ open \cap committed = {}
============================================================================
