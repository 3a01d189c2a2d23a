------------------------- MODULE OutboxTable_proofs -------------------------
(* Proofs about OutboxTable. *)
EXTENDS OutboxTable, TLAPS

(***************************************************************************)
(* The columns of an outbox row keep their types (migration 0001).         *)
(***************************************************************************)
LEMMA TableTypeStep ==
  ASSUME OutboxTypeOK, [OutboxNext]_outboxVars
  PROVE  OutboxTypeOK'
<1>1. ASSUME NEW i \in Item, Insert(i) PROVE OutboxTypeOK'
  BY <1>1 DEF OutboxTypeOK, Insert, Entry
<1>2. ASSUME NEW e \in open, CommitRow(e) PROVE OutboxTypeOK'
  BY <1>2 DEF OutboxTypeOK, CommitRow
<1>3. ASSUME NEW e \in open, RollbackRow(e) PROVE OutboxTypeOK'
  BY <1>3 DEF OutboxTypeOK, RollbackRow
<1>4. CASE UNCHANGED outboxVars
  BY <1>4 DEF OutboxTypeOK, outboxVars
<1> QED
  BY <1>1, <1>2, <1>3, <1>4 DEF OutboxNext

(***************************************************************************)
(* A step of a writer keeps the events of an item in the order of its      *)
(* writes (app/db/repository.py, _append_event under the row lock).        *)
(***************************************************************************)
LEMMA WritesAreOrderedStep ==
  ASSUME OutboxTypeOK, WritesAreOrdered, [OutboxNext]_outboxVars
  PROVE  WritesAreOrdered'
<1>1. ASSUME NEW i \in Item, Insert(i) PROVE WritesAreOrdered'
  BY <1>1 DEF OutboxTypeOK, WritesAreOrdered, Insert, Entry
<1>2. ASSUME NEW e \in open, CommitRow(e) PROVE WritesAreOrdered'
  BY <1>2 DEF OutboxTypeOK, WritesAreOrdered, CommitRow, Entry
<1>3. ASSUME NEW e \in open, RollbackRow(e) PROVE WritesAreOrdered'
  BY <1>3 DEF OutboxTypeOK, WritesAreOrdered, RollbackRow, Entry
<1>4. CASE UNCHANGED outboxVars
  BY <1>4 DEF WritesAreOrdered, outboxVars
<1> QED
  BY <1>1, <1>2, <1>3, <1>4 DEF OutboxNext

LEMMA TableInit == OutboxInit => OutboxTypeOK /\ WritesAreOrdered
BY DEF OutboxInit, OutboxTypeOK, WritesAreOrdered

(***************************************************************************)
(* Two events of one item never commit in another order than that of their *)
(* ids, however the writers interleave.                                    *)
(***************************************************************************)
THEOREM TableIsOrdered == OutboxSpec => [](OutboxTypeOK /\ WritesAreOrdered)
<1>1. OutboxTypeOK /\ WritesAreOrdered /\ [OutboxNext]_outboxVars
        => (OutboxTypeOK /\ WritesAreOrdered)'
  BY TableTypeStep, WritesAreOrderedStep
<1> QED
  BY TableInit, <1>1, PTL DEF OutboxSpec
=============================================================================
