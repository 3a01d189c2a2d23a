-------------------------- MODULE Retention_proofs --------------------------
(***************************************************************************)
(* Proofs about Retention, for any set of workers, any batch size and any  *)
(* number of rows, publication times and faults.                           *)
(***************************************************************************)
EXTENDS Retention, FiniteSetTheorems, TLAPS

USE RetentionAssumption

(***************************************************************************)
(* The invariant.                                                          *)
(***************************************************************************)
Visible == rows \cup deleted

\* A publisher numbers a row once, above every number given before.
NumbersAreDistinct ==
  /\ \A r \in Visible : r.seq <= lastSeq
  /\ \A r, s \in Visible : IsPublished(r) /\ r.seq = s.seq => r = s

\* A row that was selected has expired, and whoever deletes it first, it is
\* still in the table or deleted.
ChosenHaveExpired ==
  \A w \in Worker : chosen[w] \subseteq Visible /\ \A r \in chosen[w] : Expired(r)

\* What is published below a selected row is selected with it, or it has the higher
\* id, or it had not expired when the selected row had: nothing is published below a
\* number that is taken.
ChosenIsLowest ==
  \A w \in Worker : \A c \in chosen[w], r \in rows :
    IsPublished(r) /\ r.seq < c.seq => r \in chosen[w] \/ c.id < r.id \/ c.at < r.at

Inv ==
  /\ TypeOK
  /\ IsFiniteSet(rows)
  /\ NumbersAreDistinct
  /\ ChosenHaveExpired
  /\ OnlyExpiredAreDeleted
  /\ ChosenIsLowest
  /\ OnlyDisorderLeavesGaps

(***************************************************************************)
(* Lemmas.                                                                 *)
(***************************************************************************)
LEMMA InitInv == Init => Inv
<1> SUFFICES ASSUME Init  PROVE Inv
  OBVIOUS
<1>1. IsFiniteSet({}) /\ Cardinality({}) = 0
  BY FS_EmptySet
<1>2. TypeOK
  BY <1>1 DEF Init, TypeOK
<1> QED
  BY <1>1, <1>2
  DEF Init, Inv, NumbersAreDistinct, ChosenHaveExpired, OnlyExpiredAreDeleted,
      ChosenIsLowest, OnlyDisorderLeavesGaps, Visible

\* A new row: not published, not selected, not deleted.
LEMMA WriteStep ==
  ASSUME Inv, NEW n \in 1..MaxId, WriterCommits(n)
  PROVE  Inv'
<1> DEFINE new == [id |-> n, seq |-> 0, at |-> 0]
<1> USE DEF Inv, WriterCommits
<1>1. /\ new \in Row /\ rows' = rows \cup {new} /\ deleted' = deleted
      /\ \A r \in Visible : r.id # n
      /\ ~IsPublished(new)
  BY DEF Row, IsPublished, Visible
<1> HIDE DEF new
<1>2. TypeOK'
  <2>1. new.id = n
    BY DEF new
  <2> QED
    BY <1>1, <2>1 DEF TypeOK, Visible
<1>3. IsFiniteSet(rows')
  BY <1>1, FS_AddElement
<1>4. NumbersAreDistinct'
  <2>1. new.seq = 0
    BY DEF new
  <2> QED
    BY <1>1, <2>1 DEF TypeOK, NumbersAreDistinct, Visible, IsPublished
<1>5. ChosenHaveExpired' /\ OnlyExpiredAreDeleted'
  BY <1>1 DEF ChosenHaveExpired, OnlyExpiredAreDeleted, Visible, Expired
<1>6. ChosenIsLowest' /\ OnlyDisorderLeavesGaps'
  BY <1>1 DEF ChosenIsLowest, OnlyDisorderLeavesGaps
<1> QED
  BY <1>2, <1>3, <1>4, <1>5, <1>6

\* A publication: the highest number, and a time after the horizon.
LEMMA PublishStep ==
  ASSUME Inv, NEW r \in rows, NEW t \in horizon + 1 .. MaxTime, PublisherCommits(r, t)
  PROVE  Inv'
<1> DEFINE new == [r EXCEPT !.seq = lastSeq + 1, !.at = t]
<1> USE DEF Inv, PublisherCommits
<1>1. /\ rows' = (rows \ {r}) \cup {new}
      /\ lastSeq' = lastSeq + 1 /\ lastSeq \in Nat /\ horizon \in Nat
      /\ UNCHANGED <<deleted, horizon, pc, chosen, total, faults>>
      /\ ~IsPublished(r)
  BY DEF TypeOK
<1>2. new \in Row /\ new.id = r.id /\ new.seq = lastSeq + 1 /\ new.at = t
  <2>1. r \in Row /\ lastSeq + 1 \in Nat /\ t \in Nat
    BY <1>1 DEF TypeOK
  <2> QED
    BY <2>1 DEF Row
<1> HIDE DEF new
<1>3. r \notin deleted /\ \A w \in Worker : r \notin chosen[w]
  BY <1>1 DEF TypeOK, ChosenHaveExpired, Expired
<1>4. TypeOK'
  BY <1>1, <1>2, <1>3 DEF TypeOK
<1>5. IsFiniteSet(rows')
  <2>1. IsFiniteSet(rows \ {r})
    BY FS_Subset
  <2> QED
    BY <1>1, <2>1, FS_AddElement
<1>6. NumbersAreDistinct'
  BY <1>1, <1>2 DEF NumbersAreDistinct, Visible, IsPublished, TypeOK, Row
<1>7. ChosenHaveExpired' /\ OnlyExpiredAreDeleted'
  BY <1>1, <1>3 DEF ChosenHaveExpired, OnlyExpiredAreDeleted, Visible, Expired
<1>8. ChosenIsLowest' /\ OnlyDisorderLeavesGaps'
  <2>1. \A x \in Visible : x.seq \in Nat /\ ~(new.seq < x.seq)
    BY <1>1, <1>2 DEF NumbersAreDistinct, Visible, TypeOK, Row
  <2> QED
    BY <1>1, <2>1 DEF ChosenIsLowest, OnlyDisorderLeavesGaps, ChosenHaveExpired, Visible
<1> QED
  BY <1>4, <1>5, <1>6, <1>7, <1>8

\* The subselect: the lowest ids of what has expired.
LEMMA SelectStep ==
  ASSUME Inv, NEW w \in Worker, Select(w)
  PROVE  Inv'
<1> DEFINE avail == {r \in rows : Expired(r)}
<1> USE DEF Inv, Select
<1> PICK S \in SUBSET avail : Lowest(S, avail) /\ chosen' = [chosen EXCEPT ![w] = S]
  OBVIOUS
<1>1. /\ UNCHANGED <<rows, deleted, lastSeq, horizon, total, faults>>
      /\ Cardinality(S) <= Batch
      /\ \A r \in S, s \in avail \ S : r.id < s.id
      /\ chosen'[w] = S /\ \A v \in Worker \ {w} : chosen'[v] = chosen[v]
  BY DEF Lowest, TypeOK
<1>2. TypeOK'
  BY <1>1 DEF TypeOK
<1>3. NumbersAreDistinct' /\ ChosenHaveExpired' /\ OnlyExpiredAreDeleted'
  BY <1>1 DEF NumbersAreDistinct, ChosenHaveExpired, OnlyExpiredAreDeleted, Visible, Expired
<1>4. ASSUME NEW c \in S, NEW r \in rows, IsPublished(r)
      PROVE  r \in S \/ c.id < r.id \/ c.at < r.at
  <2>1. c.at <= horizon /\ c.at \in Nat /\ r.at \in Nat /\ horizon \in Nat
    BY DEF Expired, TypeOK, Row
  <2>2. CASE Expired(r)
    BY <1>1, <2>2
  <2>3. CASE ~Expired(r)
    BY <1>4, <2>1, <2>3 DEF Expired
  <2> QED
    BY <2>2, <2>3
<1>5. ChosenIsLowest' /\ OnlyDisorderLeavesGaps'
  BY <1>1, <1>4 DEF ChosenIsLowest, OnlyDisorderLeavesGaps
<1> QED
  BY <1>1, <1>2, <1>3, <1>5

\* What w selected is deleted, or it is not; w's selection is forgotten.
LEMMA RowsGoStep ==
  ASSUME Inv, NEW w \in Worker, MayHaveDeleted(w),
         chosen' = [chosen EXCEPT ![w] = {}], UNCHANGED <<lastSeq, horizon>>,
         pc' \in [Worker -> {"sleeping", "sweeping", "deleting", "stopped"}],
         total' \in [Worker -> Nat], faults' \in 0..MaxFaults
  PROVE  Inv'
<1> USE DEF Inv
<1>1. /\ rows' \subseteq rows /\ deleted \subseteq deleted'
      /\ deleted' \subseteq deleted \cup (chosen[w] \cap rows)
      /\ rows' \cap deleted' = {} /\ Visible' = Visible
      /\ deleted' # deleted => rows' = rows \ chosen[w]
  BY DEF MayHaveDeleted, RowsGo, TypeOK, Visible
<1>2. chosen'[w] = {} /\ \A v \in Worker \ {w} : chosen'[v] = chosen[v]
  BY DEF TypeOK
<1>3. TypeOK'
  <2>1. Cardinality({}) <= Batch
    BY FS_EmptySet
  <2> QED
    BY <1>1, <1>2, <2>1 DEF TypeOK, Visible
<1>4. IsFiniteSet(rows')
  BY <1>1, FS_Subset
<1>5. NumbersAreDistinct' /\ ChosenHaveExpired'
  BY <1>1, <1>2 DEF NumbersAreDistinct, ChosenHaveExpired, Expired
<1>6. OnlyExpiredAreDeleted'
  BY <1>1 DEF OnlyExpiredAreDeleted, ChosenHaveExpired, Expired
<1>7. ChosenIsLowest'
  BY <1>1, <1>2 DEF ChosenIsLowest
<1>8. OnlyDisorderLeavesGaps'
  <2> SUFFICES ASSUME NEW d \in deleted', NEW r \in rows', IsPublished(r), r.seq < d.seq
               PROVE  d.id < r.id \/ d.at < r.at
    BY DEF OnlyDisorderLeavesGaps
  <2>1. CASE d \in deleted
    BY <1>1, <2>1 DEF OnlyDisorderLeavesGaps
  <2>2. CASE d \notin deleted
    <3>1. d \in chosen[w] /\ r \in rows \ chosen[w]
      BY <1>1, <2>2
    <3> QED
      BY <3>1 DEF ChosenIsLowest
  <2> QED
    BY <2>1, <2>2
<1> QED
  BY <1>3, <1>4, <1>5, <1>6, <1>7, <1>8

LEMMA InvStep == Inv /\ [Next]_vars => Inv'
<1> SUFFICES ASSUME Inv, [Next]_vars  PROVE Inv'
  OBVIOUS
<1> USE DEF Inv
<1>1. CASE UNCHANGED vars
  BY <1>1 DEF vars, TypeOK, NumbersAreDistinct, ChosenHaveExpired, OnlyExpiredAreDeleted,
              ChosenIsLowest, OnlyDisorderLeavesGaps, Visible, Expired
<1>2. CASE TimePasses
  <2>1. horizon' = horizon + 1 /\ horizon \in Nat
        /\ UNCHANGED <<rows, deleted, lastSeq, pc, chosen, total, faults>>
    BY <1>2 DEF TimePasses, TypeOK
  <2>2. TypeOK' /\ NumbersAreDistinct' /\ ChosenIsLowest' /\ OnlyDisorderLeavesGaps'
    BY <2>1 DEF TypeOK, NumbersAreDistinct, ChosenIsLowest, OnlyDisorderLeavesGaps,
                Visible
  <2>3. \A r \in Visible : Expired(r) => Expired(r)'
    BY <2>1 DEF Expired, Visible, TypeOK, Row
  <2>4. ChosenHaveExpired'
    BY <2>1, <2>3 DEF ChosenHaveExpired, Visible
  <2>5. OnlyExpiredAreDeleted'
    BY <2>1 DEF OnlyExpiredAreDeleted, TypeOK, Row
  <2> QED
    BY <2>1, <2>2, <2>4, <2>5
<1>3. ASSUME NEW w \in Worker, Interval(w) \/ Start(w)  PROVE Inv'
  <2>1. UNCHANGED <<rows, deleted, lastSeq, horizon, chosen, faults>>
    BY <1>3 DEF Interval, Start
  <2>2. TypeOK'
    BY <1>3, <2>1 DEF Interval, Start, TypeOK
  <2> QED
    BY <2>1, <2>2 DEF NumbersAreDistinct, ChosenHaveExpired, OnlyExpiredAreDeleted,
                      ChosenIsLowest, OnlyDisorderLeavesGaps, Visible, Expired
<1>4. ASSUME NEW w \in Worker, Delete(w)  PROVE Inv'
  <2>1. Cardinality(Removed(w)) \in Nat
    BY FS_Subset, FS_CardinalityType DEF Removed
  <2>2. /\ pc' \in [Worker -> {"sleeping", "sweeping", "deleting", "stopped"}]
        /\ total' \in [Worker -> Nat] /\ faults' \in 0..MaxFaults
    BY <1>4, <2>1 DEF Delete, TypeOK
  <2> QED
    BY <1>4, <2>2, RowsGoStep DEF Delete, MayHaveDeleted
<1>5. ASSUME NEW w \in Worker, SweepFails(w) \/ Stop(w)  PROVE Inv'
  <2>1. /\ pc' \in [Worker -> {"sleeping", "sweeping", "deleting", "stopped"}]
        /\ total' \in [Worker -> Nat] /\ faults' \in 0..MaxFaults
    BY <1>5 DEF SweepFails, Stop, Fault, AfterFailure, TypeOK
  <2> QED
    BY <1>5, <2>1, RowsGoStep DEF SweepFails, Stop
<1> QED
  BY <1>1, <1>2, <1>3, <1>4, <1>5, WriteStep, PublishStep, SelectStep
  DEF Next, Environment, Loop, Faults

(***************************************************************************)
(* The counters.                                                           *)
(***************************************************************************)
\* A worker that was stopped, and starts again with deleted_total 0, is a fault.
Counting ==
  /\ IsFiniteSet(deleted)
  /\ \A w \in Worker : pc[w] = "stopped" => faults # 0
  /\ CountedOnce

\* Rows are counted by the worker whose DELETE found them, before they are in
\* anyone else's count.
LEMMA DeleteCounts ==
  ASSUME Inv, Counting, NEW w \in Worker, Delete(w)
  PROVE  CountedOnce'
<1>1. PICK credit \in [Worker -> SUBSET deleted] :
        /\ \A v \in Worker : Cardinality(credit[v]) = total[v]
        /\ \A u, v \in Worker : u # v => credit[u] \cap credit[v] = {}
        /\ faults = 0 => \A r \in deleted : \E v \in Worker : r \in credit[v]
  BY DEF Counting, CountedOnce
<1> DEFINE new == [credit EXCEPT ![w] = @ \cup Removed(w)]
<1>2. /\ deleted' = deleted \cup Removed(w) /\ deleted \cap Removed(w) = {}
      /\ total' = [total EXCEPT ![w] = @ + Cardinality(Removed(w))]
      /\ total \in [Worker -> Nat] /\ UNCHANGED faults
  BY DEF Delete, RowsGo, Removed, Inv, TypeOK
<1>3. /\ new \in [Worker -> SUBSET deleted'] /\ new[w] = credit[w] \cup Removed(w)
      /\ \A v \in Worker \ {w} : new[v] = credit[v]
  BY <1>1, <1>2
<1>4. Cardinality(new[w]) = total'[w]
  <2>1. IsFiniteSet(credit[w]) /\ IsFiniteSet(Removed(w)) /\ credit[w] \cap Removed(w) = {}
    BY <1>1, <1>2, FS_Subset DEF Counting, Inv, Removed
  <2>2. Cardinality(credit[w]) \in Nat /\ Cardinality(Removed(w)) \in Nat
    BY <2>1, FS_CardinalityType
  <2>3. Cardinality(credit[w] \cup Removed(w)) = Cardinality(credit[w]) + Cardinality(Removed(w))
    BY <2>1, <2>2, FS_Union, FS_EmptySet
  <2> QED
    BY <1>1, <1>2, <1>3, <2>3
<1>5. \A v \in Worker : Cardinality(new[v]) = total'[v]
  BY <1>1, <1>2, <1>3, <1>4
<1>6. \A u, v \in Worker : u # v => new[u] \cap new[v] = {}
  BY <1>1, <1>2, <1>3
<1>7. faults' = 0 => \A r \in deleted' : \E v \in Worker : r \in new[v]
  BY <1>1, <1>2, <1>3
<1> HIDE DEF new
<1> QED
  BY <1>3, <1>5, <1>6, <1>7 DEF CountedOnce

\* What is deleted without being counted, or forgotten with the process, is a fault.
LEMMA FaultCounts ==
  ASSUME Inv, Counting, NEW gone \in SUBSET Worker, deleted \subseteq deleted', faults' # 0,
         total' = [w \in Worker |-> IF w \in gone THEN 0 ELSE total[w]]
  PROVE  CountedOnce'
<1>1. PICK credit \in [Worker -> SUBSET deleted] :
        /\ \A v \in Worker : Cardinality(credit[v]) = total[v]
        /\ \A u, v \in Worker : u # v => credit[u] \cap credit[v] = {}
  BY DEF Counting, CountedOnce
<1> DEFINE new == [v \in Worker |-> IF v \in gone THEN {} ELSE credit[v]]
<1>2. new \in [Worker -> SUBSET deleted']
  BY <1>1
<1>3. \A v \in Worker : Cardinality(new[v]) = total'[v]
  BY <1>1, FS_EmptySet
<1>4. \A u, v \in Worker : u # v => new[u] \cap new[v] = {}
  BY <1>1
<1> HIDE DEF new
<1> QED
  BY <1>2, <1>3, <1>4 DEF CountedOnce

LEMMA CountingStep == Inv /\ Counting /\ [Next]_vars => Counting'
<1> SUFFICES ASSUME Inv, Counting, [Next]_vars  PROVE Counting'
  OBVIOUS
<1>1. IsFiniteSet(deleted')
  <2>1. deleted' \subseteq deleted \cup rows
    BY DEF Next, Environment, Loop, Faults, vars, WriterCommits, PublisherCommits, TimePasses,
           Interval, Select, Delete, SweepFails, Stop, Start, MayHaveDeleted, RowsGo
  <2>2. IsFiniteSet(deleted \cup rows)
    BY FS_Union DEF Inv, Counting
  <2> QED
    BY <2>1, <2>2, FS_Subset
<1>2. \A w \in Worker : pc'[w] = "stopped" => faults' # 0
  <2>1. UNCHANGED <<pc, faults>> => \A w \in Worker : pc'[w] = "stopped" => faults' # 0
    BY DEF Counting
  <2>2. Fault => faults' # 0
    BY DEF Fault, Inv, TypeOK
  <2>3. ASSUME NEW w \in Worker, Interval(w) \/ Select(w) \/ Delete(w) \/ Start(w)
        PROVE  \A v \in Worker : pc'[v] = "stopped" => faults' # 0
    BY <2>3 DEF Interval, Select, Delete, Start, Counting, Inv, TypeOK
  <2>4. Environment \/ UNCHANGED vars => UNCHANGED <<pc, faults>>
    BY DEF Environment, WriterCommits, PublisherCommits, TimePasses, vars
  <2>5. ASSUME NEW w \in Worker, SweepFails(w) \/ Stop(w) PROVE Fault
    BY <2>5 DEF SweepFails, Stop
  <2> QED
    BY <2>1, <2>2, <2>3, <2>4, <2>5 DEF Next, Loop, Faults
<1>3. CountedOnce'
  <2>1. UNCHANGED <<deleted, total, faults>> => CountedOnce'
    BY DEF Counting, CountedOnce
  <2>2. Environment \/ UNCHANGED vars => UNCHANGED <<deleted, total, faults>>
    BY DEF Environment, WriterCommits, PublisherCommits, TimePasses, vars
  <2>3. ASSUME NEW w \in Worker, Interval(w) \/ Select(w)
        PROVE  UNCHANGED <<deleted, total, faults>>
    BY <2>3 DEF Interval, Select
  <2>4. ASSUME NEW w \in Worker, SweepFails(w) \/ Stop(w)  PROVE CountedOnce'
    <3>1. deleted \subseteq deleted' /\ UNCHANGED total /\ faults' # 0
      BY <2>4 DEF SweepFails, Stop, MayHaveDeleted, RowsGo, Fault, Inv, TypeOK
    <3>2. total' = [v \in Worker |-> IF v \in {} THEN 0 ELSE total[v]]
      BY <3>1 DEF Inv, TypeOK
    <3>3. {} \in SUBSET Worker
      OBVIOUS
    <3> QED
      BY <3>1, <3>2, <3>3, FaultCounts
  <2>5. ASSUME NEW w \in Worker, Start(w)  PROVE CountedOnce'
    <3>1. deleted \subseteq deleted' /\ faults' # 0
      BY <2>5 DEF Start, Counting
    <3>2. total' = [v \in Worker |-> IF v \in {w} THEN 0 ELSE total[v]]
      BY <2>5 DEF Start, Inv, TypeOK
    <3> QED
      BY <3>1, <3>2, FaultCounts
  <2> QED
    BY <2>1, <2>2, <2>3, <2>4, <2>5, DeleteCounts DEF Next, Loop, Faults
<1> QED
  BY <1>1, <1>2, <1>3 DEF Counting

(***************************************************************************)
(* Theorems.                                                               *)
(***************************************************************************)
LEMMA InvHolds == Spec => []Inv
<1> QED
  BY InitInv, InvStep, PTL DEF Spec

\* A DELETE never selects more than a batch, and a row is deleted once.
THEOREM TypeCorrect == Spec => []TypeOK
<1>1. Inv => TypeOK
  BY DEF Inv
<1> QED
  BY InvHolds, <1>1, PTL

\* However the sweeps of the workers interleave, fail and are stopped, no row is
\* deleted that is unpublished or inside the retention window (_DELETE_SQL).
THEOREM OnlyExpired == Spec => []OnlyExpiredAreDeleted
<1>1. Inv => OnlyExpiredAreDeleted
  BY DEF Inv
<1> QED
  BY InvHolds, <1>1, PTL

\* However the sweeps of the workers interleave and fail, of two rows in the same
\* order by number, id and publication time the first one goes first: only rows out
\* of order make oldest_replayable_seq say less than is gone.
THEOREM NoOtherGaps == Spec => []OnlyDisorderLeavesGaps
<1>1. Inv => OnlyDisorderLeavesGaps
  BY DEF Inv
<1> QED
  BY InvHolds, <1>1, PTL

\* deleted_total counts the rows a worker's own DELETE has removed, each of them
\* once among all workers, and every deleted row while nothing fails.
THEOREM CountsAreRight == Spec => []CountedOnce
<1>1. Init => Counting
  <2> SUFFICES ASSUME Init PROVE Counting
    OBVIOUS
  <2>1. IsFiniteSet(deleted) /\ Cardinality({}) = 0
    BY FS_EmptySet DEF Init
  <2> DEFINE credit == [w \in Worker |-> {}]
  <2>2. credit \in [Worker -> SUBSET deleted] /\ \A w \in Worker : credit[w] = {}
    OBVIOUS
  <2>3. \A w \in Worker : Cardinality(credit[w]) = total[w]
    BY <2>1 DEF Init
  <2>4. deleted = {}
    BY DEF Init
  <2> HIDE DEF credit
  <2>5. CountedOnce
    BY <2>2, <2>3, <2>4 DEF CountedOnce
  <2> QED
    BY <2>1, <2>5 DEF Init, Counting
<1>2. Counting => CountedOnce
  BY DEF Counting
<1> QED
  BY <1>1, <1>2, CountingStep, InvHolds, PTL DEF Spec
=============================================================================
