----------------------- MODULE OutboxPublisher_proofs -----------------------
(***************************************************************************)
(* Proofs about OutboxPublisher, for any number of workers, items, rows    *)
(* and faults and any batch size.                                          *)
(***************************************************************************)
EXTENDS OutboxPublisher, OutboxTable_proofs

USE PublisherAssumption

(***************************************************************************)
(* Types.                                                                  *)
(***************************************************************************)
LEMMA BatchIsSequence ==
  ASSUME NEW S, NEW n \in Nat, NEW batch \in [1..n -> S]
  PROVE  batch \in Seq(S) /\ Len(batch) = n
OBVIOUS

\* The numbers of a reserved block are numbers of the sequence.
LEMMA BlockType ==
  ASSUME TypeOK, NEW w \in Worker, start[w] > 0
  PROVE  Block(w) \subseteq Published
<1> SUFFICES ASSUME NEW k \in 1..count(w)
             PROVE  [id |-> rows[w][k].id, item |-> rows[w][k].item,
                     seq |-> start[w] + k - 1] \in Published
  BY DEF Block
<1>1. rows[w][k] \in Entry
  BY DEF TypeOK, count
<1>2. start[w] \in Nat /\ k \in Nat \ {0}
  BY DEF TypeOK, count
<1> QED
  BY <1>1, <1>2 DEF Entry, Published

\* A writer's step is one of OutboxTable's and leaves the publishers alone, but
\* for the notices.
LEMMA WriteStep ==
  ASSUME TypeOK, Write
  PROVE  /\ OutboxNext
         /\ UNCHANGED <<stream, lastSeq, lock, connected, pc, rows, start, wakeup, faults>>
         /\ notices' \in [Worker -> BOOLEAN]
         /\ committed \subseteq committed'
<1>1. ASSUME NEW i \in Item, InsertRow(i)
      PROVE  /\ Insert(i)
             /\ UNCHANGED pubVars
  BY <1>1 DEF InsertRow
<1>2. ASSUME NEW e \in open, RollbackWrite(e)
      PROVE  /\ RollbackRow(e)
             /\ UNCHANGED pubVars
  BY <1>2 DEF RollbackWrite
<1>3. CASE \E i \in Item : InsertRow(i)
  BY <1>3, <1>1 DEF OutboxNext, Insert, pubVars, TypeOK
<1>4. CASE \E e \in open : RollbackWrite(e)
  BY <1>4, <1>2 DEF OutboxNext, RollbackRow, pubVars, TypeOK
<1>5. CASE \E e \in open : CommitWrite(e)
  BY <1>5 DEF OutboxNext, CommitWrite, CommitRow, TypeOK
<1> QED
  BY <1>3, <1>4, <1>5 DEF Write

\* What a step of a publisher does to the tables of the writers: nothing.
LEMMA PublisherStep ==
  ASSUME NEW w \in Worker, Loop(w) \/ Poll(w) \/ OnNotify(w) \/ Faults(w)
  PROVE  UNCHANGED outboxVars
BY DEF Loop, Faults, OnNotify, Connect, TryLock, Claim, Nextval,
       Setval, Mark, Commit, Wake, Poll, StopsWaiting, ConnectionLost, CommitUnacknowledged,
       Stop, Start

LEMMA WritersStep ==
  ASSUME TypeOK, [Next]_vars
  PROVE  [OutboxNext]_outboxVars
<1>1. CASE Write
  BY <1>1, WriteStep
<1>2. CASE \E w \in Worker : Loop(w) \/ Poll(w) \/ OnNotify(w) \/ Faults(w)
  BY <1>2, PublisherStep
<1>3. CASE ServerNotices
  BY <1>3 DEF ServerNotices
<1>4. CASE UNCHANGED vars
  BY <1>4 DEF vars
<1> QED
  BY <1>1, <1>2, <1>3, <1>4 DEF Next

\* Every variable keeps its type; a block starts at a number that was drawn.
LEMMA TypeStep ==
  ASSUME TypeOK, OneAssigner, [Next]_vars
  PROVE  TypeOK'
<1>1. OutboxTypeOK'
  BY WritersStep, TableTypeStep DEF TypeOK
<1> USE DEF PC, InTransaction
<1>2. CASE Write
  BY <1>1, <1>2, WriteStep DEF TypeOK
<1>3. ASSUME NEW w \in Worker, Loop(w) PROVE TypeOK'
  <2>1. CASE Connect(w)
    BY <1>1, <2>1 DEF TypeOK, Connect
  <2>2. CASE TryLock(w)
    BY <1>1, <2>2 DEF TypeOK, TryLock
  <2>3. CASE Claim(w)
    <3>1. rows' \in [Worker -> Seq(Entry)]
      <4>1. CASE Claimable(w) = {} /\ EndTransaction(w, "waiting")
        BY <4>1 DEF TypeOK, EndTransaction
      <4>2. ASSUME NEW k \in 1..BatchSize, NEW batch \in [1..k -> Claimable(w)],
                   rows' = [rows EXCEPT ![w] = batch]
            PROVE  rows' \in [Worker -> Seq(Entry)]
        <5>1. Claimable(w) \subseteq Entry
          BY DEF Claimable, TypeOK, OutboxTypeOK
        <5>2. batch \in [1..k -> Entry] /\ k \in Nat
          BY <5>1
        <5>3. batch \in Seq(Entry)
          BY <5>2, BatchIsSequence
        <5> QED
          BY <4>2, <5>3 DEF TypeOK
      <4> QED
        BY <2>3, <4>1, <4>2 DEF Claim
    <3>2. /\ lock' \in Worker \cup {NoWorker}
          /\ start' \in [Worker -> Nat]
          /\ pc' \in [Worker -> PC]
      <4>1. CASE Claimable(w) = {} /\ EndTransaction(w, "waiting")
        BY <4>1 DEF TypeOK, EndTransaction
      <4>2. CASE pc' = [pc EXCEPT ![w] = "claimed"] /\ UNCHANGED <<lock, start>>
        BY <4>2 DEF TypeOK
      <4> QED
        BY <2>3, <4>1, <4>2 DEF Claim
    <3> QED
      BY <1>1, <2>3, <3>1, <3>2 DEF TypeOK, Claim
  <2>4. CASE Nextval(w)
    BY <1>1, <2>4 DEF TypeOK, Nextval, AfterNextval
  <2>5. CASE Setval(w)
    <3>1. lastSeq' \in Nat
      BY <2>5 DEF TypeOK, OneAssigner, ClaimIsSound, Setval, LastOfBlock, count
    <3> QED
      BY <1>1, <2>5, <3>1 DEF TypeOK, Setval
  <2>6. CASE Mark(w)
    BY <1>1, <2>6 DEF TypeOK, Mark
  <2>7. CASE Commit(w)
    <3>1. stream' \subseteq Published
      BY <2>7, BlockType DEF TypeOK, OneAssigner, Commit
    <3> QED
      BY <1>1, <2>7, <3>1 DEF TypeOK, Commit, EndTransaction, AfterBatch
  <2>8. CASE Wake(w)
    BY <1>1, <2>8 DEF TypeOK, Wake, StopsWaiting
  <2> QED
    BY <1>3, <2>1, <2>2, <2>3, <2>4, <2>5, <2>6, <2>7, <2>8 DEF Loop
<1>4. ASSUME NEW w \in Worker, OnNotify(w) \/ Poll(w) PROVE TypeOK'
  BY <1>1, <1>4 DEF TypeOK, OnNotify, Poll, StopsWaiting
<1>5. ASSUME NEW w \in Worker, Faults(w) PROVE TypeOK'
  <2>1. CASE ConnectionLost(w)
    BY <1>1, <2>1 DEF TypeOK, ConnectionLost, Fault, Disconnect, AfterLoss
  <2>2. CASE CommitUnacknowledged(w)
    <3>1. stream' \subseteq Published
      BY <2>2, BlockType DEF TypeOK, OneAssigner, CommitUnacknowledged
    <3> QED
      BY <1>1, <2>2, <3>1 DEF TypeOK, CommitUnacknowledged, Fault, EndTransaction
  <2>3. CASE Stop(w)
    BY <1>1, <2>3 DEF TypeOK, Stop, Fault, Disconnect
  <2>4. CASE Start(w)
    BY <1>1, <2>4 DEF TypeOK, Start
  <2> QED
    BY <1>5, <2>1, <2>2, <2>3, <2>4 DEF Faults
<1>6. CASE ServerNotices
  BY <1>1, <1>6 DEF TypeOK, ServerNotices
<1>7. CASE UNCHANGED vars
  BY <1>1, <1>7 DEF TypeOK, vars, pubVars, outboxVars
<1> QED
  BY <1>2, <1>3, <1>4, <1>5, <1>6, <1>7 DEF Next

(***************************************************************************)
(* One publisher at a time assigns numbers, and its claim stays sound.     *)
(***************************************************************************)
\* Outside a transaction a worker has claimed nothing.
LEMMA OthersHaveNoClaim ==
  ASSUME OneAssigner, NEW w \in Worker, pc[w] \in InTransaction,
         NEW v \in Worker \ {w}
  PROVE  pc[v] \notin InTransaction /\ rows[v] = <<>>
BY DEF OneAssigner

\* A claim stays sound while the tables and the claim do not change.
LEMMA ClaimIsKept ==
  ASSUME NEW v \in Worker, ClaimIsSound(v),
         UNCHANGED <<committed, stream>>, rows'[v] = rows[v]
  PROVE  ClaimIsSound(v)'
BY DEF ClaimIsSound, IsPublished, count, Ascending

\* What a commit of a writer adds is younger than what is claimed of its item.
LEMMA ClaimSurvivesWrite ==
  ASSUME TypeOK, WritesAreOrdered, Write, NEW v \in Worker, ClaimIsSound(v)
  PROVE  ClaimIsSound(v)'
<1>1. UNCHANGED <<stream, rows>> /\ committed \subseteq committed'
  BY WriteStep
<1>2. ASSUME NEW e \in committed' \ committed, NEW k \in 1..count(v),
             e.item = rows[v][k].item
      PROVE  rows[v][k].id < e.id
  <2>1. e \in open
    BY <1>2 DEF Write, InsertRow, Insert, CommitWrite, CommitRow, RollbackWrite, RollbackRow
  <2>2. rows[v][k] \in committed
    BY DEF ClaimIsSound
  <2> QED
    BY <1>2, <2>1, <2>2 DEF WritesAreOrdered
<1>3. ASSUME NEW k \in 1..count(v), NEW e \in committed',
             e.item = rows[v][k].item, e.id < rows[v][k].id
      PROVE  IsPublished(e) \/ \E j \in 1..k : j < k /\ rows[v][j] = e
  <2>1. rows[v][k] \in Entry /\ e \in Entry
    <3>1. OutboxTypeOK'
      BY TableTypeStep, WriteStep DEF TypeOK
    <3> QED
      BY <3>1 DEF TypeOK, OutboxTypeOK, count
  <2>2. e \in committed
    BY <1>2, <1>3, <2>1 DEF Entry
  <2> QED
    BY <1>3, <2>2 DEF ClaimIsSound
<1> QED
  BY <1>1, <1>3 DEF ClaimIsSound, IsPublished, count, Ascending

\* _CLAIM_SQL returns a sound claim: lowest ids first, nothing left behind.
LEMMA ClaimIsSoundWhenTaken ==
  ASSUME TypeOK, OneAssigner, NEW w \in Worker, pc[w] = "locked",
         NEW n \in 1..BatchSize, NEW batch \in [1..n -> Claimable(w)],
         Ascending(batch), Lowest(batch, Claimable(w)),
         rows' = [rows EXCEPT ![w] = batch], UNCHANGED <<committed, stream>>
  PROVE  ClaimIsSound(w)'
<1>1. rows'[w] = batch
  BY DEF TypeOK
<1>2. Len(batch) = n /\ n \in 1..BatchSize /\ batch # <<>>
  <2>1. n \in Nat
    OBVIOUS
  <2>2. batch \in Seq(Claimable(w)) /\ Len(batch) = n
    BY <2>1, BatchIsSequence
  <2> QED
    BY <2>2
<1>3. \A e \in committed : IsPublished(e) \/ e \in Claimable(w)
  <2>1. \A v \in Worker \ {w} : rows[v] = <<>>
    BY OthersHaveNoClaim DEF InTransaction
  <2> QED
    BY <2>1 DEF Claimable, IsIn
<1>4. \A k \in 1..n : batch[k] \in committed /\ ~IsPublished(batch[k]) /\ batch[k] \in Entry
  BY DEF Claimable, TypeOK, OutboxTypeOK
<1>5. ASSUME NEW k \in 1..n, NEW e \in committed,
             e.item = batch[k].item, e.id < batch[k].id, ~IsPublished(e)
      PROVE  \E j \in 1..k : j < k /\ batch[j] = e
  <2>1. e \in Claimable(w) /\ e \in Entry
    BY <1>3, <1>5 DEF TypeOK, OutboxTypeOK
  <2>2. ~(batch[k].id < e.id)
    BY <1>4, <1>5, <2>1 DEF Entry
  <2>3. PICK j \in 1..n : batch[j] = e
    BY <1>2, <2>1, <2>2 DEF Lowest, IsIn
  <2>4. j < k
    BY <1>2, <1>4, <1>5, <2>3, SMTT(30) DEF Ascending, Entry
  <2> QED
    BY <2>3, <2>4
<1> QED
  BY <1>1, <1>2, <1>4, <1>5 DEF ClaimIsSound, IsPublished, count, Ascending

\* The rows of a block: committed, numbered from start to start + count - 1.
LEMMA BlockContents ==
  ASSUME TypeOK, OneAssigner, NEW w \in Worker, pc[w] = "marked",
         NEW s \in Block(w)
  PROVE  \E k \in 1..count(w) :
           /\ s.id = rows[w][k].id /\ s.item = rows[w][k].item
           /\ s.seq = start[w] + k - 1
           /\ [id |-> s.id, item |-> s.item] = rows[w][k]
           /\ rows[w][k] \in committed
           /\ start[w] <= s.seq /\ s.seq <= lastSeq
<1>1. PICK k \in 1..count(w) :
        s = [id |-> rows[w][k].id, item |-> rows[w][k].item, seq |-> start[w] + k - 1]
  BY DEF Block
<1>2. rows[w][k] \in Entry /\ rows[w][k] \in committed
  BY DEF TypeOK, OneAssigner, ClaimIsSound, count, InTransaction
<1>3. count(w) \in Nat /\ start[w] \in Nat /\ lastSeq \in Nat
  BY DEF TypeOK, count
<1>4. start[w] + count(w) - 1 <= lastSeq
  BY DEF OneAssigner
<1> QED
  BY <1>1, <1>2, <1>3, <1>4 DEF Entry

\* A commit, acknowledged or not, publishes the block and frees the lock.
LEMMA OneAssignerCommit ==
  ASSUME TypeOK, OneAssigner, NEW w \in Worker, pc[w] = "marked",
         stream' = stream \cup Block(w), NEW next \in {"ready", "waiting"},
         EndTransaction(w, next), UNCHANGED <<outboxVars, lastSeq>>
  PROVE  OneAssigner'
<1> USE DEF InTransaction
<1>1. ASSUME NEW v \in Worker \ {w}
      PROVE  pc'[v] \notin InTransaction /\ rows'[v] = <<>>
  BY OthersHaveNoClaim DEF EndTransaction, TypeOK
<1>2. pc'[w] \notin InTransaction /\ rows'[w] = <<>>
  BY DEF EndTransaction, TypeOK
<1>3. ASSUME NEW s \in stream'
      PROVE  s.seq <= lastSeq' /\ [id |-> s.id, item |-> s.item] \in committed'
  BY <1>3, BlockContents DEF OneAssigner, outboxVars
<1> QED
  BY <1>1, <1>2, <1>3 DEF OneAssigner

\* A lost connection or a stop ends w's transaction, whoever frees the lock.
LEMMA OneAssignerDisconnect ==
  ASSUME TypeOK, OneAssigner, NEW w \in Worker, Disconnect(w),
         NEW next \in {"ready", "waiting", "stopped"},
         pc' = [pc EXCEPT ![w] = next], UNCHANGED <<outboxVars, stream, lastSeq>>
  PROVE  OneAssigner'
<1> USE DEF InTransaction
<1>1. pc'[w] \notin InTransaction /\ rows'[w] = <<>>
  BY DEF Disconnect, TypeOK
<1>2. ASSUME NEW v \in Worker \ {w}
      PROVE  /\ pc'[v] = pc[v] /\ rows'[v] = rows[v] /\ start'[v] = start[v]
             /\ pc[v] \in InTransaction => lock' = v
  BY OthersHaveNoClaim DEF Disconnect, TypeOK, OneAssigner
<1>3. ASSUME NEW v \in Worker, ClaimIsSound(v), v # w PROVE ClaimIsSound(v)'
  BY <1>2, <1>3, ClaimIsKept DEF outboxVars
<1> QED
  BY <1>1, <1>2, <1>3 DEF OneAssigner, count, outboxVars

\* The invariant is inductive.
LEMMA OneAssignerStep ==
  ASSUME TypeOK, WritesAreOrdered, OneAssigner, [Next]_vars
  PROVE  OneAssigner'
<1> USE DEF InTransaction
<1>1. CASE Write
  <2>1. \A v \in Worker : ClaimIsSound(v) => ClaimIsSound(v)'
    BY <1>1, ClaimSurvivesWrite
  <2> QED
    BY <1>1, <2>1, WriteStep DEF OneAssigner, count
<1>2. ASSUME UNCHANGED <<committed, stream>>
      PROVE  \A v \in Worker : ClaimIsSound(v) /\ rows'[v] = rows[v] => ClaimIsSound(v)'
  BY <1>2, ClaimIsKept
<1>3. ASSUME NEW w \in Worker, Loop(w) PROVE OneAssigner'
  <2>1. CASE Connect(w)
    BY <1>2, <2>1 DEF Connect, OneAssigner, TypeOK, outboxVars, count
  <2>2. CASE TryLock(w)
    <3>1. \A v \in Worker : ClaimIsSound(v) => ClaimIsSound(v)'
      BY <1>2, <2>2 DEF TryLock, outboxVars
    <3>2. CASE LockFree /\ lock' = w /\ pc' = [pc EXCEPT ![w] = "locked"]
      BY <2>2, <3>1, <3>2 DEF TryLock, LockFree, OneAssigner, TypeOK, outboxVars, count
    <3>3. CASE ~LockFree /\ pc' = [pc EXCEPT ![w] = "waiting"] /\ UNCHANGED lock
      BY <2>2, <3>1, <3>3 DEF TryLock, OneAssigner, TypeOK, outboxVars, count
    <3> QED
      BY <2>2, <3>2, <3>3 DEF TryLock
  <2>3. CASE Claim(w)
    <3>1. \A v \in Worker \ {w} : pc[v] \notin InTransaction /\ rows[v] = <<>>
      BY <2>3, OthersHaveNoClaim DEF Claim
    <3>2. CASE EndTransaction(w, "waiting")
      BY <2>3, <3>1, <3>2 DEF Claim, EndTransaction, OneAssigner, TypeOK, outboxVars
    <3>3. ASSUME NEW n \in 1..BatchSize, NEW batch \in [1..n -> Claimable(w)],
                 Ascending(batch), Lowest(batch, Claimable(w)),
                 rows' = [rows EXCEPT ![w] = batch],
                 pc' = [pc EXCEPT ![w] = "claimed"], UNCHANGED <<lock, start>>
          PROVE  OneAssigner'
      <4>1. ClaimIsSound(w)'
        BY <2>3, <3>3, ClaimIsSoundWhenTaken DEF Claim, outboxVars
      <4> QED
        BY <2>3, <3>1, <3>3, <4>1 DEF Claim, OneAssigner, TypeOK, outboxVars
    <3> QED
      BY <2>3, <3>2, <3>3 DEF Claim
  <2>4. CASE Nextval(w)
    <3>1. \A v \in Worker \ {w} : pc[v] \notin InTransaction /\ rows[v] = <<>>
      BY <2>4, OthersHaveNoClaim DEF Nextval
    <3>2. \A s \in stream : s.seq \in Nat /\ s.seq <= lastSeq
      BY DEF TypeOK, OneAssigner, Published
    <3>3. ClaimIsSound(w)' /\ lock = w
      BY <1>2, <2>4 DEF Nextval, OneAssigner, outboxVars
    <3>4. /\ lastSeq' = lastSeq + 1 /\ lastSeq \in Nat
          /\ start'[w] = lastSeq + 1
          /\ pc'[w] = AfterNextval(w)
          /\ count(w) \in Nat /\ count(w)' = count(w)
      BY <2>4 DEF Nextval, TypeOK, count
    <3>5. \A v \in Worker \ {w} : pc'[v] = pc[v] /\ rows'[v] = rows[v]
      BY <2>4 DEF Nextval, TypeOK
    <3>6. pc'[w] = "reserved" => start'[w] + count(w)' - 1 <= lastSeq'
      BY <3>4 DEF AfterNextval
    <3>7. UNCHANGED <<stream, committed, lock>>
      BY <2>4 DEF Nextval, outboxVars
    <3>8. \A s \in stream' : s.seq < start'[w] /\ s.seq <= lastSeq'
      BY <3>2, <3>4, <3>7
    <3> QED
      BY <3>1, <3>3, <3>4, <3>5, <3>6, <3>7, <3>8 DEF AfterNextval, OneAssigner
  <2>5. CASE Setval(w)
    <3>1. \A v \in Worker \ {w} : pc[v] \notin InTransaction /\ rows[v] = <<>>
      BY <2>5, OthersHaveNoClaim DEF Setval
    <3>2. count(w) \in Nat \ {0} /\ start[w] = lastSeq /\ lastSeq \in Nat
      BY <2>5 DEF Setval, OneAssigner, ClaimIsSound, TypeOK, count
    <3>3. \A s \in stream : s.seq \in Nat /\ s.seq <= lastSeq
      BY DEF TypeOK, OneAssigner, Published
    <3>4. lastSeq' = start[w] + count(w) - 1 /\ lastSeq <= lastSeq' /\ lastSeq' \in Nat
      BY <2>5, <3>2 DEF Setval, LastOfBlock
    <3>5. \A s \in stream : s.seq <= lastSeq'
      BY <3>2, <3>3, <3>4
    <3> QED
      BY <1>2, <2>5, <3>1, <3>2, <3>4, <3>5 DEF Setval, OneAssigner, TypeOK, outboxVars, count
  <2>6. CASE Mark(w)
    BY <1>2, <2>6 DEF Mark, OneAssigner, TypeOK, outboxVars, count
  <2>7. CASE Commit(w)
    BY <2>7, OneAssignerCommit DEF Commit, AfterBatch
  <2>8. CASE Wake(w)
    BY <1>2, <2>8 DEF Wake, StopsWaiting, OneAssigner, TypeOK, outboxVars, count
  <2> QED
    BY <1>3, <2>1, <2>2, <2>3, <2>4, <2>5, <2>6, <2>7, <2>8 DEF Loop
<1>4. ASSUME NEW w \in Worker, OnNotify(w) \/ Poll(w) PROVE OneAssigner'
  <2>1. CASE OnNotify(w)
    BY <1>2, <2>1 DEF OnNotify, OneAssigner, outboxVars, count
  <2>2. CASE Poll(w)
    BY <1>2, <2>2 DEF Poll, StopsWaiting, OneAssigner, TypeOK, outboxVars, count
  <2> QED
    BY <1>4, <2>1, <2>2
<1>5. ASSUME NEW w \in Worker, Faults(w) PROVE OneAssigner'
  <2>1. CASE ConnectionLost(w)
    BY <2>1, OneAssignerDisconnect DEF ConnectionLost, AfterLoss, TypeOK, PC
  <2>2. CASE CommitUnacknowledged(w)
    BY <2>2, OneAssignerCommit DEF CommitUnacknowledged
  <2>3. CASE Stop(w)
    BY <2>3, OneAssignerDisconnect DEF Stop
  <2>4. CASE Start(w)
    BY <1>2, <2>4 DEF Start, OneAssigner, TypeOK, outboxVars, count
  <2> QED
    BY <1>5, <2>1, <2>2, <2>3, <2>4 DEF Faults
<1>6. CASE ServerNotices
  BY <1>2, <1>6 DEF ServerNotices, OneAssigner, outboxVars, count
<1>7. CASE UNCHANGED vars
  BY <1>2, <1>7 DEF vars, pubVars, outboxVars, OneAssigner, count
<1> QED
  BY <1>1, <1>3, <1>4, <1>5, <1>6, <1>7 DEF Next

(***************************************************************************)
(* What becomes visible when a publisher commits.                          *)
(***************************************************************************)
\* A commit is one step of StreamTable: a block above all that is visible, with
\* every older event of its items before it.
LEMMA CommitPublishes ==
  ASSUME TypeOK, OneAssigner, NEW w \in Worker, pc[w] = "marked",
         stream' = stream \cup Block(w), UNCHANGED outboxVars
  PROVE  Promise!Publish(Block(w)) /\ Block(w) \subseteq Published
<1> DEFINE Num(k) == [id |-> rows[w][k].id, item |-> rows[w][k].item, seq |-> start[w] + k - 1]
<1>1. /\ count(w) \in Nat \ {0}
      /\ \A k \in 1..count(w) : rows[w][k] \in Entry
  BY DEF TypeOK, OneAssigner, ClaimIsSound, count, InTransaction
<1>2. start[w] \in Nat /\ start[w] > 0 /\ \A s \in stream : s.seq < start[w] /\ s.seq \in Nat
  BY DEF OneAssigner, TypeOK, Published
<1>3. Block(w) # {} /\ Block(w) \subseteq Published
  <2>1. Num(1) \in Block(w)
    <3>1. 1 \in 1..count(w)
      BY <1>1
    <3> QED
      BY <3>1 DEF Block
  <2>2. Block(w) \subseteq Published
    BY <1>2, BlockType
  <2> QED
    BY <2>1, <2>2
<1>4. ClaimIsSound(w)
  BY DEF OneAssigner, InTransaction
<1>5. ASSUME NEW j \in 1..count(w), NEW k \in 1..count(w), j # k
      PROVE  rows[w][j].id # rows[w][k].id
  BY <1>1, <1>4, <1>5 DEF ClaimIsSound, Ascending, count, Entry
<1>6. ASSUME NEW s \in Block(w)
      PROVE  /\ Promise!EntryOf(s) \in committed
             /\ \A t \in stream : t.seq < s.seq /\ t.id # s.id
             /\ \A t \in Block(w) : t.seq = s.seq \/ t.id = s.id => t = s
  <2>1. PICK k \in 1..count(w) : s = Num(k)
    BY DEF Block
  <2>2. Promise!EntryOf(s) \in committed
    BY <1>1, <1>4, <2>1 DEF ClaimIsSound, Promise!EntryOf, Entry
  <2>3. ASSUME NEW t \in stream PROVE t.seq < s.seq /\ t.id # s.id
    <3>1. t.id # s.id
      BY <1>4, <2>1 DEF ClaimIsSound, IsPublished
    <3>2. s.seq = start[w] + k - 1 /\ k \in Nat \ {0}
      BY <1>1, <2>1
    <3> QED
      BY <1>2, <3>1, <3>2
  <2>4. ASSUME NEW t \in Block(w), t.seq = s.seq \/ t.id = s.id PROVE t = s
    <3>1. PICK j \in 1..count(w) : t = Num(j)
      BY DEF Block
    <3>2. j = k
      BY <1>1, <1>2, <1>5, <2>1, <2>4, <3>1
    <3> QED
      BY <2>1, <3>1, <3>2
  <2> QED
    BY <2>2, <2>3, <2>4
<1>7. ASSUME NEW s \in Block(w), NEW e \in committed, e.item = s.item, e.id < s.id
      PROVE  \E t \in stream' : t.id = e.id /\ t.seq < s.seq
  <2>1. PICK k \in 1..count(w) : s = Num(k)
    BY DEF Block
  <2>2. CASE IsPublished(e)
    BY <1>6, <2>2 DEF IsPublished
  <2>3. CASE \E j \in 1..k : j < k /\ rows[w][j] = e
    <3>1. PICK j \in 1..k : j < k /\ rows[w][j] = e
      BY <2>3
    <3>2. j \in 1..count(w) /\ Num(j) \in Block(w)
      BY <1>1, <3>1 DEF Block
    <3>3. Num(j).id = e.id /\ Num(j).seq < s.seq
      BY <1>1, <1>2, <2>1, <3>1
    <3> QED
      BY <3>2, <3>3
  <2> QED
    BY <1>4, <1>7, <2>1, <2>2, <2>3 DEF ClaimIsSound
<1> QED
  BY <1>3, <1>6, <1>7 DEF Promise!Publish, outboxVars

\* Only a commit, acknowledged or not, changes what is visible.
LEMMA OnlyCommitsPublish ==
  ASSUME TypeOK, [Next]_vars, stream' # stream
  PROVE  \E w \in Worker :
           /\ pc[w] = "marked"
           /\ stream' = stream \cup Block(w)
           /\ UNCHANGED outboxVars
<1>1. PICK w \in Worker : Loop(w) \/ Poll(w) \/ OnNotify(w) \/ Faults(w)
  BY WriteStep DEF Next, vars, pubVars, ServerNotices
<1>2. Commit(w) \/ CommitUnacknowledged(w)
  BY <1>1 DEF Loop, Faults, OnNotify, Connect, TryLock, Claim, Nextval, Setval,
              Mark, Wake, Poll, StopsWaiting, ConnectionLost, Stop, Start
<1> QED
  BY <1>2 DEF Commit, CommitUnacknowledged

\* So every step that publishes is the abstract one.
LEMMA EveryStepPublishesABlock ==
  ASSUME TypeOK, OneAssigner, [Next]_vars, stream' # stream
  PROVE  /\ Promise!Publish(stream' \ stream)
         /\ stream' \ stream \subseteq Published
<1>1. PICK w \in Worker : /\ pc[w] = "marked"
                          /\ stream' = stream \cup Block(w)
                          /\ UNCHANGED outboxVars
  BY OnlyCommitsPublish
<1>2. Promise!Publish(Block(w)) /\ Block(w) \subseteq Published
  BY <1>1, CommitPublishes
<1>3. Block(w) \cap stream = {}
  BY <1>2 DEF Promise!Publish
<1>4. stream' \ stream = Block(w)
  BY <1>1, <1>3
<1> QED
  BY <1>2, <1>4

\* The rest of what the code is trusted for, as an invariant.
StreamIsOrdered == PublishedOnce /\ ItemOrder

LEMMA StreamIsOrderedStep ==
  ASSUME TypeOK, WritesAreOrdered, OneAssigner, StreamIsOrdered, [Next]_vars
  PROVE  StreamIsOrdered'
<1>1. CASE stream' # stream
  <2>1. Promise!Publish(stream' \ stream)
    BY <1>1, EveryStepPublishesABlock
  <2>2. PublishedOnce'
    BY <2>1 DEF Promise!Publish, StreamIsOrdered, PublishedOnce, TypeOK, Published
  <2>3. ItemOrder'
    BY <2>1 DEF Promise!Publish, StreamIsOrdered, ItemOrder
  <2> QED
    BY <2>2, <2>3 DEF StreamIsOrdered
<1>2. CASE stream' = stream
  <2>1. ASSUME NEW s \in stream, NEW e \in committed' \ committed, e.item = s.item
        PROVE  s.id < e.id
    <3>1. Write
      BY <2>1, PublisherStep DEF Next, vars, outboxVars, ServerNotices
    <3>2. e \in open
      BY <2>1, <3>1 DEF Write, InsertRow, Insert, CommitWrite, CommitRow,
                        RollbackWrite, RollbackRow
    <3>3. [id |-> s.id, item |-> s.item] \in committed
      BY DEF OneAssigner
    <3> QED
      BY <2>1, <3>2, <3>3 DEF WritesAreOrdered
  <2>2. ASSUME NEW s \in stream, NEW e \in committed', e.item = s.item, e.id < s.id
        PROVE  \E t \in stream : t.id = e.id /\ t.seq < s.seq
    <3>1. OutboxTypeOK'
      BY WritersStep, TableTypeStep DEF TypeOK
    <3>2. s.id \in Nat /\ e.id \in Nat
      BY <3>1 DEF TypeOK, OutboxTypeOK, Published, Entry
    <3>3. e \in committed
      BY <2>1, <2>2, <3>2
    <3> QED
      BY <2>2, <3>3 DEF StreamIsOrdered, ItemOrder
  <2> QED
    BY <1>2, <2>2 DEF StreamIsOrdered, PublishedOnce, ItemOrder
<1> QED
  BY <1>1, <1>2

(***************************************************************************)
(* While nothing fails the numbers have no hole.                           *)
(***************************************************************************)
InUse(n) == \E t \in stream : t.seq = n

\* A block is reserved and not yet committed.
HoldsBlock(w) == pc[w] \in {"reserving", "reserved", "marked"}

\* Every number drawn is in use or in a block that is still to be committed, and
\* such a block ends where the sequence stands.
NoNumberIsLost ==
  faults = 0 =>
    /\ \A n \in 1..lastSeq : InUse(n) \/ \E w \in Worker : HoldsBlock(w) /\ start[w] <= n
    /\ \A w \in Worker : pc[w] \in {"reserved", "marked"} =>
         lastSeq = start[w] + count(w) - 1

\* Steps that reserve nothing, end no block and publish nothing.
LEMMA NoNumberMoves ==
  ASSUME NoNumberIsLost, UNCHANGED <<stream, lastSeq, faults>>,
         \A v \in Worker :
           /\ HoldsBlock(v)' = HoldsBlock(v)
           /\ pc'[v] \in {"reserved", "marked"} <=> pc[v] \in {"reserved", "marked"}
           /\ HoldsBlock(v) => start'[v] = start[v] /\ rows'[v] = rows[v]
  PROVE  NoNumberIsLost'
BY DEF NoNumberIsLost, InUse, HoldsBlock, count

\* The only block there is becomes visible as a whole.
LEMMA NoNumberIsLostAtCommit ==
  ASSUME TypeOK, OneAssigner, NoNumberIsLost, NEW w \in Worker, Commit(w)
  PROVE  NoNumberIsLost'
<1> SUFFICES ASSUME faults = 0
             PROVE  /\ \A n \in 1..lastSeq : InUse(n)'
                    /\ \A v \in Worker : ~HoldsBlock(v)'
  BY DEF NoNumberIsLost, Commit, HoldsBlock
<1>1. pc[w] = "marked" /\ lastSeq = start[w] + count(w) - 1
  BY DEF Commit, NoNumberIsLost
<1>2. \A v \in Worker \ {w} : ~HoldsBlock(v) /\ pc'[v] = pc[v]
  BY <1>1, OthersHaveNoClaim DEF HoldsBlock, InTransaction, Commit, EndTransaction, TypeOK
<1>3. \A v \in Worker : ~HoldsBlock(v)'
  BY <1>2 DEF HoldsBlock, Commit, EndTransaction, AfterBatch, TypeOK
<1>4. count(w) \in Nat /\ start[w] \in Nat /\ lastSeq \in Nat
  BY DEF TypeOK, count
<1>5. ASSUME NEW n \in 1..lastSeq PROVE InUse(n)'
  <2>1. CASE InUse(n)
    BY <2>1 DEF InUse, Commit
  <2>2. CASE start[w] <= n
    <3> DEFINE k == n - start[w] + 1
               s == [id |-> rows[w][k].id, item |-> rows[w][k].item, seq |-> start[w] + k - 1]
    <3>1. k \in 1..count(w) /\ start[w] + k - 1 = n
      BY <1>1, <1>4, <2>2
    <3>2. s \in Block(w)
      BY <3>1 DEF Block
    <3> HIDE DEF k
    <3>3. s.seq = n
      BY <3>1
    <3> QED
      BY <3>2, <3>3 DEF InUse, Commit
  <2> QED
    BY <1>2, <2>1, <2>2 DEF NoNumberIsLost
<1> QED
  BY <1>3, <1>5

LEMMA NoNumberIsLostStep ==
  ASSUME TypeOK, OneAssigner, NoNumberIsLost, [Next]_vars
  PROVE  NoNumberIsLost'
<1>1. CASE Write
  BY <1>1, WriteStep, NoNumberMoves DEF HoldsBlock
<1>2. ASSUME NEW w \in Worker, Loop(w) PROVE NoNumberIsLost'
  <2>1. CASE Connect(w)
    BY <2>1, NoNumberMoves DEF Connect, HoldsBlock
  <2>2. CASE TryLock(w)
    BY <2>2, NoNumberMoves DEF TryLock, HoldsBlock, TypeOK
  <2>3. CASE Claim(w)
    <3>1. UNCHANGED <<stream, lastSeq, faults>>
      BY <2>3 DEF Claim
    <3>2. /\ pc[w] = "locked" /\ pc'[w] \in {"waiting", "claimed"}
          /\ \A v \in Worker \ {w} : /\ pc'[v] = pc[v] /\ rows'[v] = rows[v]
                                     /\ start'[v] = start[v]
      BY <2>3 DEF Claim, EndTransaction, TypeOK
    <3> QED
      BY <3>1, <3>2, NoNumberMoves DEF HoldsBlock
  <2>4. CASE Nextval(w)
    <3>1. /\ lastSeq \in Nat /\ lastSeq' = lastSeq + 1 /\ start'[w] = lastSeq'
          /\ pc'[w] = AfterNextval(w) /\ UNCHANGED <<stream, rows, faults>>
      BY <2>4 DEF Nextval, TypeOK
    <3>2. count(w) \in Nat \ {0}
      BY <2>4 DEF Nextval, OneAssigner, InTransaction, ClaimIsSound, TypeOK, count
    <3>3. \A v \in Worker \ {w} : ~HoldsBlock(v) /\ ~HoldsBlock(v)'
      BY <2>4, OthersHaveNoClaim DEF Nextval, HoldsBlock, InTransaction, TypeOK
    <3>4. ~HoldsBlock(w) /\ HoldsBlock(w)'
      BY <2>4, <3>1 DEF Nextval, HoldsBlock, AfterNextval
    <3>5. ASSUME faults = 0, NEW n \in 1..lastSeq'
          PROVE  InUse(n)' \/ start'[w] <= n
      <4>1. n \in 1..lastSeq \/ n = lastSeq'
        BY <3>1
      <4>2. CASE n \in 1..lastSeq
        BY <3>1, <3>3, <3>4, <3>5, <4>2 DEF NoNumberIsLost, InUse
      <4> QED
        BY <3>1, <4>1, <4>2
    <3>6. pc'[w] = "reserved" => lastSeq' = start'[w] + count(w)' - 1
      <4>1. count(w)' = count(w)
        BY <3>1 DEF count
      <4>2. pc'[w] = "reserved" => count(w) = 1
        BY <3>1, <3>2 DEF AfterNextval
      <4> QED
        BY <3>1, <4>1, <4>2
    <3>7. pc'[w] # "marked" /\ \A v \in Worker \ {w} : pc'[v] \notin {"reserved", "marked"}
      BY <3>1, <3>3 DEF AfterNextval, HoldsBlock
    <3> QED
      BY <3>1, <3>4, <3>5, <3>6, <3>7 DEF NoNumberIsLost
  <2>5. CASE Setval(w)
    <3>1. /\ lastSeq \in Nat /\ start[w] = lastSeq
          /\ lastSeq' = start[w] + count(w) - 1
          /\ pc'[w] = "reserved" /\ UNCHANGED <<stream, rows, start, faults>>
      BY <2>5 DEF Setval, TypeOK, OneAssigner, LastOfBlock
    <3>2. count(w) \in Nat \ {0}
      BY <2>5 DEF Setval, OneAssigner, InTransaction, ClaimIsSound, TypeOK, count
    <3>3. \A v \in Worker \ {w} : ~HoldsBlock(v) /\ pc'[v] = pc[v]
      BY <2>5, OthersHaveNoClaim DEF Setval, HoldsBlock, InTransaction, TypeOK
    <3>4. ASSUME faults = 0, NEW n \in 1..lastSeq'
          PROVE  InUse(n)' \/ start'[w] <= n
      <4>1. CASE n < lastSeq
        BY <3>1, <3>3, <3>4, <4>1 DEF NoNumberIsLost, InUse
      <4>2. CASE ~(n < lastSeq)
        BY <3>1, <3>2, <4>2
      <4> QED
        BY <4>1, <4>2
    <3>5. HoldsBlock(w)' /\ \A v \in Worker \ {w} : pc'[v] \notin {"reserved", "marked"}
      BY <3>1, <3>3 DEF HoldsBlock
    <3>6. lastSeq' = start'[w] + count(w)' - 1
      BY <3>1 DEF count
    <3> QED
      BY <3>1, <3>4, <3>5, <3>6 DEF NoNumberIsLost
  <2>6. CASE Mark(w)
    BY <2>6, NoNumberMoves DEF Mark, HoldsBlock, TypeOK
  <2>7. CASE Commit(w)
    BY <2>7, NoNumberIsLostAtCommit
  <2>8. CASE Wake(w)
    BY <2>8, NoNumberMoves DEF Wake, StopsWaiting, HoldsBlock, TypeOK
  <2> QED
    BY <1>2, <2>1, <2>2, <2>3, <2>4, <2>5, <2>6, <2>7, <2>8 DEF Loop
<1>3. ASSUME NEW w \in Worker, OnNotify(w) \/ Poll(w) PROVE NoNumberIsLost'
  BY <1>3, NoNumberMoves DEF OnNotify, Poll, StopsWaiting, HoldsBlock, TypeOK
<1>4. ASSUME NEW w \in Worker, Faults(w) PROVE NoNumberIsLost'
  <2>1. CASE Start(w)
    BY <2>1, NoNumberMoves DEF Start, HoldsBlock, TypeOK
  <2>2. CASE Fault
    BY <2>2 DEF Fault, TypeOK, NoNumberIsLost
  <2> QED
    BY <1>4, <2>1, <2>2 DEF Faults, ConnectionLost, CommitUnacknowledged, Stop
<1>5. CASE ServerNotices
  BY <1>5, NoNumberMoves DEF ServerNotices, HoldsBlock
<1>6. CASE UNCHANGED vars
  BY <1>6, NoNumberMoves DEF vars, pubVars, HoldsBlock
<1> QED
  BY <1>1, <1>2, <1>3, <1>4, <1>5, <1>6 DEF Next

(***************************************************************************)
(* The theorems.                                                           *)
(***************************************************************************)
Inv ==
  /\ TypeOK /\ WritesAreOrdered
  /\ OneAssigner /\ StreamIsOrdered /\ NoNumberIsLost

LEMMA InitInv == Init => Inv
<1> SUFFICES ASSUME Init PROVE Inv
  OBVIOUS
<1>1. OutboxTypeOK /\ WritesAreOrdered
  BY TableInit DEF Init
<1>2. TypeOK
  BY <1>1 DEF Init, TypeOK, PC, InTransaction
<1>3. OneAssigner
  BY DEF Init, OneAssigner, InTransaction
<1>4. StreamIsOrdered
  BY DEF Init, StreamIsOrdered, PublishedOnce, ItemOrder
<1>5. NoNumberIsLost
  BY DEF Init, NoNumberIsLost
<1> QED
  BY <1>1, <1>2, <1>3, <1>4, <1>5 DEF Inv

LEMMA InvStep == Inv /\ [Next]_vars => Inv'
<1> SUFFICES ASSUME Inv, [Next]_vars PROVE Inv'
  OBVIOUS
<1>1. WritesAreOrdered'
  BY WritersStep, WritesAreOrderedStep DEF Inv, TypeOK
<1> QED
  BY <1>1, TypeStep, OneAssignerStep, StreamIsOrderedStep, NoNumberIsLostStep DEF Inv

\* The invariant on which every other theorem rests.
THEOREM Invariance == Spec => []Inv
BY InitInv, InvStep, PTL DEF Spec

\* Every variable keeps its type: a block never starts below the first number.
THEOREM TypeCorrect == Spec => []TypeOK
<1>1. Inv => TypeOK
  BY DEF Inv
<1> QED
  BY <1>1, Invariance, PTL

\* No row is published twice and no stream_seq is given twice (app/streaming/
\* publisher.py, nextval and setval under the advisory lock).
THEOREM NumbersAreUnique == Spec => []PublishedOnce
<1>1. Inv => PublishedOnce
  BY DEF Inv, StreamIsOrdered
<1> QED
  BY <1>1, Invariance, PTL

\* The stream has the order of the writes within every item, without a gap.
THEOREM ItemsAreInOrder == Spec => []ItemOrder
<1>1. Inv => ItemOrder
  BY DEF Inv, StreamIsOrdered
<1> QED
  BY <1>1, Invariance, PTL

\* While nothing fails the stream has the numbers 1, 2, ... without a hole,
\* although a block is reserved by two statements (tests/test_workers.py).
THEOREM NumbersHaveNoHole == Spec => []NumbersAreDense
<1>1. Inv => NumbersAreDense
  <2> SUFFICES ASSUME Inv, faults = 0, NEW s \in stream, NEW n \in 1..s.seq
               PROVE  InUse(n)
    BY DEF NumbersAreDense, InUse
  <2>1. s.seq \in Nat /\ lastSeq \in Nat /\ s.seq <= lastSeq
    BY DEF Inv, TypeOK, Published, OneAssigner
  <2>2. ASSUME NEW w \in Worker, HoldsBlock(w) PROVE ~(start[w] <= n)
    BY <2>1, <2>2 DEF Inv, TypeOK, OneAssigner, HoldsBlock
  <2> QED
    BY <2>1, <2>2 DEF Inv, NoNumberIsLost
<1> QED
  BY <1>1, Invariance, PTL

\* What becomes visible is above all that is visible: a cursor is enough.
THEOREM StreamIsAppendOnly == Spec => AppendOnly
<1>1. Inv /\ [Next]_vars
        => [\A s \in stream' \ stream, t \in stream : t.seq < s.seq]_vars
  <2> SUFFICES ASSUME Inv, [Next]_vars, stream' # stream
               PROVE  \A s \in stream' \ stream, t \in stream : t.seq < s.seq
    OBVIOUS
  <2>1. Promise!Publish(stream' \ stream)
    BY EveryStepPublishesABlock DEF Inv
  <2> QED
    BY <2>1 DEF Promise!Publish
<1> QED
  BY <1>1, Invariance, PTL DEF Spec, AppendOnly

\* The publishers implement StreamTable: a writer's commit is an arrival, a
\* publisher's commit a publication, every other step a stutter.
THEOREM Refinement == Spec => ImplementsStreamTable
<1>1. Init => Promise!StreamInit
  BY DEF Init, OutboxInit, Promise!StreamInit
<1>2. Inv /\ [Next]_vars => [Promise!StreamNext]_(Promise!streamVars)
  <2> SUFFICES ASSUME Inv, [Next]_vars
               PROVE  Promise!StreamNext \/ UNCHANGED Promise!streamVars
    OBVIOUS
  <2>1. CASE stream' # stream
    BY <2>1, EveryStepPublishesABlock
       DEF Inv, Promise!StreamNext, Promise!Published, Published
  <2>2. CASE stream' = stream /\ committed' # committed
    <3>1. Write
      BY <2>2, PublisherStep DEF Next, vars, outboxVars, ServerNotices
    <3>2. PICK e \in open : CommitWrite(e)
      BY <2>2, <3>1 DEF Write, InsertRow, Insert, RollbackWrite, RollbackRow
    <3>3. e \in Promise!Entry /\ e \notin committed /\ committed' = committed \cup {e}
      BY <3>2 DEF Inv, TypeOK, OutboxTypeOK, WritesAreOrdered, CommitWrite, CommitRow,
                  Entry, Promise!Entry
    <3>4. \A f \in committed : f.id # e.id /\ (f.item = e.item => f.id < e.id)
      BY <3>3 DEF Inv, WritesAreOrdered
    <3> QED
      BY <2>2, <3>3, <3>4 DEF Promise!StreamNext, Promise!Arrive
  <2>3. CASE UNCHANGED <<stream, committed>>
    BY <2>3 DEF Promise!streamVars
  <2> QED
    BY <2>1, <2>2, <2>3
<1> QED
  BY <1>1, <1>2, Invariance, PTL DEF Spec, ImplementsStreamTable, Promise!StreamSpec
=============================================================================
