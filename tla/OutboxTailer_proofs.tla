------------------------ MODULE OutboxTailer_proofs ------------------------
(***************************************************************************)
(* Proofs about OutboxTailer, for any batch size, any number of events and *)
(* any publishers that keep the promise of StreamTable.                    *)
(***************************************************************************)
EXTENDS OutboxTailer, FiniteSetTheorems, SequenceTheorems, TLAPS

USE TailerAssumption

(***************************************************************************)
(* The invariant.                                                          *)
(***************************************************************************)
\* The tables: an id names one event, and what is published is committed.
TablesAgree ==
  /\ IsFiniteSet(committed)
  /\ \A e, f \in committed : e.id = f.id => e = f
  /\ \A s \in stream : EntryOf(s) \in committed

\* The batch that was read is what comes next in the stream, in order: nothing
\* between the cursor and one of its events is left out, whatever is published or
\* deleted before it is handed over.
BatchIsNext ==
  /\ \A i, j \in DOMAIN fetched : i < j => fetched[i].seq < fetched[j].seq
  /\ \A f \in Range(fetched) :
       /\ cursor < f.seq
       /\ \A s \in Retained : cursor < s.seq /\ s.seq <= f.seq => s \in Range(fetched)

\* The cursor is the number of an event, so that what is published later is
\* above it.
CursorIsReal == cursor = 0 \/ \E s \in stream : s.seq = cursor

\* What the cursor has passed since the start has been handed over.
NothingIsPassedOver ==
  \A s \in Retained : origin < s.seq /\ s.seq <= cursor => s \in Range(handed)

\* What a request of GET /health knows after each of its reads.
AnswerIsSound ==
  /\ health.since \subseteq committed
  /\ health.todo \in {<<>>, Reads, Tail(Reads), Tail(Tail(Reads))}
  /\ health.todo = Tail(Reads) /\ health.pending = 0 =>
       \A e \in health.since : \E s \in stream : EntryOf(s) = e
  /\ health.todo = Tail(Tail(Reads)) /\ health.pending = 0 =>
       \A e \in health.since :
         \E s \in stream : EntryOf(s) = e /\ (s \in trimmed \/ s.seq <= health.head)

Inv ==
  /\ TypeOK
  /\ TablesAgree
  /\ BatchIsNext
  /\ CursorIsReal
  /\ NothingIsPassedOver
  /\ AnswerIsSound

(***************************************************************************)
(* Lemmas.                                                                 *)
(***************************************************************************)
\* The reads of a request, one by one.
LEMMA TheReads ==
  /\ Reads # <<>> /\ Head(Reads) = "pending"
  /\ Tail(Reads) # <<>> /\ Head(Tail(Reads)) = "head"
  /\ Tail(Tail(Reads)) # <<>> /\ Head(Tail(Tail(Reads))) = "cursor"
  /\ Reads # Tail(Reads) /\ Tail(Reads) # Tail(Tail(Reads))
  /\ Reads # Tail(Tail(Reads))
  /\ Reads \in Seq({"pending", "head", "cursor"})
  /\ Tail(Reads) \in Seq({"pending", "head", "cursor"})
  /\ Tail(Tail(Reads)) \in Seq({"pending", "head", "cursor"})
<1>1. Tail(Reads) = <<"head", "cursor">>
  BY DEF Reads
<1>2. Tail(<<"head", "cursor">>) = <<"cursor">>
  OBVIOUS
<1>3. Tail(Tail(Reads)) = <<"cursor">>
  BY <1>1, <1>2, Zenon
<1> QED
  BY <1>1, <1>3 DEF Reads

\* The rows of a sequence, and of two of them one after the other.
LEMMA EmptyRange == Range(<<>>) = {}
BY DEF Range

LEMMA ConcatRange ==
  ASSUME NEW S, NEW f \in Seq(S), NEW g \in Seq(S)
  PROVE  Range(f \o g) = Range(f) \cup Range(g)
<1>1. /\ f \o g \in Seq(S) /\ Len(f \o g) = Len(f) + Len(g)
      /\ \A i \in 1 .. Len(f) + Len(g) :
           (f \o g)[i] = IF i <= Len(f) THEN f[i] ELSE g[i - Len(f)]
  BY ConcatProperties
<1>2. /\ Len(f) \in Nat /\ Len(g) \in Nat
      /\ DOMAIN f = 1..Len(f) /\ DOMAIN g = 1..Len(g)
      /\ DOMAIN (f \o g) = 1..(Len(f) + Len(g))
  BY <1>1, LenProperties
<1>3. ASSUME NEW i \in DOMAIN (f \o g)
      PROVE  (f \o g)[i] \in Range(f) \cup Range(g)
  <2>1. CASE i <= Len(f)
    BY <1>1, <1>2, <2>1 DEF Range
  <2>2. CASE ~(i <= Len(f))
    <3>1. i - Len(f) \in DOMAIN g /\ (f \o g)[i] = g[i - Len(f)]
      BY <1>1, <1>2, <2>2
    <3> QED
      BY <3>1 DEF Range
  <2> QED
    BY <2>1, <2>2
<1>4. ASSUME NEW i \in DOMAIN f
      PROVE  f[i] \in Range(f \o g)
  <2>1. i \in DOMAIN (f \o g) /\ (f \o g)[i] = f[i]
    BY <1>1, <1>2
  <2> QED
    BY <2>1 DEF Range
<1>5. ASSUME NEW i \in DOMAIN g
      PROVE  g[i] \in Range(f \o g)
  <2>1. i + Len(f) \in DOMAIN (f \o g)
    BY <1>2
  <2>2. (i + Len(f)) - Len(f) = i /\ ~(i + Len(f) <= Len(f))
    BY <1>2
  <2>3. (f \o g)[i + Len(f)] = g[i]
    BY <1>1, <1>2, <2>1, <2>2
  <2> QED
    BY <2>1, <2>3 DEF Range
<1> QED
  BY <1>3, <1>4, <1>5 DEF Range

\* What a concatenation has added to its first part is its second.
LEMMA ConcatAdds ==
  ASSUME NEW S, NEW f \in Seq(S), NEW g \in Seq(S), g # <<>>
  PROVE  SubSeq(f \o g, Len(f) + 1, Len(f \o g)) = g
<1>1. Len(f) \in Nat /\ Len(g) \in Nat \ {0} /\ Len(f \o g) = Len(f) + Len(g)
  BY ConcatProperties, LenProperties, EmptySeq
<1>2. /\ Len(f) + 1 \in Len(f) + 1 .. Len(f) + Len(g)
      /\ Len(f) + Len(g) \in Len(f) + 1 .. Len(f) + Len(g)
      /\ Len(f) + 1 - Len(f) = 1 /\ Len(f) + Len(g) - Len(f) = Len(g)
  BY <1>1
<1>3. SubSeq(f \o g, Len(f) + 1, Len(f) + Len(g)) =
        SubSeq(g, Len(f) + 1 - Len(f), Len(f) + Len(g) - Len(f))
  BY <1>2, SubSeqOfConcat2
<1> QED
  BY <1>1, <1>2, <1>3, SubSeqFull

\* The last row of a batch in order has its highest number.
LEMMA LastIsHighest ==
  ASSUME Inv, fetched # <<>>
  PROVE  /\ fetched[Len(fetched)] \in Range(fetched)
         /\ \A f \in Range(fetched) : f.seq <= fetched[Len(fetched)].seq
         /\ \A f \in Range(fetched) : f \in Published
<1>1. Len(fetched) \in Nat \ {0} /\ DOMAIN fetched = 1..Len(fetched)
  BY EmptySeq, LenProperties DEF Inv, TypeOK
<1>2. \A i \in DOMAIN fetched : fetched[i] \in Published
  BY <1>1, ElementOfSeq DEF Inv, TypeOK
<1>3. \A i \in DOMAIN fetched : fetched[i].seq <= fetched[Len(fetched)].seq
  BY <1>1, <1>2 DEF Inv, BatchIsNext, Published
<1> QED
  BY <1>1, <1>2, <1>3 DEF Range

\* A writer's commit adds an event that is not in the stream.
LEMMA WriteStep ==
  ASSUME Inv, NEW i \in Item, WriterCommits(i)
  PROVE  /\ TablesAgree'
         /\ committed' \subseteq Entry /\ committed \subseteq committed'
         /\ UNCHANGED <<stream, trimmed, loopVars, signalVars, health, faults>>
<1> DEFINE e == [id |-> Cardinality(committed) + 1, item |-> i]
<1>1. /\ committed' = committed \cup {e}
      /\ \A f \in committed : f.id # e.id
      /\ UNCHANGED <<stream, trimmed, loopVars, signalVars, health, faults>>
  BY DEF WriterCommits, Arrive
<1>2. IsFiniteSet(committed) /\ Cardinality(committed) \in Nat
  BY FS_CardinalityType DEF Inv, TablesAgree
<1>3. e \in Entry
  BY <1>2 DEF Entry
<1>4. IsFiniteSet(committed')
  BY <1>1, <1>2, FS_AddElement
<1> QED
  BY <1>1, <1>3, <1>4 DEF Inv, TypeOK, TablesAgree

\* A publisher's commit adds events above all that is visible.
LEMMA PublishStep ==
  ASSUME Inv, NEW E \in SUBSET Unpublished, NEW seq \in [E -> 1..MaxSeq],
         PublisherCommits(Numbered(E, seq))
  PROVE  /\ TablesAgree'
         /\ stream \subseteq stream' /\ stream' \subseteq Published
         /\ \A s \in stream' \ stream, t \in stream : t.seq < s.seq
         /\ UNCHANGED <<committed, trimmed, loopVars, wakeup, health, faults>>
         /\ notice' = (notice \/ connected)
<1> DEFINE block == Numbered(E, seq)
<1>1. /\ stream' = stream \cup block
      /\ \A s \in block : /\ EntryOf(s) \in committed
                          /\ \A t \in stream : t.seq < s.seq
      /\ UNCHANGED <<committed, trimmed, loopVars, wakeup, health, faults>>
      /\ notice' = (notice \/ connected)
  BY DEF PublisherCommits, Publish
<1>2. block \subseteq Published
  <2>1. E \subseteq Entry
    BY DEF Inv, TypeOK, Unpublished
  <2>2. ASSUME NEW e \in E
        PROVE  [id |-> e.id, item |-> e.item, seq |-> seq[e]] \in Published
    <3>1. e.id \in Nat \ {0} /\ e.item \in Item
      BY <2>1 DEF Entry
    <3>2. seq[e] \in Nat \ {0}
      OBVIOUS
    <3> QED
      BY <3>1, <3>2 DEF Published
  <2> QED
    BY <2>2 DEF Numbered
<1>3. TablesAgree'
  BY <1>1 DEF Inv, TablesAgree
<1> QED
  BY <1>1, <1>2, <1>3 DEF Inv, TypeOK

\* Neither a write nor a publication disturbs the reader.
LEMMA TablesStep ==
  ASSUME Inv,
         TablesAgree', committed' \subseteq Entry, committed \subseteq committed',
         stream \subseteq stream', stream' \subseteq Published,
         \A s \in stream' \ stream, t \in stream : t.seq < s.seq,
         UNCHANGED <<trimmed, loopVars, wakeup, health, faults>>,
         notice' \in BOOLEAN, notice' => notice \/ connected
  PROVE  Inv'
<1> USE DEF Inv, loopVars
<1>1. TypeOK'
  BY DEF TypeOK
<1>2. BatchIsNext'
  BY DEF TypeOK, BatchIsNext, Retained, Published
<1>3. CursorIsReal'
  BY DEF CursorIsReal
<1>4. NothingIsPassedOver'
  <2>1. \A s \in stream' \ stream : cursor < s.seq
    BY DEF CursorIsReal, TypeOK, Published
  <2> QED
    BY <2>1 DEF NothingIsPassedOver, Retained, TypeOK, Published
<1>5. AnswerIsSound'
  BY DEF AnswerIsSound
<1> QED
  BY <1>1, <1>2, <1>3, <1>4, <1>5

\* A step of the loop, of a signal or of a fault leaves the tables and the
\* request alone.
LEMMA FrameStep ==
  ASSUME Inv, UNCHANGED <<streamVars, trimmed>>, health' \in {health, NoRequest}
  PROVE  TablesAgree' /\ AnswerIsSound'
<1>1. TablesAgree'
  BY DEF Inv, TablesAgree, streamVars
<1>2. CASE health' = health
  BY <1>1, <1>2 DEF Inv, AnswerIsSound, streamVars
<1>3. CASE health' = NoRequest
  <2>1. health'.todo = <<>> /\ health'.since = {}
    BY <1>3 DEF NoRequest
  <2> QED
    BY <1>1, <2>1, TheReads DEF AnswerIsSound
<1> QED
  BY <1>2, <1>3

\* _TAIL_SQL returns what comes next after the cursor.
LEMMA FetchStep ==
  ASSUME Inv, Fetch
  PROVE  Inv'
<1> USE DEF Inv
<1> PICK page \in Answers :
           /\ IsPage(page)
           /\ fetched' = page
           /\ pc' = IF page = <<>> THEN "waiting" ELSE "fetched"
  BY DEF Fetch
<1>0. /\ page \in Seq(Published) /\ Range(page) \subseteq Unread
      /\ Unread \subseteq stream /\ stream \subseteq Published
  <2>1. PICK n \in 0..Cardinality(Unread) : page \in [1..n -> Unread]
    BY DEF Answers
  <2>2. Unread \subseteq stream /\ stream \subseteq Published
    BY DEF Unread, Retained, TypeOK
  <2>3. n \in Nat /\ page \in [1..n -> Published]
    BY <2>1, <2>2
  <2>4. page \in Seq(Published)
    BY <2>3, SeqDef
  <2> QED
    BY <2>1, <2>2, <2>4 DEF Range
<1>1. TypeOK'
  BY <1>0 DEF Fetch, TypeOK, streamVars, signalVars, IsPage, PC
<1>2. BatchIsNext'
  <2>1. ASSUME NEW f \in Range(page), NEW s \in Retained, cursor < s.seq, s.seq <= f.seq
        PROVE  s \in Range(page)
    <3>1. s \in Unread /\ s.seq \in Nat /\ f.seq \in Nat
      BY <1>0, <2>1 DEF Unread, Retained, Published
    <3>2. s \in Range(page) \/ f.seq < s.seq
      BY <3>1 DEF IsPage, Range
    <3> QED
      BY <2>1, <3>1, <3>2
  <2>2. \A f \in Range(page) : cursor < f.seq
    BY <1>0 DEF Unread
  <2>3. fetched' = page /\ cursor' = cursor /\ Retained' = Retained
    BY DEF Fetch, streamVars, Retained
  <2> QED
    BY <2>1, <2>2, <2>3 DEF IsPage, BatchIsNext
<1>3. CursorIsReal' /\ NothingIsPassedOver'
  BY DEF Fetch, streamVars, CursorIsReal, NothingIsPassedOver, Retained
<1> QED
  BY <1>1, <1>2, <1>3, FrameStep DEF Fetch

\* The batch goes to the hub and the cursor to its last event.
LEMMA DeliverStep ==
  ASSUME Inv, Deliver
  PROVE  Inv'
<1> USE DEF Inv
<1> DEFINE last == fetched[Len(fetched)]
<1>0. /\ cursor' = last.seq /\ handed' = handed \o fetched /\ fetched' = <<>>
      /\ UNCHANGED <<streamVars, trimmed, connected, origin, signalVars, health, faults>>
      /\ fetched # <<>>
  BY DEF Deliver, TypeOK
<1>1. last \in Range(fetched) /\ last \in stream /\ last.seq \in Nat /\ cursor < last.seq
  BY <1>0, LastIsHighest DEF TypeOK, BatchIsNext, Published
<1> HIDE DEF last
<1>2. handed' \in Seq(Published) /\ Range(handed') = Range(handed) \cup Range(fetched)
  BY <1>0, ConcatProperties, ConcatRange DEF TypeOK
<1>3. TypeOK'
  <2>1. pc' \in PC \ {"fetched"}
    BY DEF Deliver, AfterBatch, PC
  <2>2. /\ <<>> \in Seq(Published) /\ Range(<<>>) \subseteq stream
        /\ Len(<<>>) <= TailBatch
    BY EmptySeq, EmptyRange
  <2> QED
    BY <1>0, <1>1, <1>2, <2>1, <2>2 DEF TypeOK, streamVars, signalVars
<1>4. BatchIsNext'
  BY <1>0, EmptyRange DEF BatchIsNext
<1>5. CursorIsReal'
  BY <1>0, <1>1 DEF CursorIsReal, streamVars
<1>6. NothingIsPassedOver'
  BY <1>0, <1>1, <1>2 DEF TypeOK, NothingIsPassedOver, BatchIsNext, streamVars, Retained,
                         Published
<1> QED
  BY <1>0, <1>3, <1>4, <1>5, <1>6, FrameStep

\* Without a connection there is neither a batch nor a notice.
LEMMA Disconnected ==
  ASSUME Inv, UNCHANGED <<streamVars, trimmed>>, Fault,
         connected' = FALSE, notice' = FALSE, wakeup' \in BOOLEAN, fetched' = <<>>,
         pc' \in PC \ {"fetched"}, origin' \in Nat, cursor' \in Nat,
         handed' \in Seq(Published), Range(handed') \subseteq stream, health' \in Health
  PROVE  TypeOK'
<1>1. /\ <<>> \in Seq(Published) /\ Range(<<>>) \subseteq stream
      /\ Len(<<>>) <= TailBatch
  BY EmptySeq, EmptyRange
<1>2. faults' \in 0..MaxFaults
  BY DEF Fault, Inv, TypeOK
<1> QED
  BY <1>1, <1>2 DEF Inv, TypeOK, streamVars

\* Starting, connecting, waking and losing the connection.
LEMMA LoopStep ==
  ASSUME Inv,
         StartUp \/ ReadNewest \/ Connect \/ StopsWaiting \/ OnNotify
           \/ ConnectionLost \/ Stop
  PROVE  Inv'
<1> USE DEF Inv
<1>1. CASE StartUp
  <2>1. TypeOK'
    BY <1>1 DEF StartUp, TypeOK, streamVars, signalVars, PC
  <2>2. BatchIsNext' /\ CursorIsReal' /\ NothingIsPassedOver'
    BY <1>1 DEF StartUp, BatchIsNext, CursorIsReal, NothingIsPassedOver, streamVars, Retained
  <2> QED
    BY <1>1, <2>1, <2>2, FrameStep DEF StartUp
<1>2. CASE ReadNewest
  <2> PICK n \in {0} \cup {s.seq : s \in Retained} :
             IsNewest(n) /\ origin' = n /\ cursor' = n
    BY <1>2 DEF ReadNewest
  <2>1. TypeOK'
    BY <1>2, EmptySeq, EmptyRange
       DEF ReadNewest, TypeOK, streamVars, signalVars, PC, Retained, Published
  <2>2. BatchIsNext'
    BY <1>2, EmptyRange DEF ReadNewest, TypeOK, BatchIsNext
  <2>3. CursorIsReal'
    BY <1>2 DEF ReadNewest, CursorIsReal, IsNewest, streamVars, Retained
  <2>4. NothingIsPassedOver'
    BY <1>2 DEF ReadNewest, NothingIsPassedOver, TypeOK, streamVars, Retained, Published
  <2> QED
    BY <1>2, <2>1, <2>2, <2>3, <2>4, FrameStep DEF ReadNewest
<1>3. CASE Connect
  <2>1. TypeOK'
    BY <1>3 DEF Connect, TypeOK, streamVars, signalVars
  <2>2. BatchIsNext' /\ CursorIsReal' /\ NothingIsPassedOver'
    BY <1>3 DEF Connect, BatchIsNext, CursorIsReal, NothingIsPassedOver, streamVars, Retained
  <2> QED
    BY <1>3, <2>1, <2>2, FrameStep DEF Connect
<1>4. CASE StopsWaiting
  <2>1. TypeOK'
    BY <1>4 DEF StopsWaiting, TypeOK, streamVars, PC
  <2>2. BatchIsNext' /\ CursorIsReal' /\ NothingIsPassedOver'
    BY <1>4 DEF StopsWaiting, BatchIsNext, CursorIsReal, NothingIsPassedOver, streamVars, Retained
  <2> QED
    BY <1>4, <2>1, <2>2, FrameStep DEF StopsWaiting
<1>5. CASE OnNotify
  <2>1. TypeOK'
    BY <1>5 DEF OnNotify, TypeOK, streamVars, loopVars
  <2>2. BatchIsNext' /\ CursorIsReal' /\ NothingIsPassedOver'
    BY <1>5 DEF OnNotify, BatchIsNext, CursorIsReal, NothingIsPassedOver, streamVars, loopVars,
                Retained
  <2> QED
    BY <1>5, <2>1, <2>2, FrameStep DEF OnNotify
<1>6. CASE ConnectionLost
  <2>1. TypeOK'
    <3>1. pc' \in PC \ {"fetched"}
      BY <1>6 DEF ConnectionLost, AfterLoss, TypeOK, PC
    <3> QED
      BY <1>6, <3>1, Disconnected DEF ConnectionLost, TypeOK
  <2>2. BatchIsNext' /\ CursorIsReal' /\ NothingIsPassedOver'
    BY <1>6, EmptyRange DEF ConnectionLost, BatchIsNext, CursorIsReal, NothingIsPassedOver, streamVars,
                Retained
  <2> QED
    BY <1>6, <2>1, <2>2, FrameStep DEF ConnectionLost
<1>7. CASE Stop
  <2>1. TypeOK'
    <3>1. health' \in Health
      BY <1>7 DEF Stop, NoRequest, Health
    <3>2. pc' \in PC \ {"fetched"}
      BY <1>7 DEF Stop, PC
    <3> QED
      BY <1>7, <3>1, <3>2, Disconnected, EmptySeq, EmptyRange DEF Stop
  <2>2. BatchIsNext' /\ CursorIsReal'
    BY <1>7, EmptyRange DEF Stop, BatchIsNext, CursorIsReal
  <2>3. NothingIsPassedOver'
    BY <1>7 DEF Stop, NothingIsPassedOver, TypeOK, streamVars, Retained, Published
  <2> QED
    BY <1>7, <2>1, <2>2, <2>3, FrameStep DEF Stop
<1> QED
  BY <1>1, <1>2, <1>3, <1>4, <1>5, <1>6, <1>7

\* The three reads of GET /health.
LEMMA HealthStep ==
  ASSUME Inv, HealthRequest \/ ReadPending \/ ReadHead \/ HealthAnswer
  PROVE  Inv'
<1> USE DEF Inv
<1>1. /\ UNCHANGED <<streamVars, trimmed, loopVars, signalVars, faults>>
      /\ TablesAgree' /\ BatchIsNext' /\ CursorIsReal' /\ NothingIsPassedOver'
  <2>1. UNCHANGED <<streamVars, trimmed, loopVars, signalVars, faults>>
    BY DEF HealthRequest, ReadPending, ReadHead, HealthAnswer, NextRead
  <2> QED
    BY <2>1 DEF TablesAgree, BatchIsNext, CursorIsReal, NothingIsPassedOver, streamVars,
                loopVars, Retained
<1>2. ASSUME health' \in Health  PROVE TypeOK'
  BY <1>1, <1>2 DEF TypeOK, streamVars, loopVars, signalVars
<1>3. CASE HealthRequest
  <2>1. health' = [todo |-> Reads, since |-> committed, pending |-> 0, head |-> 0]
    BY <1>3 DEF HealthRequest, NoRequest
  <2>2. health' \in Health
    BY <2>1, TheReads DEF TypeOK, Health
  <2>3. AnswerIsSound'
    BY <1>1, <2>1, TheReads DEF AnswerIsSound, streamVars
  <2> QED
    BY <1>1, <1>2, <2>2, <2>3
<1>4. CASE ReadPending
  <2>1. /\ health.todo = Reads
        /\ health' = [todo |-> Tail(Reads), since |-> health.since,
                      pending |-> Cardinality(Unpublished), head |-> health.head]
    BY <1>4, TheReads DEF ReadPending, NextRead, Read, AnswerIsSound, TypeOK, Health
  <2>2. IsFiniteSet(Unpublished)
    BY FS_Subset DEF TablesAgree, Unpublished
  <2>3. health' \in Health
    BY <2>1, <2>2, TheReads, FS_CardinalityType DEF TypeOK, Health
  <2>4. ASSUME Cardinality(Unpublished) = 0, NEW e \in committed
        PROVE  \E s \in stream : EntryOf(s) = e
    <3>1. Unpublished = {}
      BY <2>2, <2>4, FS_EmptySet
    <3>2. PICK s \in stream : s.id = e.id
      BY <3>1 DEF Unpublished
    <3>3. EntryOf(s) \in committed /\ EntryOf(s).id = e.id
      BY <3>2 DEF TablesAgree, EntryOf
    <3> QED
      BY <3>3 DEF TablesAgree
  <2>5. AnswerIsSound'
    <3>1. health'.since \subseteq committed'
      BY <1>1, <2>1 DEF AnswerIsSound, streamVars
    <3>2. health'.pending = 0 => \A e \in health'.since : \E s \in stream' : EntryOf(s) = e
      BY <1>1, <2>1, <2>4 DEF AnswerIsSound, streamVars
    <3>3. health'.todo = Tail(Reads)
      BY <2>1
    <3>4. health'.todo # Tail(Tail(Reads))
      BY <3>3, TheReads
    <3> QED
      BY <3>1, <3>2, <3>3, <3>4 DEF AnswerIsSound
  <2> QED
    BY <1>1, <1>2, <2>3, <2>5
<1>5. CASE ReadHead
  <2> PICK n \in {0} \cup {s.seq : s \in Retained} :
             IsNewest(n) /\ health' = [Read EXCEPT !.head = n]
    BY <1>5 DEF ReadHead
  <2>1. /\ health.todo = Tail(Reads)
        /\ health' = [todo |-> Tail(Tail(Reads)), since |-> health.since,
                      pending |-> health.pending, head |-> n]
    BY <1>5, TheReads DEF ReadHead, NextRead, Read, AnswerIsSound, TypeOK, Health
  <2>2. health' \in Health
    <3>1. n \in Nat
      BY DEF TypeOK, Retained, Published
    <3>2. health.since \subseteq Entry /\ health.pending \in Nat
      BY DEF TypeOK, Health
    <3>3. Tail(Tail(Reads)) \in Seq({"pending", "head", "cursor"})
      BY TheReads
    <3>4. ASSUME NEW t \in Seq({"pending", "head", "cursor"})
          PROVE  [todo |-> t, since |-> health.since, pending |-> health.pending,
                  head |-> n] \in Health
      BY <3>1, <3>2 DEF Health
    <3> QED
      BY <2>1, <3>3, <3>4, Zenon
  <2>3. AnswerIsSound'
    <3>1. health'.since \subseteq committed'
      BY <1>1, <2>1 DEF AnswerIsSound, streamVars
    <3>2. health'.pending = 0 =>
            \A e \in health'.since :
              \E s \in stream' :
                EntryOf(s) = e /\ (s \in trimmed' \/ s.seq <= health'.head)
      BY <1>1, <2>1 DEF AnswerIsSound, streamVars, IsNewest, Retained
    <3>3. health'.todo = Tail(Tail(Reads))
      BY <2>1, SMTT(30)
    <3>4. health'.todo # Tail(Reads)
      BY <3>3, TheReads
    <3> QED
      BY <3>1, <3>2, <3>3, <3>4 DEF AnswerIsSound
  <2> QED
    BY <1>1, <1>2, <2>2, <2>3
<1>6. CASE HealthAnswer
  <2>1. health' = NoRequest
    BY <1>6 DEF HealthAnswer
  <2>2. health' \in Health
    BY <2>1 DEF NoRequest, Health
  <2> QED
    BY <1>1, <1>2, <2>1, <2>2, FrameStep
<1> QED
  BY <1>3, <1>4, <1>5, <1>6

(***************************************************************************)
(* Theorems.                                                               *)
(***************************************************************************)
LEMMA InitInv == Init => Inv
<1> SUFFICES ASSUME Init  PROVE Inv
  OBVIOUS
<1>1. TypeOK
  <2>1. health \in Health
    BY DEF Init, NoRequest, Health
  <2>2. /\ <<>> \in Seq(Published) /\ Range(<<>>) \subseteq stream
        /\ Len(<<>>) <= TailBatch
    BY EmptySeq, EmptyRange
  <2>3. 0 \in 0..MaxFaults /\ "down" \in PC
    BY DEF PC
  <2> QED
    BY <2>1, <2>2, <2>3 DEF Init, StreamInit, TypeOK
<1>2. TablesAgree
  BY FS_EmptySet DEF Init, StreamInit, TablesAgree
<1>3. BatchIsNext /\ CursorIsReal /\ NothingIsPassedOver
  BY EmptyRange DEF Init, StreamInit, BatchIsNext, CursorIsReal, NothingIsPassedOver, Retained
<1>4. AnswerIsSound
  <2>1. health.todo = <<>> /\ health.since = {}
    BY DEF Init, NoRequest
  <2> QED
    BY <2>1, TheReads DEF AnswerIsSound
<1> QED
  BY <1>1, <1>2, <1>3, <1>4 DEF Inv

\* Retention may delete any event of the stream, also one that was read but not
\* yet handed over.
LEMMA RetentionStep ==
  ASSUME Inv, NEW s \in Retained, RetentionDeletes(s)
  PROVE  Inv'
<1> USE DEF Inv, loopVars, signalVars, streamVars, RetentionDeletes
<1>1. TypeOK' /\ TablesAgree'
  BY DEF TypeOK, TablesAgree, Retained
<1>2. BatchIsNext' /\ CursorIsReal' /\ NothingIsPassedOver'
  BY DEF BatchIsNext, CursorIsReal, NothingIsPassedOver, Retained
<1>3. AnswerIsSound'
  BY DEF AnswerIsSound
<1> QED
  BY <1>1, <1>2, <1>3

LEMMA InvStep == Inv /\ [Next]_vars => Inv'
<1> SUFFICES ASSUME Inv, [Next]_vars  PROVE Inv'
  OBVIOUS
<1>1. CASE UNCHANGED vars
  BY <1>1 DEF vars, streamVars, loopVars, signalVars, Inv, TypeOK, TablesAgree, BatchIsNext,
              CursorIsReal, NothingIsPassedOver, AnswerIsSound, Retained
<1>2. CASE Environment
  <2>1. ASSUME NEW i \in Item, WriterCommits(i)  PROVE Inv'
    <3>1. notice' = notice
      BY <2>1 DEF WriterCommits, signalVars
    <3>2. /\ stream' = stream /\ stream \subseteq Published /\ notice \in BOOLEAN
          /\ UNCHANGED <<trimmed, loopVars, wakeup, health, faults>>
      BY <2>1, WriteStep DEF Inv, TypeOK, signalVars
    <3> QED
      BY <2>1, <3>1, <3>2, WriteStep, TablesStep
  <2>2. ASSUME NEW E \in SUBSET Unpublished, NEW seq \in [E -> 1..MaxSeq],
               PublisherCommits(Numbered(E, seq))
        PROVE  Inv'
    <3>1. /\ committed' \subseteq Entry /\ committed \subseteq committed'
          /\ notice' \in BOOLEAN /\ (notice' => notice \/ connected)
      BY <2>2, PublishStep DEF Inv, TypeOK
    <3> QED
      BY <2>2, <3>1, PublishStep, TablesStep
  <2> QED
    BY <1>2, <2>1, <2>2, RetentionStep DEF Environment
<1>3. CASE Loop \/ Poll \/ StartUp \/ OnNotify \/ ConnectionLost \/ Stop
  BY <1>3, FetchStep, DeliverStep, LoopStep DEF Loop, Poll, Wake
<1> QED
  BY <1>1, <1>2, <1>3, HealthStep DEF Next

\* The invariant holds in every state, for every batch size and every number of
\* events, deletions and faults.
THEOREM InvHolds == Spec => []Inv
<1> QED
  BY InitInv, InvStep, PTL DEF Spec

\* The tailer holds at most one batch, and only between the SELECT and the hub.
THEOREM TypeCorrect == Spec => []TypeOK
<1>1. Inv => TypeOK
  BY DEF Inv
<1> QED
  BY InvHolds, <1>1, PTL

\* The tailer of tailer.py keeps the promise of TailFeed to its hub: what it hands
\* over is the stream from the start to the cursor, each event once and in the order
\* of stream_seq, but for those deleted first.
THEOREM Refinement == Spec => ImplementsTailFeed
<1>1. Init => Feed!FeedInit
  BY DEF Init, StreamInit, Feed!FeedInit
<1>2. Inv /\ [Next]_vars => [Feed!FeedNext]_(Feed!feedVars)
  <2> SUFFICES ASSUME Inv, [Next]_vars  PROVE Feed!FeedNext \/ UNCHANGED Feed!feedVars
    OBVIOUS
  <2> USE DEF Feed!feedVars
  <2>1. CASE UNCHANGED vars
    BY <2>1 DEF vars, streamVars, loopVars
  <2>2. ASSUME NEW i \in Item, WriterCommits(i)  PROVE UNCHANGED Feed!feedVars
    BY <2>2, WriteStep DEF loopVars
  <2>3. ASSUME NEW E \in SUBSET Unpublished, NEW seq \in [E -> 1..MaxSeq],
               PublisherCommits(Numbered(E, seq))
        PROVE  Feed!Change
    BY <2>3, PublishStep DEF loopVars, Feed!Change
  <2>4. ASSUME NEW s \in Retained, RetentionDeletes(s)  PROVE Feed!Change
    BY <2>4 DEF RetentionDeletes, streamVars, loopVars, Feed!Change
  <2>5. ASSUME ReadNewest  PROVE Feed!FeedNext
    <3> PICK n \in {0} \cup {s.seq : s \in Retained} :
               IsNewest(n) /\ origin' = n /\ cursor' = n
      BY <2>5 DEF ReadNewest
    <3>1. /\ \A s \in stream \ trimmed : s.seq <= n
          /\ n = 0 \/ \E s \in stream \ trimmed : s.seq = n
      BY DEF IsNewest, Retained
    <3>2. handed' = <<>> /\ UNCHANGED <<stream, trimmed>>
      BY <2>5 DEF ReadNewest, streamVars
    <3> QED
      BY <3>1, <3>2 DEF Feed!FeedNext, Feed!Begin, Feed!Retained
  <2>6. ASSUME Deliver  PROVE Feed!FeedNext
    <3>1. /\ cursor' = fetched[Len(fetched)].seq /\ handed' = handed \o fetched
          /\ UNCHANGED <<stream, trimmed, origin>> /\ fetched # <<>>
      BY <2>6 DEF Deliver, Inv, TypeOK, streamVars
    <3>2. fetched \in Seq(Published) /\ handed \in Seq(Published)
      BY DEF Inv, TypeOK
    <3>3. Feed!New = fetched
      BY <3>1, <3>2, ConcatAdds DEF Feed!New
    <3>4. /\ Range(fetched) \subseteq stream
          /\ \A i \in DOMAIN fetched : cursor < fetched[i].seq
          /\ \A i, j \in DOMAIN fetched : i < j => fetched[i].seq < fetched[j].seq
          /\ \A s \in stream \ trimmed :
               cursor < s.seq /\ s.seq <= fetched[Len(fetched)].seq => s \in Range(fetched)
      BY <3>1, LastIsHighest DEF Inv, TypeOK, BatchIsNext, Retained, Range
    <3>5. Feed!Range(fetched) = Range(fetched)
      BY DEF Feed!Range, Range
    <3>6. Feed!HandOver(fetched)
      BY <3>1, <3>4, <3>5 DEF Feed!HandOver, Feed!Retained
    <3> QED
      BY <3>3, <3>6 DEF Feed!FeedNext
  <2>7. CASE Stop
    BY <2>7 DEF Stop, streamVars, Feed!End, Feed!FeedNext
  <2>8. CASE \/ StartUp \/ Connect \/ Fetch \/ Wake \/ Poll \/ OnNotify \/ ConnectionLost
             \/ HealthRequest \/ ReadPending \/ ReadHead \/ HealthAnswer
    BY <2>8 DEF StartUp, Connect, Fetch, Wake, Poll, StopsWaiting, OnNotify, ConnectionLost,
                HealthRequest, ReadPending, ReadHead, HealthAnswer, NextRead, streamVars,
                loopVars
  <2> QED
    BY <2>1, <2>2, <2>3, <2>4, <2>5, <2>6, <2>7, <2>8
    DEF Next, Environment, Loop, Feed!FeedNext
<1> QED
  BY <1>1, <1>2, InvHolds, PTL DEF Spec, ImplementsTailFeed, Feed!FeedSpec

\* An answer of GET /health with nothing pending and no lag, read at three
\* moments: everything committed before the request has been handed over, was
\* there before the start or has been deleted.
THEOREM QuietAnswers == Spec => QuietMeansDelivered
<1> DEFINE Quiet == health.pending = 0 /\ health.head - cursor <= 0
           Delivered == \A e \in health.since :
                          \E s \in stream :
                            /\ EntryOf(s) = e
                            /\ s \in Range(handed) \cup trimmed \/ s.seq <= origin
<1>1. ASSUME Inv, HealthAnswer, Quiet  PROVE Delivered
  <2>1. health.todo = Tail(Tail(Reads))
    BY <1>1, TheReads DEF HealthAnswer, NextRead, Inv, AnswerIsSound
  <2>2. \A e \in health.since :
          \E s \in stream : EntryOf(s) = e /\ (s \in trimmed \/ s.seq <= health.head)
    BY <1>1, <2>1 DEF Inv, AnswerIsSound
  <2>3. health.head \in Nat /\ cursor \in Nat /\ origin \in Nat /\ stream \subseteq Published
    BY <1>1 DEF Inv, TypeOK, Health
  <2>4. ASSUME NEW s \in stream, s.seq <= health.head
        PROVE  s \in Range(handed) \cup trimmed \/ s.seq <= origin
    BY <1>1, <2>3, <2>4 DEF Inv, NothingIsPassedOver, Retained, Published
  <2> QED
    BY <2>2, <2>4
<1>2. Inv /\ [Next]_vars => [HealthAnswer /\ Quiet => Delivered]_vars
  BY <1>1
<1> QED
  BY <1>2, InvHolds, PTL DEF Spec, QuietMeansDelivered
=============================================================================
