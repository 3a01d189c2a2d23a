--------------------------- MODULE Resync_proofs ---------------------------
(***************************************************************************)
(* Proofs about Resync, for any number of items and writes, any page size  *)
(* any number of lost connections and refused cursors, and whatever        *)
(* retention deletes.                                                      *)
(***************************************************************************)
EXTENDS Resync, SequenceTheorems, TLAPS

USE ResyncAssumption

(***************************************************************************)
(* The invariant.                                                          *)
(***************************************************************************)
\* e is the last event of i so far.
IsLast(i, e) ==
  e.item = i /\ e.version = version[i] /\ (e.deletes <=> ~IsRow(i))

\* The events of an item count its writes, in the stream and then outside of it.
EventsAreSound ==
  /\ \A i \in Item : version[i] = 0 => ~IsRow(i)
  /\ \A e \in pending : e.version <= version[e.item]
  /\ \A k \in 1..Len(stream) : stream[k].version <= version[stream[k].item]
  /\ \A e, f \in pending : e.item = f.item /\ e.version = f.version => e = f
  /\ \A e \in pending : \A k \in 1..Len(stream) :
       stream[k].item = e.item => stream[k].version < e.version
  /\ \A j, k \in 1..Len(stream) :
       j < k /\ stream[j].item = stream[k].item => stream[j].version < stream[k].version
  /\ \A i \in Item : version[i] # 0 =>
       \/ \E e \in pending : IsLast(i, e)
       \/ \E k \in 1..Len(stream) : IsLast(i, stream[k])

\* The events that have come since the client connected.
Got == (joined + 1..sent) \ missed

\* What the client has of its connection: joined is where the cursor began, and
\* the connection is past the cursor only by events it has missed.
ConnectionIsSound ==
  /\ phase # "count" => page = <<>>
  /\ phase \in {"list", "count"} => cursor = 0 /\ sent = 0 /\ joined = 0
  /\ phase = "offline" => sent = cursor
  /\ cursor # 0 => joined < cursor /\ cursor + 1..sent \subseteq missed
  /\ phase = "following" /\ cursor = 0 => joined <= sent /\ joined + 1..sent \subseteq missed

\* The copy shows the last event of an item that has come.
ReceivedIsShown ==
  \A k \in Got :
    (\A j \in Got : k < j => stream[j].item # stream[k].item) =>
      mirror[stream[k].item] = IF stream[k].deletes THEN 0 ELSE stream[k].version

NoneReceived(i) == \A k \in Got : stream[k].item # i

\* Position p of i has been read if the list is past it.
PositionIsRead(i, p) ==
  /\ phase \in {"list", "count"} /\ p <= RowsRead =>
       mirror[i] = version[i] \/ \E k \in 1..Len(page) : page[k].item = i
  /\ phase \in {"offline", "following"} /\ NoneReceived(i) => mirror[i] = version[i]

\* An item that nobody has written and no deletion has moved onto a page that had
\* been read is listed rightly; creations only move it further down.
ListIsSound ==
  /\ phase = "list" /\ offset = 0 => \A i \in Item : mirror[i] = 0
  /\ \A i \in Item \ (touched \cup shifted) :
       /\ \A k \in 1..Len(page) : page[k].item = i => IsRow(i) /\ page[k].version = version[i]
       /\ ~IsRow(i) /\ NoneReceived(i) => mirror[i] = 0
       /\ \A p \in 1..Len(table) : table[p] = i => PositionIsRead(i, p)

Inv ==
  /\ TypeOK
  /\ EventsAreSound
  /\ ConnectionIsSound
  /\ ReceivedIsShown
  /\ ListIsSound

(***************************************************************************)
(* Sequences, and the least and the greatest of two numbers.               *)
(***************************************************************************)
LEMMA TwoNumbers ==
  ASSUME NEW a \in Int, NEW b \in Int
  PROVE  /\ Min({a, b}) = IF a <= b THEN a ELSE b
         /\ Max({a, b}) = IF a <= b THEN b ELSE a
<1>1. Min({a, b}) = IF a <= b THEN a ELSE b
  <2> DEFINE m == IF a <= b THEN a ELSE b
             P(x) == x \in {a, b} /\ \A y \in {a, b} : x =< y
  <2>1. P(m)
    OBVIOUS
  <2>2. \A x : P(x) => x = m
    OBVIOUS
  <2>3. Min({a, b}) = CHOOSE x : P(x)
    BY DEF Min
  <2> HIDE DEF m, P
  <2>4. P(CHOOSE x : P(x))
    BY <2>1
  <2> QED
    BY <2>2, <2>3, <2>4 DEF m
<1>2. Max({a, b}) = IF a <= b THEN b ELSE a
  <2> DEFINE m == IF a <= b THEN b ELSE a
             P(x) == x \in {a, b} /\ \A y \in {a, b} : x >= y
  <2>1. P(m)
    OBVIOUS
  <2>2. \A x : P(x) => x = m
    OBVIOUS
  <2>3. Max({a, b}) = CHOOSE x : P(x)
    BY DEF Max
  <2> HIDE DEF m, P
  <2>4. P(CHOOSE x : P(x))
    BY <2>1
  <2> QED
    BY <2>2, <2>3, <2>4 DEF m
<1> QED
  BY <1>1, <1>2

LEMMA ConcatFacts ==
  ASSUME NEW S, NEW p \in Seq(S), NEW q \in Seq(S)
  PROVE  /\ p \o q \in Seq(S) /\ Len(p \o q) = Len(p) + Len(q)
         /\ \A k \in 1..Len(p) + Len(q) :
              (p \o q)[k] = IF k <= Len(p) THEN p[k] ELSE q[k - Len(p)]
BY ConcatProperties

LEMMA SliceFacts ==
  ASSUME NEW S, NEW q \in Seq(S), NEW m \in Nat \ {0}, NEW n \in Nat, m <= n + 1, n <= Len(q)
  PROVE  /\ SubSeq(q, m, n) \in Seq(S) /\ Len(SubSeq(q, m, n)) = n + 1 - m
         /\ \A k \in 1..n + 1 - m : SubSeq(q, m, n)[k] = q[m + k - 1]
<1>1. Len(q) \in Nat /\ m \in Int /\ n \in Int
  OBVIOUS
<1>2. \A k \in m..n : q[k] \in S
  BY <1>1
<1>3. /\ SubSeq(q, m, n) \in Seq(S)
      /\ Len(SubSeq(q, m, n)) = IF m <= n THEN n - m + 1 ELSE 0
      /\ \A k \in 1..n - m + 1 : SubSeq(q, m, n)[k] = q[m + k - 1]
  BY <1>1, <1>2, SubSeqProperties
<1>4. (IF m <= n THEN n - m + 1 ELSE 0) = n + 1 - m
  OBVIOUS
<1>5. n - m + 1 = n + 1 - m
  OBVIOUS
<1> QED
  BY <1>3, <1>4, <1>5

\* t is s with e at its place k.
IsInserted(t, s, k, e) ==
  /\ Len(t) = Len(s) + 1
  /\ \A j \in 1..Len(s) + 1 : t[j] = IF j < k THEN s[j] ELSE IF j = k THEN e ELSE s[j - 1]

LEMMA InsertFacts ==
  ASSUME NEW S, NEW s \in Seq(S), NEW k \in 1..Len(s) + 1, NEW e \in S
  PROVE  InsertAt(s, k, e) \in Seq(S) /\ IsInserted(InsertAt(s, k, e), s, k, e)
<1> DEFINE a == SubSeq(s, 1, k - 1)
           b == SubSeq(s, k, Len(s))
           o == <<e>>
<1>1. Len(s) \in Nat /\ k \in Nat \ {0} /\ k - 1 \in Nat /\ k - 1 <= Len(s)
  OBVIOUS
<1>2. /\ a \in Seq(S) /\ Len(a) = k - 1
      /\ \A j \in 1..k - 1 : a[j] = s[j]
  <2>1. /\ a \in Seq(S) /\ Len(a) = k - 1 + 1 - 1
        /\ \A j \in 1..k - 1 + 1 - 1 : a[j] = s[1 + j - 1]
    BY <1>1, SliceFacts
  <2>2. k - 1 + 1 - 1 = k - 1 /\ \A j \in 1..k - 1 : 1 + j - 1 = j
    BY <1>1
  <2> HIDE DEF a
  <2> QED
    BY <2>1, <2>2
<1>3. /\ b \in Seq(S) /\ Len(b) = Len(s) + 1 - k
      /\ \A j \in 1..Len(s) + 1 - k : b[j] = s[k + j - 1]
  BY <1>1, SliceFacts
<1>4. o \in Seq(S) /\ Len(o) = 1 /\ o[1] = e
  OBVIOUS
<1>5. InsertAt(s, k, e) = a \o o \o b
  BY DEF InsertAt
<1> HIDE DEF a, b, o
<1>6. /\ a \o o \in Seq(S) /\ Len(a \o o) = k
      /\ \A j \in 1..k : (a \o o)[j] = IF j < k THEN s[j] ELSE e
  <2>1. /\ a \o o \in Seq(S) /\ Len(a \o o) = Len(a) + Len(o)
        /\ \A j \in 1..Len(a) + Len(o) :
             (a \o o)[j] = IF j <= Len(a) THEN a[j] ELSE o[j - Len(a)]
    BY <1>2, <1>4, ConcatFacts
  <2>2. Len(a) + Len(o) = k
    BY <1>1, <1>2, <1>4
  <2>3. ASSUME NEW j \in 1..k PROVE (a \o o)[j] = IF j < k THEN s[j] ELSE e
    <3>1. CASE j < k
      <4>1. j \in 1..k - 1 /\ j <= Len(a)
        BY <1>1, <1>2, <3>1
      <4> QED
        BY <1>2, <2>1, <2>2, <3>1, <4>1
    <3>2. CASE ~(j < k)
      <4>1. ~(j <= Len(a)) /\ j - Len(a) = 1
        BY <1>1, <1>2, <3>2
      <4> QED
        BY <1>4, <2>1, <2>2, <3>2, <4>1
    <3> QED
      BY <3>1, <3>2
  <2> QED
    BY <2>1, <2>2, <2>3
<1> DEFINE ao == a \o o
<1> HIDE DEF ao
<1>7. /\ ao \o b \in Seq(S) /\ Len(ao \o b) = Len(s) + 1
      /\ \A j \in 1..Len(s) + 1 : (ao \o b)[j] = IF j <= k THEN ao[j] ELSE b[j - k]
  <2>1. ao \in Seq(S) /\ Len(ao) = k
    BY <1>6 DEF ao
  <2>2. /\ ao \o b \in Seq(S) /\ Len(ao \o b) = Len(ao) + Len(b)
        /\ \A j \in 1..Len(ao) + Len(b) :
             (ao \o b)[j] = IF j <= Len(ao) THEN ao[j] ELSE b[j - Len(ao)]
    BY <1>3, <2>1, ConcatFacts
  <2>3. Len(ao) + Len(b) = Len(s) + 1
    BY <1>1, <1>3, <2>1
  <2> QED
    BY <2>1, <2>2, <2>3
<1>8. ASSUME NEW j \in 1..Len(s) + 1
      PROVE  (ao \o b)[j] = IF j < k THEN s[j] ELSE IF j = k THEN e ELSE s[j - 1]
  <2>1. CASE j <= k
    <3>1. j \in 1..k
      BY <1>1, <2>1
    <3>2. (ao \o b)[j] = IF j < k THEN s[j] ELSE e
      BY <1>6, <1>7, <2>1, <3>1 DEF ao
    <3> QED
      BY <1>1, <2>1, <3>2
  <2>2. CASE ~(j <= k)
    <3>1. j - k \in 1..Len(s) + 1 - k /\ k + (j - k) - 1 = j - 1 /\ ~(j < k) /\ j # k
      BY <1>1, <2>2
    <3>2. (ao \o b)[j] = b[j - k]
      BY <1>7, <2>2
    <3>3. b[j - k] = s[j - 1]
      BY <1>3, <3>1
    <3> QED
      BY <3>1, <3>2, <3>3
  <2> QED
    BY <2>1, <2>2
<1> QED
  BY <1>5, <1>7, <1>8 DEF ao, IsInserted

LEMMA RemoveFacts ==
  ASSUME NEW S, NEW s \in Seq(S), NEW k \in 1..Len(s)
  PROVE  /\ RemoveAt(s, k) \in Seq(S) /\ Len(RemoveAt(s, k)) = Len(s) - 1
         /\ \A j \in 1..Len(s) - 1 : RemoveAt(s, k)[j] = IF j < k THEN s[j] ELSE s[j + 1]
<1> DEFINE a == SubSeq(s, 1, k - 1)
           b == SubSeq(s, k + 1, Len(s))
<1>1. Len(s) \in Nat /\ k \in Nat \ {0} /\ k - 1 \in Nat /\ k - 1 <= Len(s) /\ k + 1 \in Nat \ {0}
      /\ k + 1 <= Len(s) + 1
  OBVIOUS
<1>2. /\ a \in Seq(S) /\ Len(a) = k - 1
      /\ \A j \in 1..k - 1 : a[j] = s[j]
  <2>1. /\ a \in Seq(S) /\ Len(a) = k - 1 + 1 - 1
        /\ \A j \in 1..k - 1 + 1 - 1 : a[j] = s[1 + j - 1]
    BY <1>1, SliceFacts
  <2>2. k - 1 + 1 - 1 = k - 1 /\ \A j \in 1..k - 1 : 1 + j - 1 = j
    BY <1>1
  <2> HIDE DEF a
  <2> QED
    BY <2>1, <2>2
<1>3. /\ b \in Seq(S) /\ Len(b) = Len(s) - k
      /\ \A j \in 1..Len(s) - k : b[j] = s[k + j]
  <2>1. /\ b \in Seq(S) /\ Len(b) = Len(s) + 1 - (k + 1)
        /\ \A j \in 1..Len(s) + 1 - (k + 1) : b[j] = s[(k + 1) + j - 1]
    BY <1>1, SliceFacts
  <2>2. Len(s) + 1 - (k + 1) = Len(s) - k /\ \A j \in 1..Len(s) - k : (k + 1) + j - 1 = k + j
    BY <1>1
  <2> HIDE DEF b
  <2> QED
    BY <2>1, <2>2
<1>4. RemoveAt(s, k) = a \o b
  BY DEF RemoveAt
<1> HIDE DEF a, b
<1>5. /\ a \o b \in Seq(S) /\ Len(a \o b) = Len(s) - 1
      /\ \A j \in 1..Len(s) - 1 : (a \o b)[j] = IF j <= k - 1 THEN a[j] ELSE b[j - (k - 1)]
  <2>1. /\ a \o b \in Seq(S) /\ Len(a \o b) = Len(a) + Len(b)
        /\ \A j \in 1..Len(a) + Len(b) :
             (a \o b)[j] = IF j <= Len(a) THEN a[j] ELSE b[j - Len(a)]
    BY <1>2, <1>3, ConcatFacts
  <2>2. Len(a) + Len(b) = Len(s) - 1
    BY <1>1, <1>2, <1>3
  <2> QED
    BY <1>2, <2>1, <2>2
<1>6. ASSUME NEW j \in 1..Len(s) - 1
      PROVE  (a \o b)[j] = IF j < k THEN s[j] ELSE s[j + 1]
  <2>1. CASE j < k
    <3>1. j \in 1..k - 1 /\ j <= k - 1
      BY <1>1, <2>1
    <3> QED
      BY <1>2, <1>5, <2>1, <3>1
  <2>2. CASE ~(j < k)
    <3>1. j - (k - 1) \in 1..Len(s) - k /\ k + (j - (k - 1)) = j + 1 /\ ~(j <= k - 1)
      BY <1>1, <2>2
    <3>2. (a \o b)[j] = b[j - (k - 1)]
      BY <1>5, <3>1
    <3>3. b[j - (k - 1)] = s[j + 1]
      BY <1>3, <3>1
    <3> QED
      BY <2>2, <3>2, <3>3
  <2> QED
    BY <2>1, <2>2
<1> QED
  BY <1>4, <1>5, <1>6

\* A row that is inserted moves others only further down.
LEMMA InsertedRow ==
  ASSUME NEW t \in Seq(Item), IsInjective(t), NEW i \in Item, ~Contains(t, i),
         NEW k \in 1..Len(t) + 1, NEW u, u = InsertAt(t, k, i)
  PROVE  /\ u \in Seq(Item) /\ IsInjective(u) /\ Contains(u, i)
         /\ \A x \in Item : x # i => (Contains(u, x) <=> Contains(t, x))
         /\ \A p \in 1..Len(u) : u[p] # i => \E r \in 1..Len(t) : r <= p /\ t[r] = u[p]
<1>1. Len(t) \in Nat /\ k \in Nat
  OBVIOUS
<1>2. /\ u \in Seq(Item) /\ Len(u) = Len(t) + 1
      /\ \A j \in 1..Len(t) + 1 : u[j] = IF j < k THEN t[j] ELSE IF j = k THEN i ELSE t[j - 1]
  <2>1. InsertAt(t, k, i) \in Seq(Item) /\ IsInserted(InsertAt(t, k, i), t, k, i)
    BY InsertFacts
  <2> QED
    BY <2>1 DEF IsInserted
<1>3. \A j \in 1..Len(t) : t[j] # i
  BY DEF Contains
<1>4. ASSUME NEW p \in 1..Len(u)
      PROVE  \/ p < k /\ p \in 1..Len(t) /\ u[p] = t[p]
             \/ p = k /\ u[p] = i
             \/ p > k /\ p - 1 \in 1..Len(t) /\ u[p] = t[p - 1]
  <2>1. p \in 1..Len(t) + 1 /\ p \in Nat
    BY <1>2
  <2>2. CASE p < k
    <3>1. p \in 1..Len(t)
      BY <1>1, <2>1, <2>2
    <3> QED
      BY <1>2, <2>1, <2>2, <3>1
  <2>3. CASE p = k
    BY <1>1, <1>2, <2>1, <2>3
  <2>4. CASE p > k
    <3>1. p - 1 \in 1..Len(t) /\ ~(p < k) /\ p # k
      BY <1>1, <2>1, <2>4
    <3> QED
      BY <1>2, <2>1, <2>4, <3>1
  <2> QED
    BY <1>1, <2>1, <2>2, <2>3, <2>4
<1>5. \A p \in 1..Len(u) : u[p] # i => \E r \in 1..Len(t) : r <= p /\ t[r] = u[p]
  <2> SUFFICES ASSUME NEW p \in 1..Len(u), u[p] # i
               PROVE  \E r \in 1..Len(t) : r <= p /\ t[r] = u[p]
    OBVIOUS
  <2>1. p \in Nat /\ p - 1 <= p /\ p <= p
    BY <1>2
  <2> QED
    BY <1>4, <2>1
<1>6. \A r \in 1..Len(t) : \E p \in 1..Len(u) : u[p] = t[r]
  <2> TAKE r \in 1..Len(t)
  <2>1. CASE r < k
    <3>1. r \in 1..Len(t) + 1
      BY <1>1
    <3> QED
      BY <1>2, <2>1, <3>1
  <2>2. CASE ~(r < k)
    <3>1. r + 1 \in 1..Len(t) + 1 /\ ~(r + 1 < k) /\ r + 1 # k /\ (r + 1) - 1 = r
      BY <1>1, <2>2
    <3> QED
      BY <1>2, <3>1
  <2> QED
    BY <2>1, <2>2
<1>7. Contains(u, i)
  BY <1>1, <1>2 DEF Contains
<1>8. ASSUME NEW x \in Item, x # i
      PROVE  Contains(u, x) <=> Contains(t, x)
  <2>1. ASSUME NEW p \in 1..Len(u), u[p] = x PROVE \E r \in 1..Len(t) : t[r] = x
    BY <1>5, <1>8, <2>1
  <2>2. ASSUME NEW r \in 1..Len(t), t[r] = x PROVE \E p \in 1..Len(u) : u[p] = x
    BY <1>6, <2>2
  <2> QED
    BY <2>1, <2>2 DEF Contains
<1>9. IsInjective(u)
  <2> SUFFICES ASSUME NEW a \in 1..Len(u), NEW b \in 1..Len(u), u[a] = u[b]
               PROVE  a = b
    BY <1>2 DEF IsInjective
  <2>1. \A j, l \in 1..Len(t) : t[j] = t[l] => j = l
    BY DEF IsInjective
  <2>2. a \in Nat /\ b \in Nat
    BY <1>2
  <2>3. CASE u[a] = i
    BY <1>3, <1>4, <2>3
  <2>4. CASE u[a] # i
    <3>1. \/ a < k /\ a \in 1..Len(t) /\ u[a] = t[a]
          \/ a > k /\ a - 1 \in 1..Len(t) /\ u[a] = t[a - 1]
      BY <1>4, <2>4
    <3>2. \/ b < k /\ b \in 1..Len(t) /\ u[b] = t[b]
          \/ b > k /\ b - 1 \in 1..Len(t) /\ u[b] = t[b - 1]
      BY <1>4, <2>4
    <3> QED
      BY <1>1, <2>1, <2>2, <3>1, <3>2
  <2> QED
    BY <2>3, <2>4
<1> QED
  BY <1>2, <1>5, <1>7, <1>8, <1>9

LEMMA RemovedRow ==
  ASSUME NEW t \in Seq(Item), IsInjective(t), NEW k \in 1..Len(t), NEW u, u = RemoveAt(t, k)
  PROVE  /\ u \in Seq(Item) /\ IsInjective(u) /\ ~Contains(u, t[k])
         /\ \A x \in Item : x # t[k] => (Contains(u, x) <=> Contains(t, x))
         /\ \A p \in 1..Len(u) :
              \/ p < k /\ p \in 1..Len(t) /\ u[p] = t[p]
              \/ p >= k /\ p + 1 \in 1..Len(t) /\ u[p] = t[p + 1]
<1>1. Len(t) \in Nat /\ k \in Nat
  OBVIOUS
<1>2. /\ u \in Seq(Item) /\ Len(u) = Len(t) - 1
      /\ \A j \in 1..Len(t) - 1 : u[j] = IF j < k THEN t[j] ELSE t[j + 1]
  BY RemoveFacts
<1>3. \A j, l \in 1..Len(t) : t[j] = t[l] => j = l
  BY DEF IsInjective
<1>4. ASSUME NEW p \in 1..Len(u)
      PROVE  \/ p < k /\ p \in 1..Len(t) /\ u[p] = t[p]
             \/ p >= k /\ p + 1 \in 1..Len(t) /\ u[p] = t[p + 1]
  <2>1. p \in 1..Len(t) - 1 /\ p \in 1..Len(t) /\ p + 1 \in 1..Len(t)
    BY <1>1, <1>2
  <2>2. p < k \/ (p >= k /\ ~(p < k))
    BY <1>1, <2>1
  <2> QED
    BY <1>2, <2>1, <2>2
<1>5. ~Contains(u, t[k])
  <2> SUFFICES ASSUME NEW p \in 1..Len(u), u[p] = t[k] PROVE FALSE
    BY DEF Contains
  <2>1. p \in Nat
    BY <1>2
  <2> QED
    BY <1>1, <1>3, <1>4, <2>1
<1>6. \A p \in 1..Len(u) : \E r \in 1..Len(t) : t[r] = u[p]
  BY <1>4
<1>7. \A r \in 1..Len(t) : r # k => \E p \in 1..Len(u) : u[p] = t[r]
  <2> SUFFICES ASSUME NEW r \in 1..Len(t), r # k
               PROVE  \E p \in 1..Len(u) : u[p] = t[r]
    OBVIOUS
  <2>1. CASE r < k
    <3>1. r \in 1..Len(t) - 1
      BY <1>1, <2>1
    <3> QED
      BY <1>2, <2>1, <3>1
  <2>2. CASE ~(r < k)
    <3>1. r - 1 \in 1..Len(t) - 1 /\ ~(r - 1 < k) /\ (r - 1) + 1 = r
      BY <1>1, <2>2
    <3> QED
      BY <1>2, <3>1
  <2> QED
    BY <2>1, <2>2
<1>8. \A x \in Item : x # t[k] => (Contains(u, x) <=> Contains(t, x))
  BY <1>6, <1>7 DEF Contains
<1>9. IsInjective(u)
  <2> SUFFICES ASSUME NEW a \in 1..Len(u), NEW b \in 1..Len(u), u[a] = u[b]
               PROVE  a = b
    BY <1>2 DEF IsInjective
  <2>1. a \in Nat /\ b \in Nat
    BY <1>2
  <2> QED
    BY <1>1, <1>3, <1>4, <2>1
<1> QED
  BY <1>2, <1>4, <1>5, <1>8, <1>9

(***************************************************************************)
(* The service.                                                            *)
(***************************************************************************)
Row == [item : Item, version : 1..MaxVersion]

LEMMA Types ==
  ASSUME TypeOK
  PROVE  /\ Len(table) \in Nat /\ Len(stream) \in Nat /\ Len(page) \in Nat
         /\ table \in Seq(Item) /\ \A p \in 1..Len(table) : table[p] \in Item
         /\ page \in Seq(Row)
         /\ \A k \in 1..Len(page) : page[k].item \in Item /\ page[k].version \in 1..MaxVersion
         /\ \A e \in pending :
              e \in Event /\ e.item \in Item /\ e.version \in 1..MaxVersion /\ e.deletes \in BOOLEAN
         /\ \A k \in 1..Len(stream) :
              /\ stream[k] \in Event /\ stream[k].item \in Item
              /\ stream[k].version \in 1..MaxVersion /\ stream[k].deletes \in BOOLEAN
         /\ \A i \in Item : version[i] \in 0..MaxVersion /\ version[i] \in Nat
                            /\ mirror[i] \in 0..MaxVersion
         /\ cursor \in Nat /\ sent \in Nat /\ sent <= Len(stream) /\ cursor <= sent
         /\ joined \in Nat /\ joined <= Len(stream) /\ offset \in Nat
         /\ MaxVersion \in Nat /\ PageLimit \in Nat /\ RowsRead \in Nat
         /\ missed \subseteq joined + 1..sent
<1>1. /\ Len(table) \in Nat /\ Len(stream) \in Nat /\ Len(page) \in Nat
      /\ table \in Seq(Item) /\ page \in Seq(Row) /\ stream \in Seq(Event)
  BY DEF TypeOK, Row
<1>2. /\ \A p \in 1..Len(table) : table[p] \in Item
      /\ \A k \in 1..Len(page) : page[k] \in Row
      /\ \A k \in 1..Len(stream) : stream[k] \in Event
  BY <1>1
<1>3. \A i \in Item : version[i] \in 0..MaxVersion /\ version[i] \in Nat
                      /\ mirror[i] \in 0..MaxVersion
  BY DEF TypeOK
<1>4. /\ cursor \in Nat /\ sent \in Nat /\ sent <= Len(stream) /\ cursor <= sent
      /\ joined \in Nat /\ joined <= Len(stream) /\ offset \in Nat
  BY <1>1 DEF TypeOK
<1>5. RowsRead \in Nat /\ missed \subseteq joined + 1..sent
  BY <1>4 DEF TypeOK, RowsRead
<1> QED
  BY <1>1, <1>2, <1>3, <1>4, <1>5 DEF TypeOK, Event, Row

\* A write, whatever it does to the table.
LEMMA WriteStep ==
  ASSUME Inv, NEW i \in Item, NEW deletes \in BOOLEAN, Write(i, deletes),
         version[i] = 0 \/ IsRow(i),
         table' \in Seq(Item), IsInjective(table'), Contains(table', i) <=> ~deletes,
         \A x \in Item : x # i => (Contains(table', x) <=> Contains(table, x)),
         shifted \subseteq shifted', shifted' \subseteq Item,
         \A p \in 1..Len(table') : table'[p] \notin shifted' \cup {i} =>
           \E q \in 1..Len(table) :
             /\ table[q] = table'[p]
             /\ phase \in {"list", "count"} /\ p <= RowsRead => q <= RowsRead
  PROVE  Inv'
<1>0. PICK new : new = [item |-> i, version |-> version[i] + 1, deletes |-> deletes]
  OBVIOUS
<1>1. /\ version[i] < MaxVersion /\ version' = [version EXCEPT ![i] = @ + 1]
      /\ pending' = pending \cup {new} /\ touched' = touched \cup {i}
      /\ UNCHANGED <<stream, trimmed, phase, offset, page, mirror, cursor, sent, lost, joined,
                     missed>>
  BY <1>0 DEF Write, clientVars, listVars
<1>2. TypeOK /\ EventsAreSound
  BY DEF Inv
<1>3. /\ version[i] \in Nat /\ version[i] + 1 \in 1..MaxVersion /\ version'[i] = version[i] + 1
      /\ \A x \in Item : x # i => version'[x] = version[x]
      /\ version' \in [Item -> 0..MaxVersion]
  <2>1. version \in [Item -> 0..MaxVersion] /\ version[i] \in 0..MaxVersion
    BY <1>2 DEF TypeOK
  <2>2. version[i] \in Nat /\ version[i] + 1 \in 1..MaxVersion /\ version[i] + 1 \in 0..MaxVersion
    BY <1>1, <2>1
  <2> QED
    BY <1>1, <2>1, <2>2
<1>4. new \in Event /\ new.item = i /\ new.version = version[i] + 1 /\ new.deletes = deletes
  BY <1>0, <1>3 DEF Event
<1>5. TypeOK'
  BY <1>1, <1>2, <1>3, <1>4 DEF TypeOK
<1>6. EventsAreSound'
  <2>1. \A x \in Item : version'[x] = 0 => ~Contains(table', x)
    BY <1>2, <1>3 DEF EventsAreSound, IsRow
  <2>2. \A e \in pending : e.version <= version[e.item] /\ e.item \in Item /\ e.version \in Nat
    BY <1>2, Types DEF EventsAreSound
  <2>3. \A k \in 1..Len(stream) : /\ stream[k].version <= version[stream[k].item]
                                  /\ stream[k].item \in Item /\ stream[k].version \in Nat
    BY <1>2, Types DEF EventsAreSound
  <2>4. \A e \in pending' : e.version <= version'[e.item]
    <3>1. \A e \in pending : e.version <= version'[e.item]
      <4> TAKE e \in pending
      <4>1. CASE e.item = i
        BY <1>3, <2>2, <4>1
      <4>2. CASE e.item # i
        BY <1>3, <2>2, <4>2
      <4> QED
        BY <4>1, <4>2
    <3> QED
      BY <1>1, <1>3, <1>4, <3>1
  <2>5. \A k \in 1..Len(stream) : stream[k].version <= version'[stream[k].item]
    <3> TAKE k \in 1..Len(stream)
    <3>1. CASE stream[k].item = i
      BY <1>3, <2>3, <3>1
    <3>2. CASE stream[k].item # i
      BY <1>3, <2>3, <3>2
    <3> QED
      BY <3>1, <3>2
  <2>6. \A e, f \in pending' : e.item = f.item /\ e.version = f.version => e = f
    <3>1. \A e \in pending : e.item = i => e.version # new.version
      BY <1>3, <1>4, <2>2
    <3> QED
      BY <1>1, <1>2, <1>4, <3>1 DEF EventsAreSound
  <2>7. \A e \in pending' : \A k \in 1..Len(stream) :
          stream[k].item = e.item => stream[k].version < e.version
    <3>1. \A k \in 1..Len(stream) : stream[k].item = i => stream[k].version < new.version
      BY <1>3, <1>4, <2>3
    <3> QED
      BY <1>1, <1>2, <1>4, <3>1 DEF EventsAreSound
  <2>8. ASSUME NEW x \in Item, version'[x] # 0
        PROVE  \/ \E e \in pending' : IsLast(x, e)'
               \/ \E k \in 1..Len(stream) : IsLast(x, stream[k])'
    <3>1. CASE x = i
      <4>1. IsLast(i, new)'
        BY <1>3, <1>4 DEF IsLast, IsRow
      <4> QED
        BY <1>1, <3>1, <4>1
    <3>2. CASE x # i
      <4>1. \A e : IsLast(x, e) => IsLast(x, e)'
        BY <1>3, <3>2 DEF IsLast, IsRow
      <4>2. \/ \E e \in pending : IsLast(x, e)
            \/ \E k \in 1..Len(stream) : IsLast(x, stream[k])
        BY <1>2, <1>3, <2>8, <3>2 DEF EventsAreSound
      <4>3. ASSUME NEW k \in 1..Len(stream), IsLast(x, stream[k])
            PROVE  IsLast(x, stream[k])'
        BY <1>1, <1>3, <3>2, <4>3 DEF IsLast, IsRow
      <4> QED
        BY <1>1, <4>1, <4>2, <4>3
    <3> QED
      BY <3>1, <3>2
  <2> QED
    BY <1>1, <1>2, <2>1, <2>4, <2>5, <2>6, <2>7, <2>8 DEF EventsAreSound, IsRow
<1>7. ConnectionIsSound' /\ ReceivedIsShown'
  BY <1>1 DEF Inv, ConnectionIsSound, ReceivedIsShown, Got
<1>8. ListIsSound'
  <2> SUFFICES ASSUME NEW x \in Item \ (touched' \cup shifted')
               PROVE  /\ \A k \in 1..Len(page) : page[k].item = x =>
                           Contains(table', x) /\ page[k].version = version'[x]
                      /\ ~Contains(table', x) /\ NoneReceived(x)' => mirror[x] = 0
                      /\ \A p \in 1..Len(table') : table'[p] = x => PositionIsRead(x, p)'
    BY <1>1 DEF Inv, ListIsSound, IsRow
  <2>1. x \in Item \ (touched \cup shifted) /\ x \notin shifted' \cup {i} /\ x # i
    BY <1>1
  <2>2. /\ Contains(table', x) <=> IsRow(x)
        /\ version'[x] = version[x] /\ (NoneReceived(x)' <=> NoneReceived(x))
    BY <1>1, <1>3, <2>1 DEF IsRow, NoneReceived, Got
  <2>3. /\ \A k \in 1..Len(page) : page[k].item = x => IsRow(x) /\ page[k].version = version[x]
        /\ ~IsRow(x) /\ NoneReceived(x) => mirror[x] = 0
        /\ \A p \in 1..Len(table) : table[p] = x => PositionIsRead(x, p)
    BY <2>1 DEF Inv, ListIsSound
  <2>4. ASSUME NEW p \in 1..Len(table'), table'[p] = x
        PROVE  PositionIsRead(x, p)'
    <3>1. PICK q \in 1..Len(table) :
            /\ table[q] = x
            /\ phase \in {"list", "count"} /\ p <= RowsRead => q <= RowsRead
      BY <2>1, <2>4
    <3>2. PositionIsRead(x, q)
      BY <2>3, <3>1
    <3>3. RowsRead' = RowsRead
      BY <1>1 DEF RowsRead
    <3> QED
      BY <1>1, <2>2, <3>1, <3>2, <3>3 DEF PositionIsRead
  <2> QED
    BY <2>2, <2>3, <2>4
<1> QED
  BY <1>5, <1>6, <1>7, <1>8 DEF Inv

LEMMA ServiceStep ==
  ASSUME Inv, NEW i \in Item, Create(i) \/ Update(i) \/ DeleteItem(i)
  PROVE  Inv'
<1>1. /\ table \in Seq(Item) /\ IsInjective(table) /\ shifted \subseteq Item
      /\ version[i] = 0 => ~IsRow(i)
      /\ RowsRead \in Nat
  BY Types DEF Inv, TypeOK, EventsAreSound
<1>2. TRUE \in BOOLEAN /\ FALSE \in BOOLEAN
  OBVIOUS
<1>3. ASSUME Create(i) PROVE Inv'
  <2>1. PICK k \in 1..Len(table) + 1 : table' = InsertAt(table, k, i)
    BY <1>3 DEF Create
  <2>2. ~Contains(table, i) /\ Write(i, FALSE) /\ version[i] = 0 /\ shifted' = shifted
    BY <1>1, <1>3 DEF Create, IsRow
  <2>3. /\ table' \in Seq(Item) /\ IsInjective(table') /\ Contains(table', i)
        /\ \A x \in Item : x # i => (Contains(table', x) <=> Contains(table, x))
        /\ \A p \in 1..Len(table') : table'[p] # i =>
             \E r \in 1..Len(table) : r <= p /\ table[r] = table'[p]
    BY <1>1, <2>1, <2>2, InsertedRow
  <2>4. ASSUME NEW p \in 1..Len(table'), table'[p] # i
        PROVE  \E q \in 1..Len(table) : table[q] = table'[p] /\ (p <= RowsRead => q <= RowsRead)
    <3>1. PICK q \in 1..Len(table) : q <= p /\ table[q] = table'[p]
      BY <2>3, <2>4
    <3>2. p <= RowsRead => q <= RowsRead
      BY <1>1, <2>3, <3>1
    <3> QED
      BY <3>1, <3>2
  <2> QED
    BY <1>1, <1>2, <2>2, <2>3, <2>4, WriteStep
<1>4. ASSUME Update(i) PROVE Inv'
  <2>1. /\ table' = table /\ shifted' = shifted /\ Write(i, FALSE) /\ IsRow(i)
        /\ Contains(table', i)
    BY <1>4 DEF Update, IsRow
  <2>2. \A p \in 1..Len(table') : p \in 1..Len(table) /\ table[p] = table'[p]
    BY <2>1
  <2> QED
    BY <1>1, <1>2, <2>1, <2>2, WriteStep
<1>5. ASSUME DeleteItem(i) PROVE Inv'
  <2>1. PICK k \in 1..Len(table) :
          table[k] = i /\ table' = RemoveAt(table, k) /\ shifted' = shifted \cup Shifts(k)
    BY <1>5 DEF DeleteItem
  <2>2. /\ table' \in Seq(Item) /\ IsInjective(table') /\ ~Contains(table', i)
        /\ \A x \in Item : x # i => (Contains(table', x) <=> Contains(table, x))
        /\ \A p \in 1..Len(table') :
             \/ p < k /\ p \in 1..Len(table) /\ table'[p] = table[p]
             \/ p >= k /\ p + 1 \in 1..Len(table) /\ table'[p] = table[p + 1]
    BY <1>1, <2>1, RemovedRow
  <2>3. IsRow(i) /\ Write(i, TRUE)
    BY <1>5, <2>1 DEF DeleteItem, IsRow, Contains
  <2>4. ASSUME NEW p \in 1..Len(table'), table'[p] \notin shifted',
               p >= k, p + 1 \in 1..Len(table), table'[p] = table[p + 1],
               phase \in {"list", "count"}, p <= RowsRead
        PROVE  p + 1 <= RowsRead
    <3>1. p \in Nat /\ k \in Nat /\ Len(table) \in Nat /\ table[p + 1] \in Item
      BY <1>1, <2>1, <2>2, <2>4
    <3>2. ASSUME p = RowsRead PROVE FALSE
      <4>1. k <= RowsRead /\ RowsRead < Len(table) /\ table[RowsRead + 1] = table'[p]
        BY <1>1, <2>4, <3>1, <3>2
      <4>2. table'[p] \in Shifts(k)
        BY <2>4, <3>1, <4>1 DEF Shifts
      <4> QED
        BY <2>1, <2>4, <4>2
    <3> QED
      BY <1>1, <2>4, <3>1, <3>2
  <2>5. ASSUME NEW p \in 1..Len(table'), table'[p] \notin shifted' \cup {i}
        PROVE  \E q \in 1..Len(table) :
                 /\ table[q] = table'[p]
                 /\ phase \in {"list", "count"} /\ p <= RowsRead => q <= RowsRead
    BY <2>2, <2>4, <2>5
  <2>6. shifted \subseteq shifted' /\ shifted' \subseteq Item
    BY <1>1, <2>1 DEF Shifts
  <2> QED
    BY <1>2, <2>2, <2>3, <2>5, <2>6, WriteStep
<1> QED
  BY <1>3, <1>4, <1>5

\* An event is numbered; nothing else moves.
LEMMA PublisherStep ==
  ASSUME Inv, NEW e \in pending, PublisherCommits(e)
  PROVE  Inv'
<1>1. /\ Oldest(e) /\ pending' = pending \ {e} /\ stream' = Append(stream, e)
      /\ UNCHANGED <<table, version, trimmed, phase, offset, page, mirror, cursor, sent, lost,
                     joined, touched, shifted, missed>>
  BY DEF PublisherCommits, clientVars, listVars, history
<1>2. TypeOK /\ EventsAreSound /\ stream \in Seq(Event) /\ e \in Event /\ Len(stream) \in Nat
  BY Types DEF Inv, TypeOK
<1>0. PICK n : n = Len(stream)
  OBVIOUS
<1>3. /\ stream' \in Seq(Event) /\ Len(stream') = n + 1 /\ stream'[n + 1] = e
      /\ \A k \in 1..n : stream'[k] = stream[k]
  BY <1>0, <1>1, <1>2
<1>4. \A k \in 1..Len(stream') : k = n + 1 \/ k \in 1..n
  BY <1>0, <1>2, <1>3
<1>5. n \in Nat /\ n = Len(stream) /\ 1..n = 1..Len(stream) /\ n + 1 \in 1..Len(stream')
      /\ \A k \in 1..n : k \in 1..Len(stream')
  BY <1>0, <1>2, <1>3
<1>6. TypeOK'
  <2>1. 0..Len(stream) \subseteq 0..Len(stream') /\ 1..Len(stream) \subseteq 1..Len(stream')
    BY <1>3, <1>5
  <2> QED
    BY <1>1, <1>2, <1>3, <2>1 DEF TypeOK
<1>7. EventsAreSound'
  <2>1. \A f \in pending' : f.item = e.item => e.version < f.version
    <3> TAKE f \in pending'
    <3>1. f \in pending /\ f # e
      BY <1>1
    <3>2. f.item = e.item => e.version <= f.version /\ e.version # f.version
      BY <1>1, <1>2, <3>1 DEF Oldest, EventsAreSound
    <3>3. e.version \in Nat /\ f.version \in Nat
      BY <1>2, <3>1, Types
    <3> QED
      BY <3>2, <3>3
  <2>2. \A f \in pending' : \A k \in 1..Len(stream') :
          stream'[k].item = f.item => stream'[k].version < f.version
    BY <1>1, <1>2, <1>3, <1>4, <1>5, <2>1 DEF EventsAreSound
  <2>3. \A k \in 1..Len(stream') : stream'[k].version <= version'[stream'[k].item]
    BY <1>1, <1>2, <1>3, <1>4, <1>5 DEF EventsAreSound
  <2>4. ASSUME NEW j \in 1..Len(stream'), NEW k \in 1..Len(stream'),
               j < k, stream'[j].item = stream'[k].item
        PROVE  stream'[j].version < stream'[k].version
    <3>1. j \in 1..n
      BY <1>3, <1>4, <1>5, <2>4
    <3>2. CASE k \in 1..n
      BY <1>2, <1>3, <1>5, <2>4, <3>1, <3>2 DEF EventsAreSound
    <3>3. CASE k = n + 1
      BY <1>2, <1>3, <1>5, <2>4, <3>1, <3>3 DEF EventsAreSound
    <3> QED
      BY <1>4, <3>2, <3>3
  <2>5. ASSUME NEW i \in Item, version'[i] # 0
        PROVE  \/ \E f \in pending' : IsLast(i, f)'
               \/ \E k \in 1..Len(stream') : IsLast(i, stream[k])'
    <3>1. \/ \E f \in pending : IsLast(i, f)
          \/ \E k \in 1..n : IsLast(i, stream[k])
      BY <1>1, <1>2, <1>5, <2>5 DEF EventsAreSound
    <3>2. \A f : IsLast(i, f) => IsLast(i, f)'
      BY <1>1 DEF IsLast, IsRow
    <3>3. CASE IsLast(i, e)
      <4>1. IsLast(i, stream[n + 1])'
        BY <1>1, <1>3, <1>5, <3>3 DEF IsLast, IsRow
      <4> QED
        BY <1>5, <4>1
    <3>4. CASE \E f \in pending : IsLast(i, f) /\ f # e
      BY <1>1, <3>2, <3>4
    <3>5. CASE \E k \in 1..n : IsLast(i, stream[k])
      <4>1. PICK k \in 1..n : IsLast(i, stream[k])
        BY <3>5
      <4>2. IsLast(i, stream[k])'
        BY <1>1, <1>3, <4>1 DEF IsLast, IsRow
      <4> QED
        BY <1>5, <4>1, <4>2
    <3> QED
      BY <3>1, <3>3, <3>4, <3>5
  <2>6. /\ \A i \in Item : version'[i] = 0 => ~IsRow(i)'
        /\ \A f \in pending' : f.version <= version'[f.item]
        /\ \A f, g \in pending' : f.item = g.item /\ f.version = g.version => f = g
    BY <1>1, <1>2 DEF EventsAreSound, IsRow
  <2> QED
    BY <2>2, <2>3, <2>4, <2>5, <2>6 DEF EventsAreSound
<1>8. Got' = Got /\ \A k \in Got : stream'[k] = stream[k]
  <2>1. joined \in Nat /\ sent \in Nat /\ sent <= n
    BY <1>0, <1>2, Types
  <2>2. \A k \in joined + 1..sent : k \in 1..n
    BY <1>5, <2>1
  <2> QED
    BY <1>1, <1>3, <2>2 DEF Got
<1>9. ConnectionIsSound'
  BY <1>1 DEF Inv, ConnectionIsSound
<1>10. ReceivedIsShown'
  <2> SUFFICES ASSUME NEW k \in Got,
                      \A j \in Got : k < j => stream'[j].item # stream'[k].item
               PROVE  mirror[stream'[k].item] = IF stream'[k].deletes THEN 0 ELSE stream'[k].version
    BY <1>1, <1>8 DEF ReceivedIsShown
  <2>1. stream'[k] = stream[k] /\ \A j \in Got : k < j => stream[j].item # stream[k].item
    BY <1>8
  <2> QED
    BY <2>1 DEF Inv, ReceivedIsShown
<1>11. ListIsSound'
  <2>1. \A i : NoneReceived(i)' <=> NoneReceived(i)
    BY <1>8 DEF NoneReceived
  <2>2. ListIsSound
    BY DEF Inv
  <2> QED
    BY <1>1, <2>1, <2>2 DEF ListIsSound, PositionIsRead, RowsRead, IsRow
<1> QED
  BY <1>6, <1>7, <1>9, <1>10, <1>11 DEF Inv

\* A published event is deleted: the client has it, misses it or is refused later.
LEMMA RetentionStep ==
  ASSUME Inv, NEW k \in Retained, RetentionDeletes(k)
  PROVE  Inv'
<1>1. /\ trimmed' = trimmed \cup {k} /\ k \in 1..Len(stream)
      /\ UNCHANGED <<table, version, pending, stream, phase, offset, page, mirror, cursor, sent,
                     lost, joined, touched, shifted, missed>>
  BY DEF RetentionDeletes, Retained, rows, clientVars, listVars, history, Inv, TypeOK
<1>2. TypeOK'
  BY <1>1 DEF Inv, TypeOK
<1>3. EventsAreSound' /\ ConnectionIsSound'
  BY <1>1 DEF Inv, EventsAreSound, IsLast, IsRow, ConnectionIsSound
<1>4. ReceivedIsShown' /\ ListIsSound'
  BY <1>1 DEF Inv, ReceivedIsShown, ListIsSound, PositionIsRead, NoneReceived, Got, RowsRead, IsRow
<1> QED
  BY <1>2, <1>3, <1>4 DEF Inv

(***************************************************************************)
(* The list.                                                               *)
(***************************************************************************)
\* What the first statement of GET /items returns.
LEMMA PageFacts ==
  ASSUME Inv, ReadPage
  PROVE  /\ page' \in Seq(Row)
         /\ \A k \in 1..Len(page') : \E p \in 1..Len(table) :
              page'[k].item = table[p] /\ page'[k].version = version[table[p]]
         /\ \A p \in 1..Len(table) : offset < p /\ p <= offset + PageLimit =>
              \E k \in 1..Len(page') : page'[k].item = table[p]
<1>1. /\ TypeOK /\ offset \in Nat /\ PageLimit \in Nat /\ Len(table) \in Nat
      /\ \A p \in 1..Len(table) : table[p] \in Item
  BY Types DEF Inv
<1>2. PICK last : last = Min({offset + PageLimit, Len(table)})
  OBVIOUS
<1>3. PICK n : n = Max({last - offset, 0})
  OBVIOUS
<1>4. page' = [k \in 1..n |-> ItemRead(table[offset + k])]
  BY <1>2, <1>3 DEF ReadPage
<1>5. last = IF offset + PageLimit <= Len(table) THEN offset + PageLimit ELSE Len(table)
  BY <1>1, <1>2, TwoNumbers
<1>6. last \in Nat /\ n = IF last - offset <= 0 THEN 0 ELSE last - offset
  <2>1. last \in Nat
    BY <1>1, <1>5
  <2>2. last - offset \in Int /\ 0 \in Int
    BY <1>1, <2>1
  <2>3. Max({last - offset, 0}) = IF last - offset <= 0 THEN 0 ELSE last - offset
    BY <2>2, TwoNumbers
  <2> QED
    BY <1>3, <2>1, <2>3
<1>7. n \in Nat /\ \A k \in 1..n : offset + k \in 1..Len(table)
  BY <1>1, <1>5, <1>6
<1>8. ASSUME NEW k \in 1..n
      PROVE  /\ page'[k] \in Row
             /\ page'[k].item = table[offset + k] /\ page'[k].version = version[table[offset + k]]
  <2>1. offset + k \in 1..Len(table) /\ table[offset + k] \in Item
    BY <1>1, <1>7
  <2>2. version[table[offset + k]] \in 1..MaxVersion
    <3>1. IsRow(table[offset + k])
      BY <2>1 DEF IsRow, Contains
    <3>2. version[table[offset + k]] # 0 /\ version[table[offset + k]] \in 0..MaxVersion
      BY <2>1, <3>1, <1>1, Types DEF Inv, EventsAreSound
    <3> QED
      BY <3>2, <1>1, Types
  <2>3. page'[k] = [item |-> table[offset + k], version |-> version[table[offset + k]]]
    BY <1>4 DEF ItemRead
  <2> QED
    BY <2>1, <2>2, <2>3 DEF Row
<1>9. page' \in Seq(Row) /\ Len(page') = n
  <2>1. page' \in [1..n -> Row]
    BY <1>4, <1>8
  <2> QED
    BY <1>4, <1>7, <2>1
<1>10. ASSUME NEW p \in 1..Len(table), offset < p, p <= offset + PageLimit
       PROVE  \E k \in 1..n : page'[k].item = table[p]
  <2>1. p - offset \in 1..n /\ offset + (p - offset) = p
    BY <1>1, <1>5, <1>6, <1>10
  <2> QED
    BY <1>8, <2>1
<1> QED
  BY <1>7, <1>8, <1>9, <1>10

LEMMA ReadPageStep ==
  ASSUME Inv, ReadPage
  PROVE  Inv'
<1>1. /\ phase = "list" /\ phase' = "count"
      /\ \/ offset = 0 /\ touched' = {} /\ shifted' = {}
         \/ touched' = touched /\ shifted' = shifted
      /\ UNCHANGED <<table, version, pending, stream, trimmed, offset, mirror, cursor, sent, lost,
                     joined, missed>>
  BY DEF ReadPage, service, rows
<1>2. /\ page' \in Seq(Row)
      /\ \A k \in 1..Len(page') : \E p \in 1..Len(table) :
           page'[k].item = table[p] /\ page'[k].version = version[table[p]]
      /\ \A p \in 1..Len(table) : offset < p /\ p <= offset + PageLimit =>
           \E k \in 1..Len(page') : page'[k].item = table[p]
  BY PageFacts
<1>3. TypeOK'
  BY <1>1, <1>2 DEF Inv, TypeOK, Phase, Row
<1>4. EventsAreSound' /\ ConnectionIsSound' /\ ReceivedIsShown'
  BY <1>1 DEF Inv, EventsAreSound, IsLast, IsRow, ConnectionIsSound, ReceivedIsShown, Got
<1>5. ListIsSound'
  <2> SUFFICES ASSUME NEW i \in Item \ (touched' \cup shifted')
               PROVE  /\ \A k \in 1..Len(page') : page'[k].item = i =>
                           IsRow(i) /\ page'[k].version = version[i]
                      /\ ~IsRow(i) /\ NoneReceived(i) => mirror[i] = 0
                      /\ \A p \in 1..Len(table) : table[p] = i => PositionIsRead(i, p)'
    BY <1>1 DEF ListIsSound, IsRow, NoneReceived, Got
  <2>1. Len(page) = 0 /\ RowsRead = offset /\ RowsRead' = offset + PageLimit
    BY <1>1 DEF Inv, ConnectionIsSound, RowsRead
  <2>2. /\ ~IsRow(i) /\ NoneReceived(i) => mirror[i] = 0
        /\ \A p \in 1..Len(table) : table[p] = i /\ p <= offset => mirror[i] = version[i]
    <3>1. CASE offset = 0
      <4>1. \A p \in 1..Len(table) : ~(p <= offset)
        BY <3>1
      <4> QED
        BY <1>1, <3>1, <4>1 DEF Inv, ListIsSound
    <3>2. CASE offset # 0
      <4>1. i \in Item \ (touched \cup shifted)
        BY <1>1, <3>2
      <4> QED
        BY <1>1, <2>1, <4>1 DEF Inv, ListIsSound, PositionIsRead
    <3> QED
      BY <3>1, <3>2
  <2>3. \A k \in 1..Len(page') : page'[k].item = i => IsRow(i) /\ page'[k].version = version[i]
    BY <1>2 DEF IsRow, Contains
  <2>4. ASSUME NEW p \in 1..Len(table), table[p] = i
        PROVE  PositionIsRead(i, p)'
    <3>1. offset \in Nat /\ PageLimit \in Nat /\ p \in Nat
      BY Types DEF Inv
    <3>2. p <= offset \/ offset < p
      BY <3>1
    <3> QED
      BY <1>1, <1>2, <2>1, <2>2, <2>4, <3>2 DEF PositionIsRead
  <2> QED
    BY <2>2, <2>3, <2>4
<1> QED
  BY <1>3, <1>4, <1>5 DEF Inv

LEMMA CopiedFacts ==
  ASSUME Inv, NEW i \in Item
  PROVE  /\ Copied(i) \in 0..MaxVersion
         /\ Copied(i) = mirror[i] \/ \E k \in 1..Len(page) : page[k].item = i /\ Copied(i) = page[k].version
         /\ (\E k \in 1..Len(page) : page[k].item = i) =>
              \E k \in 1..Len(page) : page[k].item = i /\ Copied(i) = page[k].version
<1>1. /\ page \in Seq(Row) /\ Len(page) \in Nat /\ mirror[i] \in 0..MaxVersion
      /\ \A k \in 1..Len(page) : page[k].version \in 1..MaxVersion
      /\ MaxVersion \in Nat
  BY Types DEF Inv
<1>2. CASE ~ \E k \in 1..Len(page) : page[k].item = i
  BY <1>1, <1>2 DEF Copied
<1>3. CASE \E k \in 1..Len(page) : page[k].item = i
  <2> DEFINE P(row) == row \in Range(page) /\ row.item = i
  <2>1. PICK row : row = CHOOSE r : P(r)
    OBVIOUS
  <2>2. DOMAIN page = 1..Len(page)
    BY <1>1
  <2>3. P(row)
    <3>1. \E r : P(r)
      BY <1>3, <2>2 DEF Range
    <3> HIDE DEF P
    <3> QED
      BY <2>1, <3>1
  <2>4. Copied(i) = row.version
    BY <1>3, <2>1 DEF Copied
  <2>5. PICK k \in 1..Len(page) : page[k] = row
    BY <2>2, <2>3 DEF Range
  <2>6. page[k].version \in 0..MaxVersion
    BY <1>1
  <2> QED
    BY <2>3, <2>4, <2>5, <2>6
<1> QED
  BY <1>2, <1>3

LEMMA ReadTotalStep ==
  ASSUME Inv, ReadTotal
  PROVE  Inv'
<1>1. /\ phase = "count" /\ page' = <<>> /\ mirror' = [i \in Item |-> Copied(i)]
      /\ UNCHANGED <<table, version, pending, stream, trimmed, cursor, sent, lost,
                     joined, touched, shifted, missed>>
      /\ \/ offset + PageLimit < Len(table) /\ phase' = "list" /\ offset' = offset + PageLimit
         \/ ~(offset + PageLimit < Len(table)) /\ phase' = "offline" /\ offset' = 0
  BY DEF ReadTotal, Total, service, rows, history
<1>2. /\ cursor = 0 /\ sent = 0 /\ joined = 0 /\ Len(page') = 0
      /\ offset \in Nat /\ PageLimit \in Nat \ {0} /\ Len(table) \in Nat
      /\ Got = {} /\ Got' = {} /\ joined' = 0 /\ sent' = 0 /\ cursor' = 0
  BY <1>1, Types DEF Inv, ConnectionIsSound, Got
<1>3. mirror' \in [Item -> 0..MaxVersion] /\ \A i \in Item : mirror'[i] = Copied(i)
  BY <1>1, CopiedFacts
<1>4. TypeOK'
  <2>1. page' \in Seq([item : Item, version : 1..MaxVersion]) /\ offset' \in Nat
    BY <1>1, <1>2
  <2> QED
    BY <1>1, <1>3, <2>1 DEF Inv, TypeOK, Phase
<1>5. EventsAreSound' /\ ConnectionIsSound'
  BY <1>1, <1>2 DEF Inv, EventsAreSound, IsLast, IsRow, ConnectionIsSound
<1>6. ReceivedIsShown'
  BY <1>2 DEF ReceivedIsShown
<1>7. ListIsSound'
  <2>0. ~(phase' = "list" /\ offset' = 0)
    BY <1>1, <1>2
  <2> SUFFICES ASSUME NEW i \in Item \ (touched \cup shifted)
               PROVE  /\ ~IsRow(i) => mirror'[i] = 0
                      /\ \A p \in 1..Len(table) : table[p] = i => PositionIsRead(i, p)'
    BY <1>1, <1>2, <2>0 DEF ListIsSound, IsRow
  <2>1. /\ \A k \in 1..Len(page) : page[k].item = i => IsRow(i) /\ page[k].version = version[i]
        /\ ~IsRow(i) => mirror[i] = 0
        /\ \A p \in 1..Len(table) : table[p] = i => PositionIsRead(i, p)
    BY <1>2 DEF Inv, ListIsSound, NoneReceived
  <2>2. /\ mirror'[i] = Copied(i)
        /\ Copied(i) = mirror[i] \/ \E k \in 1..Len(page) : page[k].item = i /\ Copied(i) = page[k].version
        /\ (\E k \in 1..Len(page) : page[k].item = i) =>
             \E k \in 1..Len(page) : page[k].item = i /\ Copied(i) = page[k].version
    BY <1>3, CopiedFacts
  <2>3. ASSUME NEW p \in 1..Len(table), table[p] = i
        PROVE  PositionIsRead(i, p)'
    <3>1. p <= offset + PageLimit => mirror'[i] = version[i]
      BY <1>1, <2>1, <2>2, <2>3 DEF PositionIsRead, RowsRead
    <3>2. phase' = "offline" => p <= offset + PageLimit
      BY <1>1, <1>2
    <3> QED
      BY <1>1, <3>1, <3>2 DEF PositionIsRead, RowsRead
  <2> QED
    BY <2>1, <2>2, <2>3
<1> QED
  BY <1>4, <1>5, <1>6, <1>7 DEF Inv

(***************************************************************************)
(* The stream.                                                             *)
(***************************************************************************)
\* The client connects, misses an event or loses its connection: it has got the
\* same events, and shows the same.
LEMMA SameGot ==
  ASSUME Inv, Got' = Got,
         phase \in {"offline", "following"}, phase' \in {"offline", "following"},
         UNCHANGED <<table, version, pending, stream, page, mirror, touched, shifted>>
  PROVE  EventsAreSound' /\ ReceivedIsShown' /\ ListIsSound'
<1>1. EventsAreSound' /\ ReceivedIsShown'
  BY DEF Inv, EventsAreSound, IsLast, IsRow, ReceivedIsShown
<1>2. \A i : NoneReceived(i)' <=> NoneReceived(i)
  BY DEF NoneReceived
<1>3. ListIsSound'
  BY <1>2 DEF Inv, ListIsSound, PositionIsRead, IsRow
<1> QED
  BY <1>1, <1>3

LEMMA ConnectStep ==
  ASSUME Inv, ClientConnect
  PROVE  Inv'
<1>1. /\ phase = "offline" /\ phase' = "following"
      /\ \/ cursor > 0 /\ sent' = cursor /\ joined' = joined
         \/ cursor = 0 /\ sent' \in 0..Len(stream) /\ joined' = sent'
      /\ UNCHANGED <<table, version, pending, stream, trimmed, offset, page, mirror, cursor, lost,
                     touched, shifted, missed>>
  BY DEF ClientConnect, ReplayFrom, service, rows
<1>2. /\ sent = cursor /\ cursor \in Nat /\ sent \in Nat /\ joined \in Nat /\ sent' \in Nat
      /\ sent <= Len(stream) /\ Len(stream) \in Nat /\ sent' \in 0..Len(stream)
      /\ missed \subseteq joined + 1..sent /\ missed \subseteq trimmed
  BY <1>1, Types DEF Inv, ConnectionIsSound, TypeOK
<1>3. \/ cursor > 0 /\ joined' = joined /\ sent' = sent
      \/ /\ cursor = 0 /\ joined' = sent' /\ missed = {}
         /\ joined' + 1..sent' = {} /\ joined + 1..sent = {}
  BY <1>1, <1>2
<1>4. Got' = Got
  BY <1>1, <1>3 DEF Got
<1>5. TypeOK'
  <2>1. cursor' \in 0..sent' /\ joined' \in 0..Len(stream)
    BY <1>1, <1>2 DEF Inv, TypeOK
  <2>2. missed' \subseteq trimmed' \cap joined' + 1..sent'
    BY <1>1, <1>2, <1>3
  <2> QED
    BY <1>1, <1>2, <2>1, <2>2 DEF Inv, TypeOK, Phase
<1>6. ConnectionIsSound'
  BY <1>1, <1>2, <1>3 DEF Inv, ConnectionIsSound
<1> QED
  BY <1>1, <1>4, <1>5, <1>6, SameGot DEF Inv

LEMMA MissStep ==
  ASSUME Inv, Miss
  PROVE  Inv'
<1>1. /\ phase = "following" /\ sent + 1 \in trimmed /\ sent' = sent + 1
      /\ missed' = missed \cup {sent + 1}
      /\ UNCHANGED <<table, version, pending, stream, trimmed, phase, offset, page, mirror, cursor,
                     lost, joined, touched, shifted>>
  BY DEF Miss, service, rows, listVars
<1>2. /\ sent \in Nat /\ joined \in Nat /\ cursor \in Nat /\ cursor <= sent /\ joined <= sent
      /\ Len(stream) \in Nat /\ sent + 1 \in 1..Len(stream)
      /\ missed \subseteq joined + 1..sent /\ missed \subseteq trimmed
  <2>1. /\ sent \in Nat /\ joined \in Nat /\ cursor \in Nat /\ cursor <= sent
        /\ Len(stream) \in Nat /\ sent + 1 \in 1..Len(stream)
        /\ missed \subseteq joined + 1..sent /\ missed \subseteq trimmed
    BY <1>1, Types DEF Inv, TypeOK
  <2>2. joined <= sent
    BY <1>1, <2>1 DEF Inv, ConnectionIsSound
  <2> QED
    BY <2>1, <2>2
<1>3. joined + 1..sent + 1 = (joined + 1..sent) \cup {sent + 1} /\ sent + 1 \notin joined + 1..sent
  BY <1>2
<1>4. Got' = Got
  BY <1>1, <1>3 DEF Got
<1>5. TypeOK'
  <2>1. cursor' \in 0..sent' /\ sent' \in 0..Len(stream)
    BY <1>1, <1>2
  <2>2. missed' \subseteq trimmed' \cap joined' + 1..sent'
    BY <1>1, <1>2, <1>3
  <2> QED
    BY <1>1, <2>1, <2>2 DEF Inv, TypeOK
<1>6. ConnectionIsSound'
  <2>1. cursor + 1..sent + 1 \subseteq (cursor + 1..sent) \cup {sent + 1}
    BY <1>2
  <2> QED
    BY <1>1, <1>2, <1>3, <2>1 DEF Inv, ConnectionIsSound
<1> QED
  BY <1>1, <1>4, <1>5, <1>6, SameGot DEF Inv

LEMMA ReceiveStep ==
  ASSUME Inv, Receive
  PROVE  Inv'
<1>0. PICK e : e = stream[sent + 1]
  OBVIOUS
<1>1. /\ phase = "following" /\ sent < Len(stream) /\ sent' = sent + 1 /\ cursor' = sent + 1
      /\ mirror' = [mirror EXCEPT ![e.item] = IF e.deletes THEN 0 ELSE e.version]
      /\ UNCHANGED <<table, version, pending, stream, trimmed, phase, offset, page, lost,
                     joined, touched, shifted, missed>>
  BY <1>0 DEF Receive, service, rows, history
<1>2. /\ cursor \in Nat /\ sent \in Nat /\ joined \in Nat /\ Len(stream) \in Nat /\ joined <= sent
      /\ sent + 1 \in 1..Len(stream) /\ missed \subseteq joined + 1..sent
  <2>1. /\ cursor \in Nat /\ sent \in Nat /\ joined \in Nat /\ Len(stream) \in Nat /\ cursor <= sent
        /\ missed \subseteq joined + 1..sent
    BY Types DEF Inv
  <2>2. joined <= sent
    BY <1>1, <2>1 DEF Inv, ConnectionIsSound
  <2> QED
    BY <1>1, <2>1, <2>2
<1>3. /\ e.item \in Item /\ (IF e.deletes THEN 0 ELSE e.version) \in 0..MaxVersion
      /\ mirror \in [Item -> 0..MaxVersion] /\ MaxVersion \in Nat
  <2>1. e.item \in Item /\ e.version \in 1..MaxVersion /\ MaxVersion \in Nat
    BY <1>0, <1>2, Types DEF Inv
  <2>2. e.version \in 0..MaxVersion /\ 0 \in 0..MaxVersion
    BY <2>1
  <2> QED
    BY <2>1, <2>2 DEF Inv, TypeOK
<1>4. /\ mirror' \in [Item -> 0..MaxVersion]
      /\ mirror'[e.item] = IF e.deletes THEN 0 ELSE e.version
      /\ \A i \in Item : i # e.item => mirror'[i] = mirror[i]
  BY <1>1, <1>3
<1>5. Got' = Got \cup {sent + 1} /\ \A k \in Got : k < sent + 1 /\ k \in 1..Len(stream)
  <2>1. joined + 1..sent + 1 = (joined + 1..sent) \cup {sent + 1} /\ sent + 1 \notin missed
    BY <1>2
  <2>2. \A k \in joined + 1..sent : k < sent + 1 /\ k \in 1..Len(stream)
    BY <1>2
  <2> QED
    BY <1>1, <2>1, <2>2 DEF Got
<1>6. TypeOK'
  <2>1. cursor' \in 0..sent' /\ sent' \in 0..Len(stream)
    BY <1>1, <1>2
  <2>2. missed' \subseteq trimmed' \cap joined' + 1..sent'
    <3>1. joined + 1..sent \subseteq joined + 1..sent + 1 /\ missed \subseteq trimmed
      BY <1>2 DEF Inv, TypeOK
    <3> QED
      BY <1>1, <1>2, <3>1
  <2> QED
    BY <1>1, <1>4, <2>1, <2>2 DEF Inv, TypeOK
<1>7. EventsAreSound' /\ ConnectionIsSound'
  BY <1>1, <1>2 DEF Inv, EventsAreSound, IsLast, IsRow, ConnectionIsSound
<1>8. ReceivedIsShown'
  <2> SUFFICES ASSUME NEW k \in Got',
                      \A j \in Got' : k < j => stream[j].item # stream[k].item
               PROVE  mirror'[stream[k].item] = IF stream[k].deletes THEN 0 ELSE stream[k].version
    BY <1>1 DEF ReceivedIsShown
  <2>1. CASE k = sent + 1
    BY <1>0, <1>4, <2>1
  <2>2. CASE k # sent + 1
    <3>1. k \in Got /\ k \in 1..Len(stream) /\ stream[k].item # e.item
      BY <1>0, <1>5, <2>2
    <3>2. mirror[stream[k].item] = IF stream[k].deletes THEN 0 ELSE stream[k].version
      BY <1>5, <3>1 DEF Inv, ReceivedIsShown
    <3>3. stream[k].item \in Item
      BY <3>1, Types DEF Inv
    <3> QED
      BY <1>4, <3>1, <3>2, <3>3
  <2> QED
    BY <2>1, <2>2
<1>9. ASSUME NEW i \in Item, NoneReceived(i)'
      PROVE  NoneReceived(i) /\ mirror'[i] = mirror[i]
  BY <1>0, <1>1, <1>4, <1>5, <1>9 DEF NoneReceived
<1>10. ListIsSound'
  <2>1. ASSUME NEW i \in Item, NEW p, PositionIsRead(i, p)
        PROVE  PositionIsRead(i, p)'
    BY <1>1, <1>9, <2>1 DEF PositionIsRead
  <2>2. ListIsSound
    BY DEF Inv
  <2> QED
    BY <1>1, <1>9, <2>1, <2>2 DEF ListIsSound, IsRow
<1> QED
  BY <1>6, <1>7, <1>8, <1>10 DEF Inv

LEMMA LostStep ==
  ASSUME Inv, ConnectionLost
  PROVE  Inv'
<1>1. /\ phase = "following" /\ phase' = "offline" /\ lost' \in 0..MaxLost
      /\ sent' = cursor /\ missed' = {k \in missed : k <= cursor}
      /\ UNCHANGED <<table, version, pending, stream, trimmed, offset, page, mirror, cursor,
                     joined, touched, shifted>>
  BY DEF ConnectionLost, service, rows, Inv, TypeOK
<1>2. /\ cursor \in Nat /\ sent \in Nat /\ joined \in Nat /\ sent <= Len(stream)
      /\ cursor <= sent /\ Len(stream) \in Nat
      /\ missed \subseteq joined + 1..sent /\ missed \subseteq trimmed
  BY <1>1, Types DEF Inv, TypeOK
<1>3. TypeOK'
  <2>1. cursor' \in 0..sent' /\ sent' \in 0..Len(stream)
    BY <1>1, <1>2
  <2>2. missed' \subseteq trimmed' \cap joined' + 1..sent'
    <3>1. \A k \in joined + 1..sent : k <= cursor => k \in joined + 1..cursor
      BY <1>2
    <3> QED
      BY <1>1, <1>2, <3>1
  <2> QED
    BY <1>1, <2>1, <2>2 DEF Inv, TypeOK, Phase
<1>4. ConnectionIsSound'
  BY <1>1, <1>2 DEF Inv, ConnectionIsSound
<1>5. Got' = Got
  <2>1. CASE cursor = 0
    <3>1. joined + 1..sent \subseteq missed /\ joined + 1..cursor = {}
      BY <1>1, <1>2, <2>1 DEF Inv, ConnectionIsSound
    <3> QED
      BY <1>1, <3>1 DEF Got
  <2>2. CASE cursor # 0
    <3>1. joined < cursor /\ cursor + 1..sent \subseteq missed
      BY <2>2 DEF Inv, ConnectionIsSound
    <3>2. ASSUME NEW k
          PROVE  k \in joined + 1..sent <=> k \in joined + 1..cursor \/ k \in cursor + 1..sent
      BY <1>2, <3>1
    <3>3. ASSUME NEW k \in joined + 1..cursor
          PROVE  k <= cursor /\ k \notin cursor + 1..sent
      BY <1>2
    <3> QED
      BY <1>1, <3>1, <3>2, <3>3 DEF Got
  <2> QED
    BY <2>1, <2>2
<1> QED
  BY <1>1, <1>3, <1>4, <1>5, SameGot DEF Inv

\* An empty copy, about to read the first page.
LEMMA FreshList ==
  ASSUME TypeOK, phase = "list", offset = 0, page = <<>>, \A i \in Item : mirror[i] = 0,
         cursor = 0, sent = 0, joined = 0
  PROVE  ConnectionIsSound /\ ReceivedIsShown /\ ListIsSound
<1>1. \A p \in 1..Len(table) : ~(p <= RowsRead)
  BY Types DEF RowsRead
<1>2. ConnectionIsSound /\ ReceivedIsShown
  BY DEF ConnectionIsSound, ReceivedIsShown, Got
<1>3. ListIsSound
  <2>1. Len(page) = 0
    OBVIOUS
  <2> QED
    BY <1>1, <2>1 DEF ListIsSound, PositionIsRead
<1> QED
  BY <1>2, <1>3

LEMMA RefuseStep ==
  ASSUME Inv, Refuse
  PROVE  Inv'
<1>1. /\ phase = "offline" /\ phase' = "list"
      /\ offset' = 0 /\ mirror' = [i \in Item |-> 0] /\ cursor' = 0 /\ sent' = 0
      /\ joined' = 0 /\ missed' = {} /\ page = <<>>
      /\ UNCHANGED <<table, version, pending, stream, trimmed, page, lost, touched, shifted>>
  BY DEF Refuse, service, rows, Inv, ConnectionIsSound
<1>2. TypeOK'
  <2>1. 0 \in 0..MaxVersion /\ 0 \in 0..0 /\ 0 \in 0..Len(stream)
    BY Types DEF Inv
  <2>2. mirror' \in [Item -> 0..MaxVersion]
    BY <1>1, <2>1
  <2> QED
    BY <1>1, <2>1, <2>2 DEF Inv, TypeOK, Phase
<1>3. EventsAreSound'
  BY <1>1 DEF Inv, EventsAreSound, IsLast, IsRow
<1>4. ConnectionIsSound' /\ ReceivedIsShown' /\ ListIsSound'
  <2>1. \A i \in Item : mirror'[i] = 0
    BY <1>1
  <2>2. RowsRead' = 0 /\ Len(page') = 0 /\ Got' = {}
    BY <1>1 DEF RowsRead, Got
  <2>3. \A p \in 1..Len(table') : ~(p <= RowsRead')
    BY <1>1, <2>2, Types DEF Inv
  <2> QED
    BY <1>1, <2>1, <2>2, <2>3 DEF ConnectionIsSound, ReceivedIsShown, ListIsSound, PositionIsRead
<1> QED
  BY <1>2, <1>3, <1>4 DEF Inv

(***************************************************************************)
(* The invariant holds.                                                    *)
(***************************************************************************)
LEMMA InitInv == Init => Inv
<1> SUFFICES ASSUME Init PROVE Inv
  OBVIOUS
<1>1. /\ table = <<>> /\ Len(table) = 0 /\ pending = {} /\ stream = <<>> /\ Len(stream) = 0
      /\ page = <<>> /\ version = [i \in Item |-> 0] /\ mirror = [i \in Item |-> 0]
  BY DEF Init
<1>2. TypeOK
  <2>1. table \in Seq(Item) /\ stream \in Seq(Event) /\ page \in Seq([item : Item, version : 1..MaxVersion])
    BY <1>1
  <2>2. IsInjective(table)
    BY <1>1 DEF IsInjective
  <2>3. 0 \in 0..MaxVersion /\ 0 \in 0..0 /\ 0 \in 0..MaxLost /\ Len(stream) = 0
    BY <1>1
  <2> QED
    BY <1>1, <2>1, <2>2, <2>3 DEF Init, TypeOK, Phase
<1>3. EventsAreSound
  BY <1>1 DEF EventsAreSound, IsRow, Contains
<1>4. ConnectionIsSound /\ ReceivedIsShown /\ ListIsSound
  BY <1>1, <1>2, FreshList DEF Init
<1> QED
  BY <1>2, <1>3, <1>4 DEF Inv

LEMMA InvStep == Inv /\ [Next]_vars => Inv'
<1> SUFFICES ASSUME Inv, [Next]_vars PROVE Inv'
  OBVIOUS
<1>1. CASE Service
  BY <1>1, ServiceStep, PublisherStep, RetentionStep DEF Service
<1>2. CASE ReadPage
  BY <1>2, ReadPageStep
<1>3. CASE ReadTotal
  BY <1>3, ReadTotalStep
<1>4. CASE ClientConnect
  BY <1>4, ConnectStep
<1>5. CASE Receive
  BY <1>5, ReceiveStep
<1>6. CASE Miss
  BY <1>6, MissStep
<1>7. CASE ConnectionLost
  BY <1>7, LostStep
<1>8. CASE Refuse
  BY <1>8, RefuseStep
<1>9. CASE UNCHANGED vars
  BY <1>9 DEF vars, service, rows, clientVars, listVars, history, Inv, TypeOK, EventsAreSound,
              IsLast, IsRow, ConnectionIsSound, ReceivedIsShown, ListIsSound, PositionIsRead,
              NoneReceived, Got, RowsRead
<1> QED
  BY <1>1, <1>2, <1>3, <1>4, <1>5, <1>6, <1>7, <1>8, <1>9 DEF Next

\* The whole invariant: the events of each item count its writes, the copy shows
\* the last event that came, the connection is past its cursor only by events that
\* retention deleted, and what nobody touched was listed rightly.
THEOREM InvHolds == Spec => []Inv
<1> QED
  BY InitInv, InvStep, PTL DEF Spec

(***************************************************************************)
(* The properties.                                                         *)
(***************************************************************************)
\* Rows, events, the page and the copy are what TypeOK says; no item has two rows.
THEOREM TypeCorrect == Spec => []TypeOK
<1>1. Inv => TypeOK
  BY DEF Inv
<1> QED
  BY <1>1, InvHolds, PTL

LEMMA RestIsSound ==
  ASSUME Inv, AtRest, NEW i \in Item
  PROVE  UpToDate(i) \/ IF Followed(i) = {} THEN i \in touched \cup shifted ELSE LastIsMissed(i)
<1>1. /\ pending = {} /\ phase = "following" /\ sent = Len(stream) /\ Len(stream) \in Nat
      /\ joined \in Nat /\ version[i] \in Nat /\ \A p \in 1..Len(table) : p \in Nat
      /\ \A k \in 1..Len(stream) : stream[k].version \in Nat /\ stream[k].version # 0
  BY Types DEF AtRest, Inv
<1>2. \A k \in joined + 1..Len(stream) : k \in 1..Len(stream)
  BY <1>1
<1>3. ASSUME Followed(i) = {}, i \notin touched \cup shifted
      PROVE  UpToDate(i)
  <2>1. NoneReceived(i)
    BY <1>1, <1>3 DEF Followed, NoneReceived, Got
  <2>2. CASE ~IsRow(i)
    BY <1>3, <2>1, <2>2 DEF Inv, ListIsSound, UpToDate
  <2>3. CASE IsRow(i)
    <3>1. PICK p \in 1..Len(table) : table[p] = i
      BY <2>3 DEF IsRow, Contains
    <3>2. PositionIsRead(i, p)
      BY <1>3, <3>1 DEF Inv, ListIsSound
    <3> QED
      BY <1>1, <2>1, <2>3, <3>2 DEF PositionIsRead, UpToDate
  <2> QED
    BY <2>2, <2>3
<1>4. ASSUME Followed(i) # {}, ~LastIsMissed(i)
      PROVE  UpToDate(i)
  <2>1. PICK k \in joined + 1..Len(stream) : stream[k].item = i
    BY <1>4 DEF Followed
  <2>2. EventsAreSound /\ k \in 1..Len(stream)
    BY <1>2 DEF Inv
  <2>3. version[i] # 0
    <3>1. stream[k].version <= version[i]
      BY <2>1, <2>2 DEF EventsAreSound
    <3> QED
      BY <1>1, <2>2, <3>1
  <2>4. PICK m \in 1..Len(stream) : IsLast(i, stream[m])
    BY <1>1, <2>2, <2>3 DEF EventsAreSound
  <2>5. stream[m].item = i /\ stream[m].version = version[i] /\ (stream[m].deletes <=> ~IsRow(i))
    BY <2>4 DEF IsLast
  <2>6. ASSUME NEW j \in 1..Len(stream), m < j
        PROVE  stream[j].item # i
    <3>1. ASSUME stream[j].item = i PROVE FALSE
      <4>1. stream[m].version < stream[j].version /\ stream[j].version <= version[i]
        BY <2>2, <2>5, <2>6, <3>1 DEF EventsAreSound
      <4> QED
        BY <1>1, <2>5, <4>1
    <3> QED
      BY <3>1
  <2>7. k <= m
    BY <1>1, <2>1, <2>2, <2>6
  <2>8. m \in Got /\ \A j \in Got : j \in 1..Len(stream)
    <3>1. m \in Followed(i)
      BY <1>1, <2>1, <2>5, <2>7 DEF Followed
    <3>2. \A j \in Followed(i) : j <= m
      BY <1>1, <1>2, <2>6 DEF Followed
    <3>3. m \notin missed
      BY <1>4, <3>1, <3>2 DEF LastIsMissed
    <3> QED
      BY <1>1, <1>2, <3>1, <3>3 DEF Got, Followed
  <2>9. mirror[i] = IF stream[m].deletes THEN 0 ELSE stream[m].version
    BY <2>5, <2>6, <2>8 DEF Inv, ReceivedIsShown
  <2> QED
    BY <2>5, <2>9 DEF UpToDate
<1> QED
  BY <1>3, <1>4

\* A client that resynchronises is wrong, at rest, only about items that have no
\* event after it joined and were written, or moved past it, since the first page,
\* and about items whose last event retention deleted before it came.
THEOREM OnlyTheWindow == Spec => []OnlyTheWindowIsMissed
<1>1. Inv => OnlyTheWindowIsMissed
  BY RestIsSound DEF OnlyTheWindowIsMissed
<1> QED
  BY <1>1, InvHolds, PTL
=============================================================================
