------------------------------- MODULE Resync -------------------------------
(***************************************************************************)
(* A client that keeps a copy of the items: it reads GET /api/v1/items,    *)
(* page by page, then follows /api/v1/stream, and when the endpoint        *)
(* refuses its cursor (4003) it resynchronises the same way, as the        *)
(* refusal tells it to (app/api/stream.py).  An item of the list carries   *)
(* no stream_seq, so the client connects with the cursor of the last event *)
(* it received: after a list that is 0, live events only.                  *)
(*                                                                         *)
(* What other modules promise is taken from them: the publishers number    *)
(* the events of one item in the order of its writes (StreamTable),        *)
(* retention may delete any published event (Retention), a connection      *)
(* brings the events in order and skips none that is still retained        *)
(* (StreamDelivery), and the tailer of the worker the client connects to   *)
(* may be anywhere in the stream.  The endpoint's test of the cursor is    *)
(* the code's: it accepts an old cursor when retention left nothing, or    *)
(* left something older.  Numbers that a rolled back batch skips are left  *)
(* out: they can only make the endpoint refuse once more.  The client's    *)
(* loop is that of scripts/listen.py and README.md, "Client contract".     *)
(***************************************************************************)
EXTENDS Integers, FiniteSets, SequencesExt

CONSTANTS
  Item,         \* the entities
  PageLimit,    \* the limit of GET /items
  MaxVersion,   \* bound: writes of one item
  MaxLost,      \* bound: connections lost
  MaxTrimmed    \* bound: events that retention deletes

ASSUME ResyncAssumption ==
  /\ PageLimit \in Nat \ {0}
  /\ MaxVersion \in Nat \ {0}
  /\ MaxLost \in Nat
  /\ MaxTrimmed \in Nat

VARIABLES
  table,      \* the items, newest first (ORDER BY created_at DESC)
  version,    \* version[i] of its last write, 0 before its creation
  pending,    \* committed events without a stream_seq
  stream,     \* the published events: stream[k] has the stream_seq k
  trimmed,    \* those that retention has deleted
  phase,      \* what the client is doing
  offset,     \* of the page it reads next
  page,       \* the rows that GET /items has read before it counts
  mirror,     \* its copy: mirror[i] is the version it shows, 0 for none
  cursor,     \* the highest stream_seq it has processed
  sent,       \* the last stream_seq its connection is past
  lost,       \* connections lost so far
  joined,     \* history: where its first connection since the list began
  touched,    \* history: items written since the first page was read
  shifted,    \* history: items that a deletion has since then moved from a
              \* page to be read onto one that had been read
  missed      \* history: events its connection is past and did not bring

rows == <<table, version, pending>>
service == <<rows, stream, trimmed>>
listVars == <<phase, offset, page, mirror>>
clientVars == <<listVars, cursor, sent>>
history == <<joined, touched, shifted, missed>>
vars == <<service, clientVars, lost, history>>

\* An envelope: which item, its version and whether the event deletes it.
Event == [item : Item, version : 1..MaxVersion, deletes : BOOLEAN]

Phase == {"list", "count", "offline", "following"}

IsRow(i) == Contains(table, i)

TypeOK ==
  /\ table \in Seq(Item) /\ IsInjective(table)
  /\ version \in [Item -> 0..MaxVersion]
  /\ pending \subseteq Event /\ stream \in Seq(Event)
  /\ trimmed \subseteq 1..Len(stream)
  /\ phase \in Phase
  /\ offset \in Nat /\ page \in Seq([item : Item, version : 1..MaxVersion])
  /\ mirror \in [Item -> 0..MaxVersion]
  /\ cursor \in 0..sent /\ sent \in 0..Len(stream) /\ joined \in 0..Len(stream)
  /\ lost \in 0..MaxLost
  /\ touched \subseteq Item /\ shifted \subseteq Item
  /\ missed \subseteq trimmed \cap joined + 1..sent

Init ==
  /\ table = <<>>
  /\ version = [i \in Item |-> 0]
  /\ pending = {} /\ stream = <<>> /\ trimmed = {}
  /\ phase = "list" /\ offset = 0 /\ page = <<>>
  /\ mirror = [i \in Item |-> 0]
  /\ cursor = 0 /\ sent = 0
  /\ lost = 0
  /\ joined = 0 /\ touched = {} /\ shifted = {} /\ missed = {}

----------------------------------------------------------------------------
(***************************************************************************)
(* The service.                                                            *)
(***************************************************************************)
\* What ItemRepository does in one transaction: the row and its event.
Write(i, deletes) ==
  /\ version[i] < MaxVersion
  /\ version' = [version EXCEPT ![i] = @ + 1]
  /\ pending' = pending \cup
       {[item |-> i, version |-> version[i] + 1, deletes |-> deletes]}
  /\ touched' = touched \cup {i}
  /\ UNCHANGED <<stream, trimmed, clientVars, lost, joined, missed>>

\* created_at is the start of the transaction: an item that commits late may
\* stand behind others.
Create(i) ==
  /\ version[i] = 0
  /\ Write(i, FALSE)
  /\ \E k \in 1..Len(table) + 1 : table' = InsertAt(table, k, i)
  /\ UNCHANGED shifted

Update(i) ==
  /\ IsRow(i)
  /\ Write(i, FALSE)
  /\ UNCHANGED <<table, shifted>>

\* The rows the list has been past, or will be once it has counted.
RowsRead == IF phase = "count" THEN offset + PageLimit ELSE offset

\* The row that a deletion of the k-th moves across that boundary.
Shifts(k) ==
  {j \in Item : /\ phase \in {"list", "count"}
                /\ k <= RowsRead /\ RowsRead < Len(table)
                /\ table[RowsRead + 1] = j}

DeleteItem(i) ==
  /\ \E k \in 1..Len(table) :
       /\ table[k] = i
       /\ table' = RemoveAt(table, k)
       /\ shifted' = shifted \cup Shifts(k)
  /\ Write(i, TRUE)

\* Mutant: the events of an item in any order.
OldestMutant(e) == TRUE

\* No unpublished event of the same item precedes e.
Oldest(e) == \A f \in pending : f.item = e.item => e.version <= f.version

PublisherCommits(e) ==
  /\ Oldest(e)
  /\ pending' = pending \ {e}
  /\ stream' = Append(stream, e)
  /\ UNCHANGED <<table, version, trimmed, clientVars, lost, history>>

\* published_at does not follow stream_seq: any event may expire first.
RetentionDeletes(k) ==
  /\ Cardinality(trimmed) < MaxTrimmed
  /\ trimmed' = trimmed \cup {k}
  /\ UNCHANGED <<rows, stream, clientVars, lost, history>>

----------------------------------------------------------------------------
(***************************************************************************)
(* GET /items: a page and the total, two statements on one connection.     *)
(***************************************************************************)
ItemRead(i) == [item |-> i, version |-> version[i]]

\* ORDER BY created_at DESC LIMIT PageLimit OFFSET offset.
ReadPage ==
  /\ phase = "list"
  /\ LET last == Min({offset + PageLimit, Len(table)})
     IN  page' = [k \in 1..Max({last - offset, 0}) |-> ItemRead(table[offset + k])]
  /\ phase' = "count"
  /\ IF offset = 0
     THEN touched' = {} /\ shifted' = {}
     ELSE UNCHANGED <<touched, shifted>>
  /\ UNCHANGED <<service, offset, mirror, cursor, sent, lost, joined, missed>>

\* Mutant: the total is the length of the page.
TotalMutant == Len(page)

\* SELECT count(*) FROM items, later.
Total == Len(table)

Copied(i) ==
  IF \E k \in 1..Len(page) : page[k].item = i
    THEN (CHOOSE row \in Range(page) : row.item = i).version
    ELSE mirror[i]

\* The answer: the client copies the page and asks for the next one until it has
\* as many as the total says.
ReadTotal ==
  /\ phase = "count"
  /\ IF offset + PageLimit < Total
     THEN phase' = "list" /\ offset' = offset + PageLimit
     ELSE phase' = "offline" /\ offset' = 0
  /\ mirror' = [i \in Item |-> Copied(i)]
  /\ page' = <<>>
  /\ UNCHANGED <<service, cursor, sent, lost, history>>

----------------------------------------------------------------------------
(***************************************************************************)
(* The stream.                                                             *)
(***************************************************************************)
\* Mutant: the replay begins one event too late.
ReplayFromMutant == cursor + 1

\* stream_seq > last_event_id
ReplayFrom == cursor

Retained == DOMAIN stream \ trimmed

\* oldest is not None and oldest > last_event_id + 1
TooOld == Retained # {} /\ \A k \in Retained : k > cursor + 1

\* With a cursor the endpoint tests it, then replays; without one the client
\* gets what the tailer of its worker reads from now on.
ClientConnect ==
  /\ phase = "offline"
  /\ \/ cursor > 0 /\ ~TooOld /\ sent' = ReplayFrom /\ UNCHANGED joined
     \/ cursor = 0 /\ sent' \in 0..Len(stream) /\ joined' = sent'
  /\ phase' = "following"
  /\ UNCHANGED <<service, offset, page, mirror, cursor, lost, touched, shifted, missed>>

\* handle(message), then the cursor.  Retention may have deleted the event after
\* the replay or the tailer had read it.
Receive ==
  /\ phase = "following"
  /\ sent < Len(stream)
  /\ sent' = sent + 1
  /\ cursor' = sent'
  /\ LET e == stream[sent']
     IN  mirror' = [mirror EXCEPT ![e.item] = IF e.deletes THEN 0 ELSE e.version]
  /\ UNCHANGED <<service, phase, offset, page, lost, history>>

\* Retention has deleted the event before the replay or the tailer read it.
Miss ==
  /\ phase = "following"
  /\ sent + 1 \in trimmed
  /\ sent' = sent + 1
  /\ missed' = missed \cup {sent'}
  /\ UNCHANGED <<service, listVars, cursor, lost, joined, touched, shifted>>

ConnectionLost ==
  /\ phase = "following"
  /\ lost < MaxLost
  /\ lost' = lost + 1
  /\ phase' = "offline"
  /\ sent' = cursor
  /\ missed' = {k \in missed : k <= cursor}
  /\ UNCHANGED <<service, offset, page, mirror, cursor, joined, touched, shifted>>

\* cursor_too_old: the client forgets what it has and begins with the list.
Refuse ==
  /\ phase = "offline"
  /\ cursor > 0 /\ TooOld
  /\ phase' = "list" /\ offset' = 0
  /\ mirror' = [i \in Item |-> 0]
  /\ cursor' = 0 /\ sent' = 0
  /\ joined' = 0 /\ missed' = {}
  /\ UNCHANGED <<service, page, lost, touched, shifted>>

----------------------------------------------------------------------------
Service ==
  \/ \E i \in Item : Create(i) \/ Update(i) \/ DeleteItem(i)
  \/ \E e \in pending : PublisherCommits(e)
  \/ \E k \in Retained : RetentionDeletes(k)

Next ==
  \/ Service
  \/ ReadPage
  \/ ReadTotal
  \/ ClientConnect
  \/ Receive
  \/ Miss
  \/ ConnectionLost
  \/ Refuse

Spec == Init /\ [][Next]_vars

----------------------------------------------------------------------------
(***************************************************************************)
(* Properties.                                                             *)
(***************************************************************************)
\* Every event is published and the client, connected, is past the last.
AtRest == pending = {} /\ phase = "following" /\ sent = Len(stream)

UpToDate(i) == mirror[i] = IF IsRow(i) THEN version[i] ELSE 0

\* The events of i that have come, or should have, since the client connected.
Followed(i) == {k \in joined + 1..Len(stream) : stream[k].item = i}

\* Retention has deleted the last event of i before the client got it.
LastIsMissed(i) == \E k \in Followed(i) \cap missed : \A j \in Followed(i) : j <= k

\* What a resynchronisation can be trusted for.  At rest an item is wrong only
\* for one of two reasons.  Either none of its events came after the client had
\* connected, and it was written after the first page was read or a deletion
\* moved it onto a page that had been read; or retention deleted the last of its
\* events before the client got it, although the endpoint had accepted the
\* cursor.  Old events that overtake the list, a page and a total of two moments,
\* and connections lost and resumed do no lasting harm.
OnlyTheWindowIsMissed ==
  AtRest => \A i \in Item :
    UpToDate(i) \/ IF Followed(i) = {} THEN i \in touched \cup shifted ELSE LastIsMissed(i)

\* The detail of cursor_too_old, "Resynchronise from GET /api/v1/items, then
\* reconnect", and README: an event "cannot fail to arrive at all".
ResyncIsComplete == AtRest => \A i \in Item : UpToDate(i)
=============================================================================
