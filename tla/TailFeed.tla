------------------------------ MODULE TailFeed ------------------------------
(***************************************************************************)
(* What a worker's tailer promises to its hub: from the moment it starts,  *)
(* every event of the stream is handed over once, in the order of          *)
(* stream_seq, but for those that retention deletes first.                 *)
(*                                                                         *)
(* OutboxTailer implements this specification.                             *)
(***************************************************************************)
EXTENDS Integers, Sequences, Functions

VARIABLES
  stream,    \* every event that was ever given a stream_seq
  trimmed,   \* those that retention has deleted
  origin,    \* the cursor with which the tailer started
  cursor,    \* the last stream_seq it has read
  handed     \* the events given to the hub since it started, in their order

feedVars == <<stream, trimmed, origin, cursor, handed>>

Retained == stream \ trimmed

FeedInit ==
  /\ stream = {} /\ trimmed = {}
  /\ origin = 0 /\ cursor = 0
  /\ handed = <<>>

\* Publication above all that is visible; retention of anything.
Change ==
  /\ stream \subseteq stream' /\ trimmed \subseteq trimmed'
  /\ \A s \in stream' \ stream, t \in stream : t.seq < s.seq
  /\ UNCHANGED <<origin, cursor, handed>>

\* A start: at the newest retained event, or at 0.
Begin ==
  /\ \A s \in Retained : s.seq <= cursor'
  /\ cursor' = 0 \/ \E s \in Retained : s.seq = cursor'
  /\ origin' = cursor'
  /\ handed' = <<>>
  /\ UNCHANGED <<stream, trimmed>>

\* The end of the process: what it held in memory is gone.
End ==
  /\ origin' = 0 /\ cursor' = 0
  /\ handed' = <<>>
  /\ UNCHANGED <<stream, trimmed>>

\* The next events up to a new cursor, every one above all that was handed over
\* before; only what is deleted may be missing.
HandOver(page) ==
  /\ page # <<>>
  /\ Range(page) \subseteq stream
  /\ \A i \in DOMAIN page : cursor < page[i].seq
  /\ \A i, j \in DOMAIN page : i < j => page[i].seq < page[j].seq
  /\ cursor' = page[Len(page)].seq
  /\ \A s \in Retained : cursor < s.seq /\ s.seq <= cursor' => s \in Range(page)
  /\ handed' = handed \o page
  /\ UNCHANGED <<stream, trimmed, origin>>

\* What one step has added to handed.
New == SubSeq(handed', Len(handed) + 1, Len(handed'))

FeedNext ==
  \/ Change
  \/ Begin
  \/ End
  \/ HandOver(New)

FeedSpec == FeedInit /\ [][FeedNext]_feedVars
=============================================================================
