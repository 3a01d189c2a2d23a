----------------------------- MODULE StreamHub -----------------------------
(***************************************************************************)
(* app/streaming/hub.py as operators on a subscriber.  publish, offer and  *)
(* interrupt run without an await, so each is one value of one step.       *)
(*                                                                         *)
(* An envelope is its stream_seq: nothing else of it is looked at once     *)
(* wants() has let it pass.                                                *)
(***************************************************************************)
EXTENDS Integers, Sequences

CONSTANTS
  QueueSize,  \* stream_queue_size
  Shutdown    \* SHUTDOWN_SENTINEL

ASSUME HubAssumption ==
  /\ QueueSize \in Nat \ {0}
  /\ Shutdown \notin Nat

Subscriber == [queue : Seq(Nat \cup {Shutdown}), overflowed : BOOLEAN]

NewSubscriber == [queue |-> <<>>, overflowed |-> FALSE]

Room(sub) == QueueSize - Len(sub.queue)

\* Mutant: a full queue drops the event and says nothing.
OfferMutant(sub, seqs) ==
  IF Len(seqs) <= Room(sub)
    THEN [sub EXCEPT !.queue = @ \o seqs]
    ELSE [sub EXCEPT !.queue = @ \o SubSeq(seqs, 1, Room(sub))]

\* publish() offers the envelopes one by one and breaks at the first that does
\* not fit; from then on the subscriber is offered nothing.
Offer(sub, seqs) ==
  IF sub.overflowed
    THEN sub
  ELSE IF Len(seqs) <= Room(sub)
    THEN [sub EXCEPT !.queue = @ \o seqs]
    ELSE [queue |-> sub.queue \o SubSeq(seqs, 1, Room(sub)), overflowed |-> TRUE]

\* Mutant: the sentinel is queued whatever the limit.
InterruptMutant(sub) == [sub EXCEPT !.queue = Append(@, Shutdown)]

\* interrupt() queues the sentinel, or reports an overflow when there is no room.
Interrupt(sub) ==
  IF Room(sub) > 0
    THEN [sub EXCEPT !.queue = Append(@, Shutdown)]
    ELSE [sub EXCEPT !.overflowed = TRUE]
============================================================================
