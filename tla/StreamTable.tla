---------------------------- MODULE StreamTable ----------------------------
(***************************************************************************)
(* What the publishers, all of them together, promise to the tailers and   *)
(* to a replay: committed events become visible with a stream_seq in       *)
(* blocks, every block above all that is already visible, and the events   *)
(* of one item in the order of its writes.  A reader that remembers the    *)
(* highest stream_seq it has seen can therefore resume from it and miss    *)
(* nothing.  Holes between blocks are allowed.                             *)
(*                                                                         *)
(* OutboxPublisher implements this specification.                          *)
(***************************************************************************)
EXTENDS Integers

CONSTANT Item

VARIABLES
  committed,   \* committed events: [id, item]
  stream       \* those that have a stream_seq: [id, item, seq]

streamVars == <<committed, stream>>

Entry     == [id : Nat \ {0}, item : Item]
Published == [id : Nat \ {0}, item : Item, seq : Nat \ {0}]

EntryOf(s) == [id |-> s.id, item |-> s.item]

StreamInit ==
  /\ committed = {}
  /\ stream = {}

\* The writes of one item become visible in the order of their ids.
Arrive(e) ==
  /\ \A f \in committed : f.id # e.id /\ (f.item = e.item => f.id < e.id)
  /\ committed' = committed \cup {e}
  /\ UNCHANGED stream

Publish(block) ==
  /\ block # {}
  /\ \A s \in block :
       /\ EntryOf(s) \in committed
       /\ \A t \in stream : t.seq < s.seq /\ t.id # s.id
       /\ \A t \in block : t.seq = s.seq \/ t.id = s.id => t = s
  /\ stream' = stream \cup block
  /\ \A s \in block, e \in committed :
       e.item = s.item /\ e.id < s.id =>
         \E t \in stream' : t.id = e.id /\ t.seq < s.seq
  /\ UNCHANGED committed

\* What one step may do; bounded quantifiers over the step's own result.
StreamNext ==
  \/ \E e \in committed' \ committed : e \in Entry /\ Arrive(e)
  \/ stream' \ stream \subseteq Published /\ Publish(stream' \ stream)

StreamSpec == StreamInit /\ [][StreamNext]_streamVars
============================================================================
