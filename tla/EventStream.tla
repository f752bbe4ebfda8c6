---------------------------- MODULE EventStream ----------------------------
(***************************************************************************)
(* What the disruptor promises its users, without sequencers, flags or     *)
(* compare-and-set: a bounded stream.  Producers reserve places at the end *)
(* of the stream, fill the reserved places in any order, and the single    *)
(* consumer takes the events out strictly in the order of reservation,     *)
(* never past a place that is not filled yet.  Places are given back for   *)
(* reuse in bulk, after their events were taken.                           *)
(* MultiProducerSequencer is shown to implement this module.               *)
(***************************************************************************)
EXTENDS Integers, Sequences

CONSTANT Capacity       \* the number of places (BufferSize of the disruptor)

VARIABLES reserved,     \* how many places were ever reserved
          filled,       \* the places whose event was published
          taken,        \* the events taken by the consumer, in order
          recycled      \* how many places were given back

streamVars == <<reserved, filled, taken, recycled>>

StreamInit ==
    /\ reserved = 0
    /\ filled = {}
    /\ taken = << >>
    /\ recycled = 0

(* A producer reserves n adjacent places, if that many are free. *)
Reserve ==
    \E n \in 1 .. Capacity :
        /\ reserved + n - recycled <= Capacity
        /\ reserved' = reserved + n
        /\ UNCHANGED <<filled, taken, recycled>>

(* The owner of a reserved place publishes its event, once. *)
Fill ==
    \E s \in 0 .. reserved - 1 :
        /\ s \notin filled
        /\ filled' = filled \cup {s}
        /\ UNCHANGED <<reserved, taken, recycled>>

(* The consumer takes the oldest event that was not taken yet. *)
Take ==
    /\ Len(taken) \in filled
    /\ taken' = Append(taken, Len(taken))
    /\ UNCHANGED <<reserved, filled, recycled>>

(* The places of events already taken become free, several at a time. *)
Recycle ==
    \E k \in recycled + 1 .. Len(taken) :
        /\ recycled' = k
        /\ UNCHANGED <<reserved, filled, taken>>

StreamNext == Reserve \/ Fill \/ Take \/ Recycle

StreamSpec == StreamInit /\ [][StreamNext]_streamVars
=============================================================================
