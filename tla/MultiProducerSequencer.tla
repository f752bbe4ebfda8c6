---------------------- MODULE MultiProducerSequencer ----------------------
(***************************************************************************)
(* The disruptor of common/multithread/disruptor: any number of producers  *)
(* claim sequences with next(), try_next() or next_batch(), write the ring *)
(* slots they claimed and publish them; one consumer scans for the highest *)
(* published sequence, reads the events and recycles the slots.            *)
(*                                                                         *)
(* One step of the model is one access to shared memory: a load or store   *)
(* of cursor_, of gating_sequence_ or of one flag, one compare-and-set, or *)
(* one access to a ring slot.  The event a producer writes for sequence s  *)
(* is s itself, so that a lost, repeated, stale or overwritten event is    *)
(* visible in what the consumer reads.                                     *)
(***************************************************************************)
EXTENDS Integers, Sequences

CONSTANTS Producers,    \* the producer threads
          BufferSize,   \* buffer_size_: the number of ring slots
          BatchSizes,   \* the arguments next_batch() is called with
          Quota,        \* bound: how many claims one producer attempts
          None          \* a ring slot no event was written to

ASSUME BufferSizeAssumption == BufferSize \in Nat \ {0}
ASSUME BatchSizesAssumption == BatchSizes \subseteq Nat \ {0}
ASSUME QuotaAssumption == Quota \in Nat
ASSUME NoneAssumption == None \notin Int

VARIABLES cursor,       \* cursor_: the highest claimed sequence
          gating,       \* gating_sequence_: the highest consumed sequence
          available,    \* available_flags_, by slot
          ring,         \* the ring buffer's entries, by slot
          pc,           \* where each producer is
          op,           \* "next", "try_next" or "next_batch"
          cnt,          \* n: how many sequences it claims
          current,      \* its local copy of the cursor
          pos,          \* the sequence it writes or publishes next
          left,         \* how many claims it may still start
          cpc,          \* where the consumer is
          next_seq,     \* the consumer's next_seq
          bound,        \* the cursor it scans up to
          seq,          \* the sequence it scans, reads or marks next
          highest,      \* the result of get_highest_published
          delivered     \* the events the consumer read, in order

producerVars == <<pc, op, cnt, current, pos, left>>
consumerVars == <<cpc, next_seq, bound, seq, highest, delivered>>
vars == <<cursor, gating, available, ring, producerVars, consumerVars>>

Slots == 0 .. BufferSize - 1

(* sequence & index_mask_, for a buffer whose size is a power of two *)
Slot(s) == s % BufferSize

Init ==
    /\ cursor = -1
    /\ gating = -1
    /\ available = [i \in Slots |-> FALSE]
    /\ ring = [i \in Slots |-> None]
    /\ pc = [p \in Producers |-> "idle"]
    /\ op = [p \in Producers |-> "next"]
    /\ cnt = [p \in Producers |-> 1]
    /\ current = [p \in Producers |-> -1]
    /\ pos = [p \in Producers |-> 0]
    /\ left = [p \in Producers |-> Quota]
    /\ cpc = "poll"
    /\ next_seq = 0
    /\ bound = -1
    /\ seq = 0
    /\ highest = -1
    /\ delivered = << >>

-----------------------------------------------------------------------------
(* Producers. *)

(* A thread calls one of the three claiming operations. *)
StartClaim(p) ==
    /\ pc[p] = "idle"
    /\ left[p] > 0
    /\ \E o \in {"next", "try_next", "next_batch"} :
       \E n \in IF o = "next_batch" THEN BatchSizes ELSE {1} :
            /\ op' = [op EXCEPT ![p] = o]
            /\ cnt' = [cnt EXCEPT ![p] = n]
    /\ left' = [left EXCEPT ![p] = @ - 1]
    /\ pc' = [pc EXCEPT ![p] = "load"]
    /\ UNCHANGED <<cursor, gating, available, ring, current, pos, consumerVars>>

(* current = cursor_.get() *)
LoadCursor(p) ==
    /\ pc[p] = "load"
    /\ current' = [current EXCEPT ![p] = cursor]
    /\ pc' = [pc EXCEPT ![p] = "gate"]
    /\ UNCHANGED <<cursor, gating, available, ring, op, cnt, pos, left, consumerVars>>

WrapPoint(p) == current[p] + cnt[p] - BufferSize

(* gating_sequence_.get() lets the claim through: there is room.  next()   *)
(* and next_batch() repeat the load until it does, which is a stutter.     *)
GateOpen(p) ==
    /\ pc[p] = "gate"
    /\ WrapPoint(p) <= gating
    /\ pc' = [pc EXCEPT ![p] = "cas"]
    /\ UNCHANGED <<cursor, gating, available, ring, op, cnt, current, pos, left, consumerVars>>

(* try_next() finds the buffer full and returns -1. *)
TryNextFull(p) ==
    /\ pc[p] = "gate"
    /\ op[p] = "try_next"
    /\ WrapPoint(p) > gating
    /\ pc' = [pc EXCEPT ![p] = "idle"]
    /\ UNCHANGED <<cursor, gating, available, ring, op, cnt, current, pos, left, consumerVars>>

(* Fault: the cursor is stored without comparing it first. *)
ClaimByStore(p) ==
    /\ pc[p] = "cas"
    /\ cursor' = current[p] + cnt[p]
    /\ pos' = [pos EXCEPT ![p] = current[p] + 1]
    /\ pc' = [pc EXCEPT ![p] = "write"]
    /\ UNCHANGED <<gating, available, ring, op, cnt, current, left, consumerVars>>

(* compare_and_set(current, current + n) succeeds: the sequences
   current + 1 .. current + n belong to p. *)
ClaimWins(p) ==
    /\ pc[p] = "cas"
    /\ cursor = current[p]
    /\ cursor' = current[p] + cnt[p]
    /\ pos' = [pos EXCEPT ![p] = current[p] + 1]
    /\ pc' = [pc EXCEPT ![p] = "write"]
    /\ UNCHANGED <<gating, available, ring, op, cnt, current, left, consumerVars>>

(* compare_and_set fails: the cursor moved, or compare_exchange_weak failed
   spuriously.  try_next() gives up with -1, the others start over. *)
ClaimLoses(p) ==
    /\ pc[p] = "cas"
    /\ pc' = [pc EXCEPT ![p] = IF op[p] = "try_next" THEN "idle" ELSE "load"]
    /\ UNCHANGED <<cursor, gating, available, ring, op, cnt, current, pos, left, consumerVars>>

Last(p) == current[p] + cnt[p]

(* ring_buffer[pos] = event, one slot after the other *)
WriteSlot(p) ==
    /\ pc[p] = "write"
    /\ ring' = [ring EXCEPT ![Slot(pos[p])] = pos[p]]
    /\ IF pos[p] < Last(p)
       THEN /\ pos' = [pos EXCEPT ![p] = @ + 1]
            /\ pc' = pc
       ELSE /\ pos' = [pos EXCEPT ![p] = current[p] + 1]
            /\ pc' = [pc EXCEPT ![p] = "publish"]
    /\ UNCHANGED <<cursor, gating, available, op, cnt, current, left, consumerVars>>

(* Fault: publish_batch stops one short of hi. *)
PublishShort(p) ==
    /\ pc[p] = "publish"
    /\ available' = IF pos[p] < Last(p) \/ cnt[p] = 1
                    THEN [available EXCEPT ![Slot(pos[p])] = TRUE] ELSE available
    /\ pos' = [pos EXCEPT ![p] = @ + 1]
    /\ pc' = IF pos[p] < Last(p) THEN pc ELSE [pc EXCEPT ![p] = "idle"]
    /\ UNCHANGED <<cursor, gating, ring, op, cnt, current, left, consumerVars>>

(* publish and publish_batch raise the flags lo .. hi in order; the signal
   after the last one is the wait strategy's affair (module Logger). *)
Publish(p) ==
    /\ pc[p] = "publish"
    /\ available' = [available EXCEPT ![Slot(pos[p])] = TRUE]
    /\ pos' = [pos EXCEPT ![p] = @ + 1]
    /\ pc' = IF pos[p] < Last(p) THEN pc ELSE [pc EXCEPT ![p] = "idle"]
    /\ UNCHANGED <<cursor, gating, ring, op, cnt, current, left, consumerVars>>

Producer(p) ==
    \/ StartClaim(p) \/ LoadCursor(p) \/ GateOpen(p) \/ TryNextFull(p)
    \/ ClaimWins(p) \/ ClaimLoses(p) \/ WriteSlot(p) \/ Publish(p)

-----------------------------------------------------------------------------
(* The consumer: one round of Logger::consumer_loop. *)

(* get_cursor(), the upper bound of the scan *)
Poll ==
    /\ cpc = "poll"
    /\ bound' = cursor
    /\ seq' = next_seq
    /\ cpc' = "scan"
    /\ UNCHANGED <<cursor, gating, available, ring, producerVars, next_seq, highest, delivered>>

(* get_highest_published: the flag of seq is up, the scan goes on. *)
ScanFlag ==
    /\ cpc = "scan"
    /\ seq <= bound
    /\ available[Slot(seq)]
    /\ seq' = seq + 1
    /\ UNCHANGED <<cursor, gating, available, ring, producerVars,
                   cpc, next_seq, bound, highest, delivered>>

(* Fault: the scan reports the claimed cursor, gaps or not. *)
ScanIgnoresGaps ==
    /\ cpc = "scan"
    /\ seq > bound \/ ~available[Slot(seq)]
    /\ highest' = bound
    /\ cpc' = IF bound < next_seq THEN "wait" ELSE "read"
    /\ seq' = next_seq
    /\ UNCHANGED <<cursor, gating, available, ring, producerVars, next_seq, bound, delivered>>

(* Fault: the gating sequence is raised before the slots are read. *)
ScanEndReleasesEarly ==
    /\ cpc = "scan"
    /\ seq > bound \/ ~available[Slot(seq)]
    /\ highest' = seq - 1
    /\ cpc' = IF seq - 1 < next_seq THEN "wait" ELSE "read"
    /\ gating' = seq - 1
    /\ seq' = next_seq
    /\ UNCHANGED <<cursor, available, ring, producerVars, next_seq, bound, delivered>>

(* get_highest_published returns: at the first gap, or at the bound. *)
ScanEnd ==
    /\ cpc = "scan"
    /\ seq > bound \/ ~available[Slot(seq)]
    /\ LET result == IF seq > bound THEN bound ELSE seq - 1
       IN  /\ highest' = result
           /\ cpc' = IF result < next_seq THEN "wait" ELSE "read"
    /\ seq' = next_seq
    /\ UNCHANGED <<cursor, gating, available, ring, producerVars, next_seq, bound, delivered>>

(* wait_for(next_seq) returns once the sequence is claimed. *)
WaitFor ==
    /\ cpc = "wait"
    /\ cursor >= next_seq
    /\ cpc' = "poll"
    /\ UNCHANGED <<cursor, gating, available, ring, producerVars,
                   next_seq, bound, seq, highest, delivered>>

(* The event is moved out of its slot. *)
ReadSlot ==
    /\ cpc = "read"
    /\ delivered' = Append(delivered, ring[Slot(seq)])
    /\ cpc' = "mark"
    /\ UNCHANGED <<cursor, gating, available, ring, producerVars,
                   next_seq, bound, seq, highest>>

(* mark_consumed(seq) *)
MarkConsumed ==
    /\ cpc = "mark"
    /\ available' = [available EXCEPT ![Slot(seq)] = FALSE]
    /\ seq' = seq + 1
    /\ cpc' = IF seq < highest THEN "read" ELSE "gate"
    /\ UNCHANGED <<cursor, gating, ring, producerVars, next_seq, bound, highest, delivered>>

(* update_gating_sequence(last_consumed): all freed slots at once *)
UpdateGating ==
    /\ cpc = "gate"
    /\ gating' = seq - 1
    /\ next_seq' = seq
    /\ cpc' = "poll"
    /\ UNCHANGED <<cursor, available, ring, producerVars, bound, seq, highest, delivered>>

Consumer ==
    \/ Poll \/ ScanFlag \/ ScanEnd \/ WaitFor
    \/ ReadSlot \/ MarkConsumed \/ UpdateGating

-----------------------------------------------------------------------------
Next == Consumer \/ \E p \in Producers : Producer(p)

Spec == Init /\ [][Next]_vars

(* The consumer thread and every producer inside an operation keep running;
   a compare-and-set that is retried for ever does not fail for ever. *)
Fairness ==
    /\ WF_vars(Consumer)
    /\ \A p \in Producers :
        /\ WF_vars(Producer(p) /\ pc[p] # "idle")
        /\ SF_vars(ClaimWins(p))

FairSpec == Spec /\ Fairness

-----------------------------------------------------------------------------
(* Properties. *)

(* Sequences are integers, -1 meaning none yet; every thread is at a known  *)
(* place of its operation, with a positive number of sequences to claim and *)
(* within its bound of claims.                                              *)
TypeOK ==
    /\ cursor \in Int /\ gating \in Int
    /\ available \in [Slots -> BOOLEAN]
    /\ ring \in [Slots -> Int \cup {None}]
    /\ pc \in [Producers -> {"idle", "load", "gate", "cas", "write", "publish"}]
    /\ op \in [Producers -> {"next", "try_next", "next_batch"}]
    /\ cnt \in [Producers -> Nat \ {0}]
    /\ current \in [Producers -> Int]
    /\ pos \in [Producers -> Int]
    /\ left \in [Producers -> Nat]
    /\ cpc \in {"poll", "scan", "wait", "read", "mark", "gate"}
    /\ next_seq \in Int /\ bound \in Int /\ seq \in Int /\ highest \in Int
    /\ delivered \in Seq(Int \cup {None})

(* Producer p is between its claim and its last publication. *)
InClaim(p) == pc[p] \in {"write", "publish"}

(* The oldest sequence of its claim that p has not published yet. *)
First(p) == IF pc[p] = "write" THEN current[p] + 1 ELSE pos[p]

(* Producer p claimed s and has not published it yet. *)
Owns(p, s) == InClaim(p) /\ First(p) <= s /\ s <= Last(p)

(* The sequences whose publication is complete. *)
Published == {s \in 0 .. cursor : \A p \in Producers : ~Owns(p, s)}

(* The oldest sequence whose slot the consumer has not marked consumed. *)
Unmarked == IF cpc \in {"read", "mark", "gate"} THEN seq ELSE next_seq

(* Backpressure in next, try_next and next_batch: claimed sequences that    *)
(* were not released by update_gating_sequence never outnumber the slots,   *)
(* although cursor and gating sequence are read at different moments.       *)
NoWrap == cursor - gating <= BufferSize

(* A slot has one user: no two producers own sequences of the same slot,    *)
(* and no producer owns the slot of a sequence the consumer may still read  *)
(* or clear (the data race next() has to exclude with its two loads and one *)
(* compare-and-set).                                                        *)
SlotExclusive ==
    \A p \in Producers : \A s \in 0 .. cursor : Owns(p, s) =>
        /\ \A q \in Producers \ {p} : \A t \in 0 .. cursor :
               Owns(q, t) => Slot(s) # Slot(t)
        /\ \A t \in Unmarked .. s - 1 : Slot(s) # Slot(t)

(* The consumer reads the event of sequence 0, then of 1, and so on: none   *)
(* lost, repeated, out of order, torn by a wrapped producer or stale from   *)
(* the previous lap of the ring (get_highest_published, mark_consumed).     *)
DeliveredInOrder ==
    \A i \in 1 .. Len(delivered) : delivered[i] = i - 1

(* A flag is up exactly while the one sequence of its slot that is inside   *)
(* the window of the ring is published and not consumed: what makes a bare  *)
(* boolean per slot enough, without a lap counter (mark_consumed's comment).*)
FlagsExact ==
    \A s \in Unmarked .. Unmarked + BufferSize - 1 :
        available[Slot(s)] <=> s \in Published

(* What each producer's local variables know about the shared ones: the     *)
(* claims under way lie between consumer and cursor and do not overlap.     *)
ProducerInv ==
    \A p \in Producers :
        /\ pc[p] \in {"gate", "cas"} => current[p] <= cursor
        /\ pc[p] = "cas" => WrapPoint(p) <= gating
        /\ InClaim(p) => /\ current[p] < pos[p] /\ pos[p] <= Last(p)
                         /\ Unmarked <= First(p) /\ Last(p) <= cursor
        /\ \A q \in Producers \ {p} :
               InClaim(p) /\ InClaim(q) => Last(p) < First(q) \/ Last(q) < First(p)

(* What the consumer's local variables know about the shared ones. *)
ConsumerInv ==
    /\ gating = next_seq - 1 /\ -1 <= gating /\ gating <= cursor
    /\ cpc = "scan" => /\ next_seq <= seq /\ seq <= bound + 1 /\ bound <= cursor
                       /\ next_seq .. seq - 1 \subseteq Published
    /\ cpc \in {"read", "mark"} => /\ next_seq <= seq /\ seq <= highest
                                   /\ seq .. highest \subseteq Published
    /\ cpc = "gate" => next_seq < seq /\ seq <= cursor + 1
    /\ Len(delivered) = IF cpc = "mark" THEN seq + 1 ELSE Unmarked

(* A slot whose event was written holds it until the consumer is done. *)
RingInv ==
    \A s \in Unmarked .. cursor :
        (\A p \in Producers : Owns(p, s) => pc[p] = "publish" \/ s < pos[p])
            => ring[Slot(s)] = s

(* The inductive invariant behind the properties above: the local knowledge *)
(* of the producers and of the consumer together with flags and ring.       *)
SequencerInv ==
    /\ NoWrap /\ ProducerInv /\ ConsumerInv
    /\ FlagsExact /\ RingInv /\ DeliveredInOrder

Stream == INSTANCE EventStream WITH
    Capacity <- BufferSize,
    reserved <- cursor + 1,
    filled <- Published,
    taken <- delivered,
    recycled <- gating + 1

(* The disruptor implements a bounded stream: all its steps are stream      *)
(* steps or invisible.                                                      *)
RefinesStream == Stream!StreamSpec

(* A next() or next_batch() call returns, also when the buffer is full at   *)
(* first, if the batch fits into the buffer at all; and every sequence that *)
(* was claimed is read by the consumer in the end: no gap stays open and no *)
(* published event is forgotten by wait_for.                                *)
EveryClaimDelivered ==
    /\ \A p \in Producers :
           pc[p] = "load" /\ cnt[p] <= BufferSize ~> pc[p] \in {"write", "idle"}
    /\ \A s \in 0 .. Quota : cursor >= s ~> Len(delivered) > s
=============================================================================
