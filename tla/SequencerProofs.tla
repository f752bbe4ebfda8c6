-------------------------- MODULE SequencerProofs --------------------------
(* Proofs about MultiProducerSequencer. *)
EXTENDS MultiProducerSequencer, TLAPS

LEMMA SlotType == \A s \in Int : Slot(s) \in Slots
BY BufferSizeAssumption DEF Slot, Slots

LEMMA SlotInjective ==
    ASSUME NEW s \in Int, NEW t \in Int, Slot(s) = Slot(t),
           s - t < BufferSize, t - s < BufferSize
    PROVE  s = t
<1> DEFINE a == s \div BufferSize
           b == t \div BufferSize
<1>1. a \in Int /\ b \in Int
  BY BufferSizeAssumption
<1>2. s = BufferSize * a + (s % BufferSize)
  BY BufferSizeAssumption
<1>3. t = BufferSize * b + (t % BufferSize)
  BY BufferSizeAssumption
<1>4. s - t = BufferSize * a - BufferSize * b
  <2> HIDE DEF a, b
  <2>1. BufferSize * a \in Int /\ BufferSize * b \in Int
    BY <1>1, BufferSizeAssumption
  <2>2. s % BufferSize = t % BufferSize
    BY DEF Slot
  <2>3. s % BufferSize \in Int
    BY BufferSizeAssumption
  <2> QED
  BY <1>1, <1>2, <1>3, <2>1, <2>2, <2>3
<1> HIDE DEF a, b
<1>5. BufferSize * a - BufferSize * b = BufferSize * (a - b)
  BY <1>1, BufferSizeAssumption
<1>6. a - b = 0
  <2>1. CASE a - b >= 1
    <3>1. BufferSize * (a - b) >= BufferSize
      BY <1>1, <2>1, BufferSizeAssumption
    <3> QED
      BY <3>1, <1>4, <1>5, BufferSizeAssumption
  <2>2. CASE a - b <= -1
    <3>1. BufferSize * (a - b) <= -BufferSize
      BY <1>1, <2>2, BufferSizeAssumption
    <3> QED
      BY <3>1, <1>4, <1>5, BufferSizeAssumption
  <2> QED
    BY <1>1, <2>1, <2>2
<1>7. BufferSize * (a - b) = 0
  BY <1>6, BufferSizeAssumption
<1> QED
  BY <1>4, <1>5, <1>7

-----------------------------------------------------------------------------
(* Type correctness. *)

LEMMA InitTypeOK == Init => TypeOK
BY QuotaAssumption, BufferSizeAssumption DEF Init, TypeOK, Slots

LEMMA ProducerTypeOK ==
    ASSUME TypeOK, NEW p \in Producers, Producer(p)
    PROVE  TypeOK'
<1> USE DEF TypeOK, consumerVars, producerVars
<1>1. CASE StartClaim(p)
  BY <1>1, BatchSizesAssumption DEF StartClaim
<1>2. CASE LoadCursor(p)
  BY <1>2 DEF LoadCursor
<1>3. CASE GateOpen(p)
  BY <1>3 DEF GateOpen
<1>4. CASE TryNextFull(p)
  BY <1>4 DEF TryNextFull
<1>5. CASE ClaimWins(p)
  BY <1>5 DEF ClaimWins
<1>6. CASE ClaimLoses(p)
  BY <1>6 DEF ClaimLoses
<1>7. CASE WriteSlot(p)
  <2>1. ring' \in [Slots -> Int \cup {None}]
    BY <1>7, Zenon DEF WriteSlot
  <2>2. pos' \in [Producers -> Int]
    BY <1>7 DEF WriteSlot
  <2>3. pc' \in [Producers -> {"idle", "load", "gate", "cas", "write", "publish"}]
    BY <1>7, Zenon DEF WriteSlot
  <2> QED
    BY <1>7, <2>1, <2>2, <2>3 DEF WriteSlot
<1>8. CASE Publish(p)
  <2>1. available' \in [Slots -> BOOLEAN]
    BY <1>8, Zenon DEF Publish
  <2>2. pos' \in [Producers -> Int]
    BY <1>8 DEF Publish
  <2>3. pc' \in [Producers -> {"idle", "load", "gate", "cas", "write", "publish"}]
    BY <1>8 DEF Publish
  <2> QED
    BY <1>8, <2>1, <2>2, <2>3 DEF Publish
<1> QED
  BY <1>1, <1>2, <1>3, <1>4, <1>5, <1>6, <1>7, <1>8, Zenon DEF Producer

LEMMA ConsumerTypeOK ==
    ASSUME TypeOK, Consumer
    PROVE  TypeOK'
<1> USE DEF TypeOK, consumerVars, producerVars
<1>1. CASE Poll
  BY <1>1 DEF Poll
<1>2. CASE ScanFlag
  BY <1>2 DEF ScanFlag
<1>3. CASE ScanEnd
  BY <1>3 DEF ScanEnd
<1>4. CASE WaitFor
  BY <1>4 DEF WaitFor
<1>5. CASE ReadSlot
  <2>1. ring[Slot(seq)] \in Int \cup {None}
    BY SlotType
  <2> QED
    BY <1>5, <2>1 DEF ReadSlot
<1>6. CASE MarkConsumed
  <2>1. available' \in [Slots -> BOOLEAN]
    BY <1>6, Zenon DEF MarkConsumed
  <2> QED
    BY <1>6, <2>1 DEF MarkConsumed
<1>7. CASE UpdateGating
  BY <1>7 DEF UpdateGating
<1> QED
  BY <1>1, <1>2, <1>3, <1>4, <1>5, <1>6, <1>7 DEF Consumer

(* Every variable of the disruptor keeps its type, for any number of        *)
(* producers, any buffer size and any batch sizes.                          *)
THEOREM TypeCorrect == Spec => []TypeOK
<1>1. TypeOK /\ [Next]_vars => TypeOK'
  <2> SUFFICES ASSUME TypeOK, [Next]_vars PROVE TypeOK'
    OBVIOUS
  <2>1. CASE UNCHANGED vars
    BY <2>1 DEF TypeOK, vars, producerVars, consumerVars
  <2>2. CASE Next
    BY <2>2, ProducerTypeOK, ConsumerTypeOK DEF Next
  <2> QED
    BY <2>1, <2>2
<1> QED
  BY InitTypeOK, <1>1, PTL DEF Spec

-----------------------------------------------------------------------------
(* The inductive invariant. *)

LEMMA InitSequencerInv == Init => SequencerInv
<1> SUFFICES ASSUME Init PROVE SequencerInv
  OBVIOUS
<1> USE DEF Init
<1>1. Unmarked = 0
  BY DEF Unmarked
<1>2. Published = {}
  BY DEF Published
<1>3. \A p \in Producers : ~InClaim(p)
  BY Zenon DEF InClaim
<1>4. NoWrap /\ ProducerInv
  BY <1>3, BufferSizeAssumption DEF NoWrap, ProducerInv
<1>5. ConsumerInv
  BY <1>1 DEF ConsumerInv
<1>6. FlagsExact
  <2> SUFFICES ASSUME NEW s \in Unmarked .. Unmarked + BufferSize - 1
               PROVE  available[Slot(s)] <=> s \in Published
    BY Zenon DEF FlagsExact
  <2>1. Slot(s) \in Slots
    BY SlotType, <1>1, BufferSizeAssumption
  <2>2. ~available[Slot(s)]
    BY <2>1
  <2> QED
    BY <1>2, <2>2
<1>7. RingInv
  BY <1>1 DEF RingInv
<1>8. DeliveredInOrder
  BY DEF DeliveredInOrder
<1> QED
  BY <1>4, <1>5, <1>6, <1>7, <1>8 DEF SequencerInv

(* A producer's step outside a claim leaves the shared variables alone. *)
LEMMA ProducerLocalStep ==
    ASSUME TypeOK, SequencerInv, NEW p \in Producers,
           StartClaim(p) \/ LoadCursor(p) \/ GateOpen(p) \/ TryNextFull(p) \/ ClaimLoses(p)
    PROVE  SequencerInv' /\ Published' = Published
<1> USE DEF TypeOK, SequencerInv
<1>0. UNCHANGED <<cursor, gating, available, ring, pos, cpc, next_seq, bound, seq, highest, delivered>>
  BY DEF StartClaim, LoadCursor, GateOpen, TryNextFull, ClaimLoses, consumerVars
<1>1. ~InClaim(p) /\ ~InClaim(p)'
  BY DEF StartClaim, LoadCursor, GateOpen, TryNextFull, ClaimLoses, InClaim
<1>2. \A q \in Producers \ {p} : pc'[q] = pc[q] /\ current'[q] = current[q] /\ cnt'[q] = cnt[q]
  BY DEF StartClaim, LoadCursor, GateOpen, TryNextFull, ClaimLoses
<1>3. \A q \in Producers : InClaim(q)' <=> InClaim(q)
  BY <1>1, <1>2 DEF InClaim
<1>4. \A q \in Producers : InClaim(q) => First(q)' = First(q) /\ Last(q)' = Last(q) /\ pc'[q] = pc[q]
  BY <1>0, <1>1, <1>2 DEF First, Last
<1>5. \A q \in Producers, s \in Int : Owns(q, s)' <=> Owns(q, s)
  BY <1>3, <1>4 DEF Owns
<1>6. Published' = Published
  BY <1>0, <1>5 DEF Published
<1>7. Unmarked' = Unmarked
  BY <1>0 DEF Unmarked
<1>8. NoWrap' /\ DeliveredInOrder'
  BY <1>0 DEF NoWrap, DeliveredInOrder
<1>9. ConsumerInv'
  BY <1>0, <1>6, <1>7 DEF ConsumerInv
<1>10. FlagsExact'
  BY <1>0, <1>6, <1>7 DEF FlagsExact
<1>11. RingInv'
  BY <1>0, <1>3, <1>4, <1>5, <1>7, Zenon DEF RingInv, Owns, Unmarked
<1>12. ProducerInv'
  <2> SUFFICES ASSUME NEW q \in Producers
               PROVE  /\ pc'[q] \in {"gate", "cas"} => current'[q] <= cursor'
                      /\ pc'[q] = "cas" => WrapPoint(q)' <= gating'
                      /\ InClaim(q)' => /\ current'[q] < pos'[q] /\ pos'[q] <= Last(q)'
                                        /\ Unmarked' <= First(q)' /\ Last(q)' <= cursor'
                      /\ \A r \in Producers \ {q} :
                           InClaim(q)' /\ InClaim(r)'
                               => Last(q)' < First(r)' \/ Last(r)' < First(q)'
    BY DEF ProducerInv
  <2>1. pc'[q] \in {"gate", "cas"} => current'[q] <= cursor'
    BY <1>0, <1>2 DEF StartClaim, LoadCursor, GateOpen, TryNextFull, ClaimLoses, ProducerInv
  <2>2. pc'[q] = "cas" => WrapPoint(q)' <= gating'
    BY <1>0, <1>2 DEF StartClaim, LoadCursor, GateOpen, TryNextFull, ClaimLoses, ProducerInv, WrapPoint
  <2>3. InClaim(q)' => /\ current'[q] < pos'[q] /\ pos'[q] <= Last(q)'
                       /\ Unmarked' <= First(q)' /\ Last(q)' <= cursor'
    BY <1>0, <1>1, <1>2, <1>3, <1>4, <1>7, Zenon DEF ProducerInv
  <2>4. \A r \in Producers \ {q} :
            InClaim(q)' /\ InClaim(r)' => Last(q)' < First(r)' \/ Last(r)' < First(q)'
    BY <1>3, <1>4 DEF ProducerInv
  <2> QED
    BY <2>1, <2>2, <2>3, <2>4
<1> QED
  BY <1>6, <1>8, <1>9, <1>10, <1>11, <1>12
(* The consumer stands between the gating sequence and the cursor. *)
LEMMA UnmarkedBounds ==
    ASSUME TypeOK, ConsumerInv
    PROVE  Unmarked \in Int /\ 0 <= Unmarked /\ gating < Unmarked /\ Unmarked <= cursor + 1
<1>1. CASE cpc \in {"read", "mark"}
  <2>1. highest \in Published
    BY <1>1 DEF ConsumerInv, TypeOK
  <2> QED
    BY <1>1, <2>1 DEF ConsumerInv, TypeOK, Unmarked, Published
<1>2. CASE cpc = "gate"
  BY <1>2 DEF ConsumerInv, TypeOK, Unmarked
<1>3. CASE cpc \in {"poll", "scan", "wait"}
  BY <1>3 DEF ConsumerInv, TypeOK, Unmarked
<1> QED
  BY <1>1, <1>2, <1>3 DEF TypeOK

LEMMA ClaimWinsStep ==
    ASSUME TypeOK, SequencerInv, NEW p \in Producers, ClaimWins(p)
    PROVE  SequencerInv' /\ Published' = Published
<1> USE DEF TypeOK, SequencerInv
<1>0. /\ UNCHANGED <<gating, available, ring, cnt, current, cpc, next_seq, bound, seq, highest, delivered>>
      /\ pc[p] = "cas" /\ cursor = current[p] /\ cursor' = current[p] + cnt[p]
      /\ pos' = [pos EXCEPT ![p] = current[p] + 1] /\ pc' = [pc EXCEPT ![p] = "write"]
  BY DEF ClaimWins, consumerVars
<1>1. \A q \in Producers \ {p} : pc'[q] = pc[q] /\ pos'[q] = pos[q]
  BY <1>0
<1>2. pc'[p] = "write" /\ pos'[p] = current[p] + 1 /\ current[p] + cnt[p] \in Int /\ cnt[p] >= 1
  BY <1>0
<1>3. ~InClaim(p) /\ InClaim(p)' /\ First(p)' = cursor + 1 /\ Last(p)' = cursor'
  BY <1>0, <1>2 DEF InClaim, First, Last
<1>4. \A q \in Producers \ {p} :
          (InClaim(q)' <=> InClaim(q)) /\ First(q)' = First(q) /\ Last(q)' = Last(q)
  BY <1>0, <1>1 DEF InClaim, First, Last
<1>5. \A q \in Producers \ {p}, s \in Int : Owns(q, s)' <=> Owns(q, s)
  BY <1>4 DEF Owns
<1>6. \A s \in Int : ~Owns(p, s) /\ (Owns(p, s)' <=> cursor < s /\ s <= cursor')
  BY <1>3, <1>2, <1>0 DEF Owns
<1>7. \A q \in Producers, s \in Int : Owns(q, s) => s <= cursor
  BY DEF Owns, ProducerInv, Last
<1>8. Published' = Published
  <2>1. ASSUME NEW s \in Published' PROVE s \in Published
    <3>1. s \in 0 .. cursor' /\ ~Owns(p, s)'
      BY <2>1 DEF Published
    <3>2. s \in 0 .. cursor
      BY <3>1, <1>6, <1>2, <1>0
    <3>3. \A q \in Producers : ~Owns(q, s)'
      BY <2>1 DEF Published
    <3>4. s \in Int
      BY <3>2
    <3>5. \A q \in Producers : ~Owns(q, s)
      BY <3>3, <3>4, <1>5, <1>6, Zenon
    <3> QED
      BY <3>2, <3>5 DEF Published
  <2>2. ASSUME NEW s \in Published PROVE s \in Published'
    <3>1. s \in 0 .. cursor /\ s \in Int /\ s \in 0 .. cursor'
      BY <2>2, <1>0, <1>2 DEF Published
    <3>2. ~Owns(p, s)'
      BY <3>1, <1>6
    <3>3. \A q \in Producers \ {p} : ~Owns(q, s)'
      BY <2>2, <3>1, <1>5 DEF Published
    <3> QED
      BY <3>1, <3>2, <3>3 DEF Published
  <2> QED
    BY <2>1, <2>2, Zenon
<1>9. Unmarked' = Unmarked
  BY <1>0 DEF Unmarked
<1>10. NoWrap' /\ DeliveredInOrder'
  BY <1>0, BufferSizeAssumption DEF NoWrap, DeliveredInOrder, ProducerInv, WrapPoint
<1>11. ConsumerInv'
  BY <1>0, <1>2, <1>8, <1>9 DEF ConsumerInv
<1>12. FlagsExact'
  BY <1>0, <1>8, <1>9 DEF FlagsExact
<1>13. RingInv'
  <2> SUFFICES ASSUME NEW s \in Unmarked .. cursor',
                      \A q \in Producers : Owns(q, s)' => pc'[q] = "publish" \/ s < pos'[q]
               PROVE  ring[Slot(s)] = s
    BY <1>0, <1>9 DEF RingInv, Slot
  <2>1. s \in Int /\ s <= cursor
    BY <1>2, <1>6, <1>0, UnmarkedBounds
  <2>2. \A q \in Producers : Owns(q, s) => pc[q] = "publish" \/ s < pos[q]
    BY <2>1, <1>1, <1>5, <1>6, Zenon
  <2> QED
    BY <2>1, <2>2, UnmarkedBounds DEF RingInv
<1>14. ProducerInv'
  <2> SUFFICES ASSUME NEW q \in Producers
               PROVE  /\ pc'[q] \in {"gate", "cas"} => current'[q] <= cursor'
                      /\ pc'[q] = "cas" => WrapPoint(q)' <= gating'
                      /\ InClaim(q)' => /\ current'[q] < pos'[q] /\ pos'[q] <= Last(q)'
                                        /\ Unmarked' <= First(q)' /\ Last(q)' <= cursor'
                      /\ \A r \in Producers \ {q} :
                           InClaim(q)' /\ InClaim(r)'
                               => Last(q)' < First(r)' \/ Last(r)' < First(q)'
    BY DEF ProducerInv
  <2>1. pc'[q] \in {"gate", "cas"} => current'[q] <= cursor'
    BY <1>0, <1>1, <1>2 DEF ProducerInv
  <2>2. pc'[q] = "cas" => WrapPoint(q)' <= gating'
    BY <1>0, <1>1, <1>2 DEF ProducerInv, WrapPoint
  <2>3. InClaim(q)' => /\ current'[q] < pos'[q] /\ pos'[q] <= Last(q)'
                       /\ Unmarked' <= First(q)' /\ Last(q)' <= cursor'
    <3>1. CASE q = p
      BY <3>1, <1>0, <1>2, <1>3, <1>9, UnmarkedBounds, SMTT(30)
    <3>2. CASE q # p
      BY <3>2, <1>0, <1>1, <1>2, <1>4, <1>9, UnmarkedBounds DEF ProducerInv, Last
    <3> QED
      BY <3>1, <3>2
  <2>4. ASSUME NEW r \in Producers \ {q}, InClaim(q)', InClaim(r)'
        PROVE  Last(q)' < First(r)' \/ Last(r)' < First(q)'
    <3>1. ASSUME NEW x \in Producers \ {p}, InClaim(x)' PROVE Last(x)' < First(p)'
      <4>1. Last(x)' = Last(x) /\ Last(x) <= cursor
        BY <3>1, <1>4, Zenon DEF ProducerInv
      <4>2. Last(x) \in Int /\ cursor \in Int
        BY DEF Last
      <4>3. Last(x) < cursor + 1
        BY <4>1, <4>2
      <4> QED
        BY <1>3, <4>1, <4>3, Zenon
    <3> QED
      BY <2>4, <3>1, <1>4, Zenon DEF ProducerInv
  <2> QED
    BY <2>1, <2>2, <2>3, <2>4
<1> QED
  BY <1>8, <1>10, <1>11, <1>12, <1>13, <1>14

(* The window of the ring: one lap from the oldest unmarked sequence on. *)
LEMMA Window ==
    ASSUME TypeOK, ConsumerInv, NoWrap
    PROVE  /\ cursor <= Unmarked + BufferSize - 1
           /\ \A s, t \in Unmarked .. Unmarked + BufferSize - 1 : s # t => Slot(s) # Slot(t)
<1>1. cursor <= Unmarked + BufferSize - 1
  BY UnmarkedBounds, BufferSizeAssumption DEF NoWrap, TypeOK
<1>2. ASSUME NEW s \in Unmarked .. Unmarked + BufferSize - 1,
             NEW t \in Unmarked .. Unmarked + BufferSize - 1,
             Slot(s) = Slot(t)
      PROVE  s = t
  <2>1. s \in Int /\ t \in Int /\ s - t < BufferSize /\ t - s < BufferSize
    BY UnmarkedBounds, BufferSizeAssumption
  <2> QED
    BY <1>2, <2>1, SlotInjective
<1> QED
  BY <1>1, <1>2

LEMMA WriteSlotStep ==
    ASSUME TypeOK, SequencerInv, NEW p \in Producers, WriteSlot(p)
    PROVE  SequencerInv' /\ Published' = Published
<1> USE DEF TypeOK, SequencerInv
<1>0. /\ UNCHANGED <<cursor, gating, available, cnt, current, cpc, next_seq, bound, seq, highest, delivered>>
      /\ pc[p] = "write"
      /\ ring' = [ring EXCEPT ![Slot(pos[p])] = pos[p]]
  BY DEF WriteSlot, consumerVars
<1>1. \A q \in Producers \ {p} : pc'[q] = pc[q] /\ pos'[q] = pos[q]
  BY DEF WriteSlot
<1>2. \/ pos[p] < Last(p) /\ pc'[p] = "write" /\ pos'[p] = pos[p] + 1
      \/ pos[p] >= Last(p) /\ pc'[p] = "publish" /\ pos'[p] = current[p] + 1
  BY <1>0 DEF WriteSlot, Last
<1>3. InClaim(p) /\ current[p] < pos[p] /\ pos[p] <= Last(p) /\ Unmarked <= current[p] + 1 /\ Last(p) <= cursor
  BY <1>0 DEF ProducerInv, InClaim, First
<1>4. \A q \in Producers :
          (InClaim(q)' <=> InClaim(q)) /\ First(q)' = First(q) /\ Last(q)' = Last(q)
  <2>1. InClaim(p)' /\ First(p)' = First(p) /\ Last(p)' = Last(p)
    BY <1>0, <1>2 DEF InClaim, First, Last
  <2>2. \A q \in Producers \ {p} :
          (InClaim(q)' <=> InClaim(q)) /\ First(q)' = First(q) /\ Last(q)' = Last(q)
    BY <1>0, <1>1 DEF InClaim, First, Last
  <2> QED
    BY <2>1, <2>2, <1>3
<1>5. \A q \in Producers, s \in Int : Owns(q, s)' <=> Owns(q, s)
  BY <1>4 DEF Owns
<1>6. Published' = Published
  BY <1>0, <1>5 DEF Published
<1>7. Unmarked' = Unmarked
  BY <1>0 DEF Unmarked
<1>8. NoWrap' /\ DeliveredInOrder'
  BY <1>0 DEF NoWrap, DeliveredInOrder
<1>9. ConsumerInv'
  BY <1>0, <1>6, <1>7 DEF ConsumerInv
<1>10. FlagsExact'
  BY <1>0, <1>6, <1>7 DEF FlagsExact
<1>11. RingInv'
  <2> SUFFICES ASSUME NEW s \in Unmarked .. cursor,
                      \A q \in Producers : Owns(q, s)' => pc'[q] = "publish" \/ s < pos'[q]
               PROVE  ring'[Slot(s)] = s
    BY <1>0, <1>7 DEF RingInv, Slot
  <2>1. s \in Int /\ pos[p] \in Int /\ Slot(s) \in Slots /\ Slot(pos[p]) \in Slots
    BY SlotType, UnmarkedBounds
  <2>2. CASE s = pos[p]
    BY <2>1, <2>2, <1>0
  <2>3. CASE s # pos[p]
    <3>1. Slot(s) # Slot(pos[p])
      <4>1. cursor <= Unmarked + BufferSize - 1 /\ Unmarked \in Int
        BY Window, UnmarkedBounds
      <4>2. Unmarked <= pos[p] /\ pos[p] <= cursor
        BY <1>3, <4>1 DEF Last
      <4>3. /\ s \in Unmarked .. Unmarked + BufferSize - 1
            /\ pos[p] \in Unmarked .. Unmarked + BufferSize - 1
        BY <2>1, <4>1, <4>2, BufferSizeAssumption
      <4> QED
        BY <4>3, <2>3, Window
    <3>2. ring'[Slot(s)] = ring[Slot(s)]
      BY <3>1, <2>1, <1>0
    <3>3. ASSUME Owns(p, s) PROVE s < pos[p]
      <4>1. s < pos'[p] \/ pc'[p] = "publish"
        BY <3>3, <2>1, <1>5
      <4> QED
        BY <4>1, <3>3, <1>2, <2>1, <2>3 DEF Owns, Last
    <3>4. \A q \in Producers \ {p} : Owns(q, s) => pc[q] = "publish" \/ s < pos[q]
      BY <1>1, <1>5, <2>1, Zenon
    <3>5. ring[Slot(s)] = s
      BY <3>3, <3>4 DEF RingInv
    <3> QED
      BY <3>2, <3>5
  <2> QED
    BY <2>2, <2>3
<1>12. ProducerInv'
  <2> SUFFICES ASSUME NEW q \in Producers
               PROVE  /\ pc'[q] \in {"gate", "cas"} => current'[q] <= cursor'
                      /\ pc'[q] = "cas" => WrapPoint(q)' <= gating'
                      /\ InClaim(q)' => /\ current'[q] < pos'[q] /\ pos'[q] <= Last(q)'
                                        /\ Unmarked' <= First(q)' /\ Last(q)' <= cursor'
                      /\ \A r \in Producers \ {q} :
                           InClaim(q)' /\ InClaim(r)'
                               => Last(q)' < First(r)' \/ Last(r)' < First(q)'
    BY DEF ProducerInv
  <2>1. pc'[q] \in {"gate", "cas"} => current'[q] <= cursor'
    BY <1>0, <1>1, <1>2 DEF ProducerInv
  <2>2. pc'[q] = "cas" => WrapPoint(q)' <= gating'
    BY <1>0, <1>1, <1>2 DEF ProducerInv, WrapPoint
  <2>3. InClaim(q)' => /\ current'[q] < pos'[q] /\ pos'[q] <= Last(q)'
                       /\ Unmarked' <= First(q)' /\ Last(q)' <= cursor'
    <3>1. CASE q = p
      BY <3>1, <1>0, <1>2, <1>3, <1>4, <1>7, SMTT(30) DEF ProducerInv, Last
    <3>2. CASE q # p
      BY <3>2, <1>0, <1>1, <1>4, <1>7, Zenon DEF ProducerInv
    <3> QED
      BY <3>1, <3>2
  <2>4. ASSUME NEW r \in Producers \ {q}, InClaim(q)', InClaim(r)'
        PROVE  Last(q)' < First(r)' \/ Last(r)' < First(q)'
    BY <2>4, <1>4 DEF ProducerInv
  <2> QED
    BY <2>1, <2>2, <2>3, <2>4
<1> QED
  BY <1>6, <1>8, <1>9, <1>10, <1>11, <1>12

LEMMA PublishStep ==
    ASSUME TypeOK, SequencerInv, NEW p \in Producers, Publish(p)
    PROVE  SequencerInv' /\ Published' = Published \cup {pos[p]} /\ pos[p] \notin Published
<1> USE DEF TypeOK, SequencerInv
<1>0. /\ UNCHANGED <<cursor, gating, ring, cnt, current, cpc, next_seq, bound, seq, highest, delivered>>
      /\ pc[p] = "publish"
      /\ available' = [available EXCEPT ![Slot(pos[p])] = TRUE]
      /\ pos' = [pos EXCEPT ![p] = pos[p] + 1]
  BY DEF Publish, consumerVars
<1>1. \A q \in Producers \ {p} : pc'[q] = pc[q] /\ pos'[q] = pos[q]
  BY DEF Publish
<1>2. /\ pos'[p] = pos[p] + 1
      /\ \/ pos[p] < Last(p) /\ pc'[p] = "publish"
         \/ pos[p] >= Last(p) /\ pc'[p] = "idle"
  BY <1>0 DEF Publish, Last
<1>3. /\ InClaim(p) /\ current[p] < pos[p] /\ pos[p] <= Last(p) /\ Unmarked <= pos[p] /\ Last(p) <= cursor
      /\ First(p) = pos[p] /\ pos[p] \in Int /\ Last(p) \in Int
  BY <1>0 DEF ProducerInv, InClaim, First, Last
<1>4. \A q \in Producers \ {p} :
          (InClaim(q)' <=> InClaim(q)) /\ First(q)' = First(q) /\ Last(q)' = Last(q)
  BY <1>0, <1>1 DEF InClaim, First, Last
<1>5. \A q \in Producers \ {p}, s \in Int : Owns(q, s)' <=> Owns(q, s)
  BY <1>4 DEF Owns
<1>6. Last(p)' = Last(p) /\ (InClaim(p)' => First(p)' = pos[p] + 1 /\ pos[p] < Last(p))
  BY <1>0, <1>2 DEF First, Last, InClaim
<1>7. \A s \in Int : Owns(p, s)' <=> Owns(p, s) /\ s # pos[p]
  <2> SUFFICES ASSUME NEW s \in Int PROVE Owns(p, s)' <=> Owns(p, s) /\ s # pos[p]
    OBVIOUS
  <2>1. CASE pos[p] < Last(p)
    BY <2>1, <1>2, <1>3, <1>6 DEF Owns, InClaim
  <2>2. CASE pos[p] >= Last(p)
    BY <2>2, <1>2, <1>3, <1>6 DEF Owns, InClaim
  <2> QED
    BY <2>1, <2>2, <1>3
<1>8. Owns(p, pos[p]) /\ \A q \in Producers \ {p} : ~Owns(q, pos[p])
  <2>1. Owns(p, pos[p])
    BY <1>3 DEF Owns
  <2>2. ASSUME NEW q \in Producers \ {p}, Owns(q, pos[p]) PROVE FALSE
    <3>1. InClaim(q) /\ First(q) <= pos[p] /\ pos[p] <= Last(q)
      BY <2>2 DEF Owns
    <3>2. Last(p) < First(q) \/ Last(q) < First(p)
      BY <3>1, <1>3 DEF ProducerInv
    <3>3. First(q) \in Int /\ Last(q) \in Int
      BY DEF First, Last
    <3> QED
      BY <3>1, <3>2, <3>3, <1>3
  <2> QED
    BY <2>1, <2>2
<1>9. Published' = Published \cup {pos[p]} /\ pos[p] \notin Published
  <2>1. pos[p] \in 0 .. cursor
    BY <1>3, UnmarkedBounds
  <2>2. ASSUME NEW s \in 0 .. cursor
        PROVE  (\A q \in Producers : ~Owns(q, s)') <=> s = pos[p] \/ \A q \in Producers : ~Owns(q, s)
    <3>1. s \in Int
      OBVIOUS
    <3>2. CASE s = pos[p]
      BY <3>1, <3>2, <1>5, <1>7, <1>8, Zenon
    <3>3. CASE s # pos[p]
      BY <3>1, <3>3, <1>5, <1>7, Zenon
    <3> QED
      BY <3>2, <3>3
  <2> QED
    BY <2>1, <2>2, <1>0, <1>8, Zenon DEF Published
<1>10. Unmarked' = Unmarked
  BY <1>0 DEF Unmarked
<1>11. NoWrap' /\ DeliveredInOrder'
  BY <1>0 DEF NoWrap, DeliveredInOrder
<1>12. ConsumerInv'
  BY <1>0, <1>9, <1>10 DEF ConsumerInv
<1>13. FlagsExact'
  <2> SUFFICES ASSUME NEW s \in Unmarked .. Unmarked + BufferSize - 1
               PROVE  available'[Slot(s)] <=> s \in Published'
    BY <1>10 DEF FlagsExact, Slot
  <2>1. s \in Int /\ Slot(s) \in Slots /\ Slot(pos[p]) \in Slots
    BY SlotType, UnmarkedBounds, BufferSizeAssumption
  <2>2. CASE s = pos[p]
    <3>1. available'[Slot(s)] = TRUE
      BY <2>1, <2>2, <1>0
    <3> QED
      BY <3>1, <2>2, <1>9
  <2>3. CASE s # pos[p]
    <3>0. cursor <= Unmarked + BufferSize - 1 /\ Unmarked \in Int
      BY Window, UnmarkedBounds
    <3>1. pos[p] \in Unmarked .. Unmarked + BufferSize - 1
      BY <1>3, <3>0, BufferSizeAssumption
    <3>2. Slot(s) # Slot(pos[p])
      BY <3>1, <2>3, Window
    <3>3. available'[Slot(s)] = available[Slot(s)]
      BY <3>2, <2>1, <1>0
    <3> QED
      BY <3>3, <2>3, <1>9 DEF FlagsExact
  <2> QED
    BY <2>2, <2>3
<1>14. RingInv'
  <2> SUFFICES ASSUME NEW s \in Unmarked .. cursor,
                      \A q \in Producers : Owns(q, s)' => pc'[q] = "publish" \/ s < pos'[q]
               PROVE  ring[Slot(s)] = s
    BY <1>0, <1>10 DEF RingInv, Slot
  <2>1. s \in Int
    BY UnmarkedBounds
  <2>2. \A q \in Producers : Owns(q, s) => pc[q] = "publish" \/ s < pos[q]
    BY <2>1, <1>0, <1>1, <1>5, Zenon
  <2> QED
    BY <2>2, Zenon DEF RingInv
<1>15. ProducerInv'
  <2> SUFFICES ASSUME NEW q \in Producers
               PROVE  /\ pc'[q] \in {"gate", "cas"} => current'[q] <= cursor'
                      /\ pc'[q] = "cas" => WrapPoint(q)' <= gating'
                      /\ InClaim(q)' => /\ current'[q] < pos'[q] /\ pos'[q] <= Last(q)'
                                        /\ Unmarked' <= First(q)' /\ Last(q)' <= cursor'
                      /\ \A r \in Producers \ {q} :
                           InClaim(q)' /\ InClaim(r)'
                               => Last(q)' < First(r)' \/ Last(r)' < First(q)'
    BY DEF ProducerInv
  <2>1. pc'[q] \in {"gate", "cas"} => current'[q] <= cursor'
    BY <1>0, <1>1, <1>2 DEF ProducerInv
  <2>2. pc'[q] = "cas" => WrapPoint(q)' <= gating'
    BY <1>0, <1>1, <1>2 DEF ProducerInv, WrapPoint
  <2>3. InClaim(q)' => /\ current'[q] < pos'[q] /\ pos'[q] <= Last(q)'
                       /\ Unmarked' <= First(q)' /\ Last(q)' <= cursor'
    <3>1. CASE q = p
      BY <3>1, <1>0, <1>2, <1>3, <1>6, <1>10, UnmarkedBounds
    <3>2. CASE q # p
      BY <3>2, <1>0, <1>1, <1>4, <1>10 DEF ProducerInv
    <3> QED
      BY <3>1, <3>2
  <2>4. ASSUME NEW r \in Producers \ {q}, InClaim(q)', InClaim(r)'
        PROVE  Last(q)' < First(r)' \/ Last(r)' < First(q)'
    <3>1. \A x \in Producers \ {p} : InClaim(x)' /\ InClaim(p)' =>
              Last(p)' < First(x)' \/ Last(x)' < First(p)'
      <4>1. \A x \in Producers : Last(x) \in Int
        BY DEF Last
      <4>2. \A x \in Producers \ {p} : InClaim(x) => Last(p) < First(x) \/ Last(x) < First(p)
        BY <1>3 DEF ProducerInv
      <4>3. ASSUME NEW x \in Producers \ {p}, InClaim(x)', InClaim(p)'
            PROVE  Last(p)' < First(x)' \/ Last(x)' < First(p)'
        <5>1. Last(p) < First(x) \/ Last(x) < First(p)
          BY <4>2, <4>3, <1>4
        <5>2. First(p)' = First(p) + 1 /\ First(p) \in Int /\ Last(p)' = Last(p)
          BY <4>3, <1>3, <1>6
        <5>3. First(x)' = First(x) /\ Last(x)' = Last(x) /\ Last(x) \in Int
          BY <4>1, <1>4
        <5> QED
          BY <5>1, <5>2, <5>3
      <4> QED
        BY <4>3
    <3> QED
      BY <2>4, <3>1, <1>4, Zenon DEF ProducerInv
  <2> QED
    BY <2>1, <2>2, <2>3, <2>4
<1> QED
  BY <1>9, <1>11, <1>12, <1>13, <1>14, <1>15

-----------------------------------------------------------------------------
(* The consumer's steps leave the producers' claims alone. *)

LEMMA ConsumerFrame ==
    ASSUME TypeOK, UNCHANGED <<cursor, producerVars>>
    PROVE  /\ \A q \in Producers : /\ (InClaim(q)' <=> InClaim(q))
                                  /\ First(q)' = First(q) /\ Last(q)' = Last(q)
           /\ \A q \in Producers, s \in Int : Owns(q, s)' <=> Owns(q, s)
           /\ Published' = Published
<1>1. UNCHANGED <<pc, cnt, current, pos, cursor>>
  BY DEF producerVars
<1>2. \A q \in Producers : /\ (InClaim(q)' <=> InClaim(q))
                          /\ First(q)' = First(q) /\ Last(q)' = Last(q)
  BY <1>1 DEF InClaim, First, Last
<1>3. \A q \in Producers, s \in Int : Owns(q, s)' <=> Owns(q, s)
  BY <1>2 DEF Owns
<1>4. Published' = Published
  BY <1>1, <1>3 DEF Published
<1> QED
  BY <1>2, <1>3, <1>4

(* What is left to show of ProducerInv when the consumer moves. *)
LEMMA ConsumerKeepsProducerInv ==
    ASSUME TypeOK, ProducerInv, UNCHANGED <<cursor, producerVars>>,
           gating' \in Int, gating <= gating',
           \A q \in Producers : InClaim(q) => Unmarked' <= First(q)
    PROVE  ProducerInv'
<1>1. UNCHANGED <<pc, cnt, current, pos, cursor>>
  BY DEF producerVars
<1>2. \A q \in Producers : /\ (InClaim(q)' <=> InClaim(q))
                          /\ First(q)' = First(q) /\ Last(q)' = Last(q)
  BY ConsumerFrame
<1>3. ASSUME NEW q \in Producers, pc'[q] = "cas" PROVE WrapPoint(q)' <= gating'
  <2>1. WrapPoint(q)' = WrapPoint(q) /\ WrapPoint(q) \in Int
    BY <1>1, BufferSizeAssumption DEF WrapPoint, TypeOK
  <2>2. WrapPoint(q) <= gating
    BY <1>1, <1>3 DEF ProducerInv
  <2> QED
    BY <2>1, <2>2 DEF TypeOK
<1> QED
  BY <1>1, <1>2, <1>3 DEF ProducerInv

LEMMA LookStep ==
    ASSUME TypeOK, SequencerInv, Poll \/ ScanFlag \/ ScanEnd \/ WaitFor
    PROVE  SequencerInv'
<1> USE DEF TypeOK, SequencerInv
<1>0. UNCHANGED <<cursor, gating, available, ring, producerVars, next_seq, delivered>>
  BY DEF Poll, ScanFlag, ScanEnd, WaitFor
<1>1. UNCHANGED <<pc, pos>>
  BY <1>0 DEF producerVars
<1>2. /\ \A q \in Producers : /\ (InClaim(q)' <=> InClaim(q))
                             /\ First(q)' = First(q) /\ Last(q)' = Last(q)
      /\ \A q \in Producers, s \in Int : Owns(q, s)' <=> Owns(q, s)
      /\ Published' = Published
  BY <1>0, ConsumerFrame
<1>3. Unmarked' = next_seq /\ Unmarked = next_seq
  BY DEF Poll, ScanFlag, ScanEnd, WaitFor, Unmarked
<1>4. NoWrap' /\ DeliveredInOrder'
  BY <1>0 DEF NoWrap, DeliveredInOrder
<1>5. FlagsExact'
  BY <1>0, <1>2, <1>3 DEF FlagsExact
<1>6. RingInv'
  BY <1>0, <1>1, <1>2, <1>3 DEF RingInv
<1>7. ProducerInv'
  <2>1. \A q \in Producers : InClaim(q) => Unmarked' <= First(q)
    BY <1>3 DEF ProducerInv
  <2> QED
    BY <2>1, <1>0, ConsumerKeepsProducerInv
<1>8. ConsumerInv'
  <2>1. CASE Poll
    BY <2>1, <1>0, <1>2, <1>3 DEF Poll, ConsumerInv
  <2>2. CASE ScanFlag
    <3>1. seq \in Unmarked .. Unmarked + BufferSize - 1
      <4>1. cursor <= Unmarked + BufferSize - 1 /\ Unmarked \in Int
        BY Window, UnmarkedBounds
      <4> QED
        BY <4>1, <2>2, <1>3, BufferSizeAssumption DEF ScanFlag, ConsumerInv
    <3>2. seq \in Published
      BY <3>1, <2>2 DEF ScanFlag, FlagsExact
    <3>3. next_seq .. seq \subseteq Published
      BY <3>2, <2>2 DEF ScanFlag, ConsumerInv
    <3> QED
      BY <3>3, <2>2, <1>0, <1>2, <1>3 DEF ScanFlag, ConsumerInv
  <2>3. CASE ScanEnd
    <3>1. /\ cpc = "scan" /\ next_seq <= seq /\ seq <= bound + 1 /\ bound <= cursor
          /\ next_seq .. seq - 1 \subseteq Published
      BY <2>3 DEF ScanEnd, ConsumerInv
    <3>2. /\ highest' = seq - 1 /\ seq' = next_seq
          /\ cpc' = IF seq - 1 < next_seq THEN "wait" ELSE "read"
      BY <2>3, <3>1 DEF ScanEnd
    <3> QED
      BY <3>1, <3>2, <1>0, <1>2, <1>3 DEF ConsumerInv
  <2>4. CASE WaitFor
    BY <2>4, <1>0, <1>2, <1>3 DEF WaitFor, ConsumerInv
  <2> QED
    BY <2>1, <2>2, <2>3, <2>4
<1> QED
  BY <1>4, <1>5, <1>6, <1>7, <1>8

LEMMA ReadSlotStep ==
    ASSUME TypeOK, SequencerInv, ReadSlot
    PROVE  SequencerInv' /\ ring[Slot(seq)] = seq /\ Len(delivered) = seq /\ seq \in Published
<1> USE DEF TypeOK, SequencerInv
<1>0. /\ UNCHANGED <<cursor, gating, available, ring, producerVars, next_seq, bound, seq, highest>>
      /\ cpc = "read" /\ cpc' = "mark"
      /\ delivered' = Append(delivered, ring[Slot(seq)])
  BY DEF ReadSlot
<1>1. UNCHANGED <<pc, pos>>
  BY <1>0 DEF producerVars
<1>2. /\ \A q \in Producers : /\ (InClaim(q)' <=> InClaim(q))
                             /\ First(q)' = First(q) /\ Last(q)' = Last(q)
      /\ \A q \in Producers, s \in Int : Owns(q, s)' <=> Owns(q, s)
      /\ Published' = Published
  BY <1>0, ConsumerFrame
<1>3. Unmarked' = seq /\ Unmarked = seq
  BY <1>0 DEF Unmarked
<1>4. seq \in Published /\ next_seq <= seq /\ seq <= highest /\ Len(delivered) = seq
  BY <1>0, <1>3 DEF ConsumerInv
<1>5. ring[Slot(seq)] = seq
  <2>1. seq \in Unmarked .. cursor /\ \A p \in Producers : ~Owns(p, seq)
    BY <1>3, <1>4 DEF Published
  <2> QED
    BY <2>1 DEF RingInv
<1>6. NoWrap' /\ FlagsExact'
  BY <1>0, <1>2, <1>3 DEF NoWrap, FlagsExact
<1>7. DeliveredInOrder' /\ Len(delivered') = seq + 1
  BY <1>0, <1>4, <1>5 DEF DeliveredInOrder
<1>8. RingInv'
  BY <1>0, <1>1, <1>2, <1>3 DEF RingInv
<1>9. ProducerInv'
  <2>1. \A q \in Producers : InClaim(q) => Unmarked' <= First(q)
    BY <1>3 DEF ProducerInv
  <2> QED
    BY <2>1, <1>0, ConsumerKeepsProducerInv
<1>10. ConsumerInv'
  BY <1>0, <1>2, <1>3, <1>7 DEF ConsumerInv
<1> QED
  BY <1>4, <1>5, <1>6, <1>7, <1>8, <1>9, <1>10

LEMMA UpdateGatingStep ==
    ASSUME TypeOK, SequencerInv, UpdateGating
    PROVE  SequencerInv' /\ gating < gating' /\ gating' = Len(delivered) - 1
<1> USE DEF TypeOK, SequencerInv
<1>0. /\ UNCHANGED <<cursor, available, ring, producerVars, bound, seq, highest, delivered>>
      /\ cpc = "gate" /\ cpc' = "poll" /\ gating' = seq - 1 /\ next_seq' = seq
  BY DEF UpdateGating
<1>1. UNCHANGED <<pc, pos>>
  BY <1>0 DEF producerVars
<1>2. /\ \A q \in Producers : /\ (InClaim(q)' <=> InClaim(q))
                             /\ First(q)' = First(q) /\ Last(q)' = Last(q)
      /\ \A q \in Producers, s \in Int : Owns(q, s)' <=> Owns(q, s)
      /\ Published' = Published
  BY <1>0, ConsumerFrame
<1>3. Unmarked' = seq /\ Unmarked = seq
  BY <1>0 DEF Unmarked
<1>4. gating < gating' /\ gating' = Len(delivered) - 1
  BY <1>0, <1>3 DEF ConsumerInv
<1>5. NoWrap' /\ DeliveredInOrder'
  BY <1>0, <1>4, BufferSizeAssumption DEF NoWrap, DeliveredInOrder
<1>6. FlagsExact'
  BY <1>0, <1>2, <1>3 DEF FlagsExact
<1>7. RingInv'
  BY <1>0, <1>1, <1>2, <1>3 DEF RingInv
<1>8. ProducerInv'
  <2>1. \A q \in Producers : InClaim(q) => Unmarked' <= First(q)
    BY <1>3 DEF ProducerInv
  <2> QED
    BY <2>1, <1>0, <1>4, ConsumerKeepsProducerInv
<1>9. ConsumerInv'
  BY <1>0, <1>2, <1>3 DEF ConsumerInv
<1> QED
  BY <1>4, <1>5, <1>6, <1>7, <1>8, <1>9

(* Sequences one lap apart share their slot. *)
LEMMA SlotPeriodic == \A s \in Int : Slot(s + BufferSize) = Slot(s)
<1> SUFFICES ASSUME NEW s \in Int PROVE Slot(s + BufferSize) = Slot(s)
  OBVIOUS
<1> DEFINE u == s + BufferSize
           a == s \div BufferSize
           b == u \div BufferSize
           m == s % BufferSize
           n == u % BufferSize
<1>1. u \in Int /\ a \in Int /\ b \in Int
  BY BufferSizeAssumption
<1>2. m \in 0 .. BufferSize - 1 /\ n \in 0 .. BufferSize - 1
  BY BufferSizeAssumption
<1>3. s = BufferSize * a + m
  BY BufferSizeAssumption
<1>4. u = BufferSize * b + n
  <2> HIDE DEF u
  <2> QED
    BY <1>1, BufferSizeAssumption
<1>5. u = s + BufferSize
  OBVIOUS
<1> HIDE DEF u, a, b, m, n
<1>6. n - m = BufferSize * (a + 1 - b)
  <2>1. BufferSize * (a + 1 - b) = BufferSize * a + BufferSize - BufferSize * b
    BY <1>1, BufferSizeAssumption
  <2>2. BufferSize * a \in Int /\ BufferSize * b \in Int
    BY <1>1, BufferSizeAssumption
  <2> QED
    BY <2>1, <2>2, <1>1, <1>2, <1>3, <1>4, <1>5, BufferSizeAssumption
<1>7. a + 1 - b = 0
  <2>1. ASSUME a + 1 - b >= 1 PROVE FALSE
    <3>1. BufferSize * (a + 1 - b) >= BufferSize
      BY <1>1, <2>1, BufferSizeAssumption
    <3> QED
      BY <3>1, <1>2, <1>6, BufferSizeAssumption
  <2>2. ASSUME a + 1 - b <= -1 PROVE FALSE
    <3>1. BufferSize * (a + 1 - b) <= -BufferSize
      BY <1>1, <2>2, BufferSizeAssumption
    <3> QED
      BY <3>1, <1>2, <1>6, BufferSizeAssumption
  <2> QED
    BY <1>1, <2>1, <2>2
<1>8. n = m
  BY <1>2, <1>6, <1>7, BufferSizeAssumption
<1> QED
  BY <1>8 DEF Slot, u, m, n

LEMMA MarkConsumedStep ==
    ASSUME TypeOK, SequencerInv, MarkConsumed
    PROVE  SequencerInv'
<1> USE DEF TypeOK, SequencerInv
<1>0. /\ UNCHANGED <<cursor, gating, ring, producerVars, next_seq, bound, highest, delivered>>
      /\ cpc = "mark" /\ seq' = seq + 1
      /\ cpc' = IF seq < highest THEN "read" ELSE "gate"
      /\ available' = [available EXCEPT ![Slot(seq)] = FALSE]
  BY DEF MarkConsumed
<1>1. UNCHANGED <<pc, pos>>
  BY <1>0 DEF producerVars
<1>2. /\ \A q \in Producers : /\ (InClaim(q)' <=> InClaim(q))
                             /\ First(q)' = First(q) /\ Last(q)' = Last(q)
      /\ \A q \in Producers, s \in Int : Owns(q, s)' <=> Owns(q, s)
      /\ Published' = Published
  BY <1>0, ConsumerFrame
<1>3. Unmarked' = seq + 1 /\ Unmarked = seq
  BY <1>0 DEF Unmarked
<1>4. seq .. highest \subseteq Published /\ next_seq <= seq /\ seq <= highest /\ Len(delivered) = seq + 1
  BY <1>0 DEF ConsumerInv
<1>5. seq \in Published /\ highest \in Published
  BY <1>4
<1>6. seq <= cursor /\ highest <= cursor /\ cursor <= seq + BufferSize - 1 /\ gating < seq
  <2>1. cursor <= Unmarked + BufferSize - 1 /\ gating < Unmarked
    BY Window, UnmarkedBounds
  <2> QED
    BY <2>1, <1>3, <1>5 DEF Published
<1>7. NoWrap' /\ DeliveredInOrder'
  BY <1>0 DEF NoWrap, DeliveredInOrder
<1>8. FlagsExact'
  <2> SUFFICES ASSUME NEW s \in seq + 1 .. seq + BufferSize
               PROVE  available'[Slot(s)] <=> s \in Published
    BY <1>2, <1>3, BufferSizeAssumption DEF FlagsExact, Slot
  <2>1. s \in Int /\ Slot(s) \in Slots /\ Slot(seq) \in Slots
    BY SlotType, BufferSizeAssumption
  <2>2. CASE s = seq + BufferSize
    <3>1. Slot(s) = Slot(seq)
      BY <2>2, SlotPeriodic
    <3>2. available'[Slot(s)] = FALSE
      BY <3>1, <2>1, <1>0
    <3>3. s \notin Published
      BY <2>2, <1>6, BufferSizeAssumption DEF Published
    <3> QED
      BY <3>2, <3>3
  <2>3. CASE s # seq + BufferSize
    <3>1. /\ s \in Unmarked .. Unmarked + BufferSize - 1
          /\ seq \in Unmarked .. Unmarked + BufferSize - 1 /\ s # seq
      BY <2>1, <2>3, <1>3, BufferSizeAssumption
    <3>2. Slot(s) # Slot(seq)
      BY <3>1, Window
    <3>3. available'[Slot(s)] = available[Slot(s)]
      BY <3>2, <2>1, <1>0
    <3> QED
      BY <3>1, <3>3 DEF FlagsExact
  <2> QED
    BY <2>2, <2>3
<1>9. RingInv'
  <2> SUFFICES ASSUME NEW s \in seq + 1 .. cursor,
                      \A q \in Producers : Owns(q, s)' => pc'[q] = "publish" \/ s < pos'[q]
               PROVE  ring[Slot(s)] = s
    BY <1>0, <1>3 DEF RingInv, Slot
  <2>1. s \in Int /\ s \in Unmarked .. cursor
    BY <1>3
  <2>2. \A q \in Producers : Owns(q, s) => pc[q] = "publish" \/ s < pos[q]
    BY <2>1, <1>1, <1>2
  <2> QED
    BY <2>1, <2>2, Zenon DEF RingInv
<1>10. ProducerInv'
  <2>1. ASSUME NEW q \in Producers, InClaim(q) PROVE Unmarked' <= First(q)
    <3>1. ~Owns(q, seq)
      BY <1>5 DEF Published
    <3>2. First(q) \in Int /\ Last(q) \in Int
      BY DEF First, Last
    <3>3. current[q] < pos[q] /\ pos[q] <= Last(q) /\ Unmarked <= First(q)
      BY <2>1 DEF ProducerInv
    <3>4. seq <= First(q) /\ First(q) <= Last(q)
      BY <3>2, <3>3, <1>3 DEF First
    <3> QED
      BY <2>1, <3>1, <3>2, <3>4, <1>3 DEF Owns
  <2> QED
    BY <2>1, <1>0, ConsumerKeepsProducerInv
<1>11. ConsumerInv'
  <2>1. cpc' = "read" => seq' <= highest' /\ seq' .. highest' \subseteq Published'
    BY <1>0, <1>2, <1>4
  <2>2. cpc' \in {"read", "gate"} /\ next_seq' < seq' /\ seq' <= cursor' + 1
    BY <1>0, <1>4, <1>6
  <2>3. Len(delivered') = Unmarked'
    BY <1>0, <1>3, <1>4
  <2> QED
    BY <2>1, <2>2, <2>3, <1>0 DEF ConsumerInv
<1> QED
  BY <1>7, <1>8, <1>9, <1>10, <1>11

-----------------------------------------------------------------------------
(* The theorems. *)

LEMMA SequencerInvStep == TypeOK /\ SequencerInv /\ [Next]_vars => SequencerInv'
<1> SUFFICES ASSUME TypeOK, SequencerInv, [Next]_vars PROVE SequencerInv'
  OBVIOUS
<1>1. CASE UNCHANGED vars
  BY <1>1, Zenon DEF vars, producerVars, consumerVars, SequencerInv, NoWrap, ProducerInv, ConsumerInv,
              FlagsExact, RingInv, DeliveredInOrder, Published, Owns, InClaim, First, Last,
              Unmarked, WrapPoint, Slot
<1>2. CASE Consumer
  BY <1>2, LookStep, ReadSlotStep, MarkConsumedStep, UpdateGatingStep DEF Consumer
<1>3. CASE \E p \in Producers : Producer(p)
  BY <1>3, ProducerLocalStep, ClaimWinsStep, WriteSlotStep, PublishStep DEF Producer
<1> QED
  BY <1>1, <1>2, <1>3 DEF Next

(* The inductive invariant holds in every reachable state. *)
THEOREM SequencerInvariant == Spec => []SequencerInv
<1>1. Init => SequencerInv
  BY InitSequencerInv
<1> QED
  BY <1>1, TypeCorrect, SequencerInvStep, PTL DEF Spec

LEMMA InvImpliesSlotExclusive == TypeOK /\ SequencerInv => SlotExclusive
<1> SUFFICES ASSUME TypeOK, SequencerInv,
                    NEW p \in Producers, NEW s \in 0 .. cursor, Owns(p, s)
             PROVE  /\ \A q \in Producers \ {p} : \A t \in 0 .. cursor :
                           Owns(q, t) => Slot(s) # Slot(t)
                    /\ \A t \in Unmarked .. s - 1 : Slot(s) # Slot(t)
  BY DEF SlotExclusive
<1> USE DEF SequencerInv
<1>1. cursor <= Unmarked + BufferSize - 1 /\ Unmarked \in Int /\ cursor \in Int
  BY Window, UnmarkedBounds DEF TypeOK
<1>2. \A q \in Producers : First(q) \in Int /\ Last(q) \in Int
  BY DEF First, Last, TypeOK
<1>3. \A q \in Producers, t \in 0 .. cursor :
          Owns(q, t) => t \in Unmarked .. Unmarked + BufferSize - 1
  <2> SUFFICES ASSUME NEW q \in Producers, NEW t \in 0 .. cursor, Owns(q, t)
               PROVE  t \in Unmarked .. Unmarked + BufferSize - 1
    OBVIOUS
  <2>1. Unmarked <= First(q) /\ First(q) <= t
    BY DEF Owns, ProducerInv
  <2> QED
    BY <2>1, <1>1, <1>2, BufferSizeAssumption
<1>4. s \in Unmarked .. Unmarked + BufferSize - 1
  BY <1>3
<1>5. ASSUME NEW q \in Producers \ {p}, NEW t \in 0 .. cursor, Owns(q, t)
      PROVE  Slot(s) # Slot(t)
  <2>1. Last(p) < First(q) \/ Last(q) < First(p)
    BY <1>5 DEF ProducerInv, Owns
  <2>2. s # t
    BY <2>1, <1>2, <1>5 DEF Owns
  <2>3. t \in Unmarked .. Unmarked + BufferSize - 1
    BY <1>3, <1>5
  <2> QED
    BY <2>2, <2>3, <1>4, Window
<1>6. ASSUME NEW t \in Unmarked .. s - 1 PROVE Slot(s) # Slot(t)
  <2>1. t \in Unmarked .. Unmarked + BufferSize - 1 /\ s # t
    BY <1>1, <1>4, BufferSizeAssumption
  <2> QED
    BY <2>1, <1>4, Window
<1> QED
  BY <1>5, <1>6

(* For any number of producers, any buffer size and any mix of next(),      *)
(* try_next() and next_batch(): no claim wraps over unreleased sequences,   *)
(* a slot never has two users, a flag is up exactly for a published event,  *)
(* and the consumer reads every event once, intact and in order of claim.   *)
THEOREM SequencerSafety ==
    Spec => [](NoWrap /\ SlotExclusive /\ FlagsExact /\ DeliveredInOrder)
<1>1. TypeOK /\ SequencerInv => NoWrap /\ SlotExclusive /\ FlagsExact /\ DeliveredInOrder
  BY InvImpliesSlotExclusive DEF SequencerInv
<1> QED
  BY <1>1, TypeCorrect, SequencerInvariant, PTL

(* The disruptor implements the bounded stream: claims reserve, publications *)
(* fill, reads take in order, and update_gating_sequence recycles; all other *)
(* steps are invisible.                                                      *)
THEOREM SequencerRefinesStream == Spec => RefinesStream
<1>1. Init => Stream!StreamInit
  <2> SUFFICES ASSUME Init PROVE Stream!StreamInit
    OBVIOUS
  <2>1. Published = {}
    BY DEF Init, Published
  <2> QED
    BY <2>1 DEF Init, Stream!StreamInit
<1>2. TypeOK /\ SequencerInv /\ [Next]_vars => [Stream!StreamNext]_(Stream!streamVars)
  <2> SUFFICES ASSUME TypeOK, SequencerInv, [Next]_vars
               PROVE  Stream!StreamNext \/ UNCHANGED Stream!streamVars
    OBVIOUS
  <2> USE DEF Stream!streamVars
  <2>1. CASE UNCHANGED vars
    BY <2>1, Zenon DEF vars, producerVars, consumerVars, Published, Owns, InClaim, First, Last
  <2>2. ASSUME NEW p \in Producers,
               StartClaim(p) \/ LoadCursor(p) \/ GateOpen(p) \/ TryNextFull(p)
               \/ ClaimLoses(p) \/ WriteSlot(p)
        PROVE  UNCHANGED Stream!streamVars
    <3>1. UNCHANGED <<cursor, gating, delivered>>
      BY <2>2 DEF StartClaim, LoadCursor, GateOpen, TryNextFull, ClaimLoses, WriteSlot, consumerVars
    <3>2. Published' = Published
      BY <2>2, ProducerLocalStep, WriteSlotStep
    <3> QED
      BY <3>1, <3>2
  <2>3. ASSUME NEW p \in Producers, ClaimWins(p) PROVE Stream!Reserve
    <3>1. /\ cursor = current[p] /\ cursor' = current[p] + cnt[p] /\ WrapPoint(p) <= gating
          /\ UNCHANGED <<gating, delivered>> /\ Published' = Published
      BY <2>3, ClaimWinsStep, Zenon DEF ClaimWins, consumerVars, SequencerInv, ProducerInv
    <3>2. /\ cnt[p] \in 1 .. BufferSize /\ cursor + 1 + cnt[p] - (gating + 1) <= BufferSize
          /\ cursor' + 1 = cursor + 1 + cnt[p]
      <4>1. cnt[p] \in Nat \ {0} /\ cursor \in Int /\ gating \in Int
        BY Zenon DEF TypeOK
      <4>2. /\ cursor + cnt[p] - BufferSize <= gating /\ gating <= cursor
            /\ cursor' = cursor + cnt[p]
        BY <3>1, Zenon DEF WrapPoint, SequencerInv, ConsumerInv
      <4> QED
        BY <4>1, <4>2, BufferSizeAssumption
    <3> QED
      BY <3>1, <3>2 DEF Stream!Reserve
  <2>4. ASSUME NEW p \in Producers, Publish(p) PROVE Stream!Fill
    <3>1. /\ Published' = Published \cup {pos[p]} /\ pos[p] \notin Published
          /\ UNCHANGED <<cursor, gating, delivered>>
      BY <2>4, PublishStep, Zenon DEF Publish, consumerVars
    <3>2. pos[p] \in 0 .. (cursor + 1) - 1
      <4>1. pos[p] \in Published'
        BY <3>1
      <4> QED
        BY <4>1, <3>1 DEF Published, TypeOK
    <3> QED
      BY <3>1, <3>2 DEF Stream!Fill
  <2>5. CASE Poll \/ ScanFlag \/ ScanEnd \/ WaitFor \/ MarkConsumed
    <3>1. UNCHANGED <<cursor, gating, delivered, producerVars>>
      BY <2>5 DEF Poll, ScanFlag, ScanEnd, WaitFor, MarkConsumed
    <3>2. Published' = Published
      BY <3>1, ConsumerFrame
    <3> QED
      BY <3>1, <3>2
  <2>6. CASE ReadSlot
    <3>1. /\ UNCHANGED <<cursor, gating, producerVars>>
          /\ delivered' = Append(delivered, ring[Slot(seq)])
      BY <2>6 DEF ReadSlot
    <3>2. Published' = Published
      BY <3>1, ConsumerFrame
    <3>3. ring[Slot(seq)] = seq /\ Len(delivered) = seq /\ seq \in Published
      BY <2>6, ReadSlotStep
    <3>4. Stream!Take
      BY <3>1, <3>2, <3>3 DEF Stream!Take
    <3> QED
      BY <3>4 DEF Stream!StreamNext
  <2>7. CASE UpdateGating
    <3>1. UNCHANGED <<cursor, delivered, producerVars>>
      BY <2>7 DEF UpdateGating
    <3>2. Published' = Published
      BY <3>1, ConsumerFrame
    <3>3. gating < gating' /\ gating' = Len(delivered) - 1
      BY <2>7, UpdateGatingStep
    <3>4. gating' + 1 \in (gating + 1) + 1 .. Len(delivered)
      BY <3>3 DEF TypeOK
    <3>5. Stream!Recycle
      BY <3>1, <3>2, <3>4 DEF Stream!Recycle
    <3> QED
      BY <3>5 DEF Stream!StreamNext
  <2> QED
    BY <2>1, <2>2, <2>3, <2>4, <2>5, <2>6, <2>7 DEF Next, Producer, Consumer, Stream!StreamNext
<1> QED
  BY <1>1, <1>2, TypeCorrect, SequencerInvariant, PTL DEF Spec, RefinesStream, Stream!StreamSpec
=============================================================================
