------------------------ MODULE BlockingPoolProofs ------------------------
(* Proofs about BlockingPool and, in the last part, about ConnectionPool. *)
EXTENDS BlockingPool, FiniteSetTheorems, SequenceTheorems, TLAPS

(* The holder a caller has or is about to get. *)
Held(c) ==
    CASE pc[c] \in {"using", "reset"} -> mine[c]
      [] pc[c] = "waiting" -> assigned[c]
      [] pc[c] = "posted" -> Head(posted[c])
      [] OTHER -> None

(* What a caller has, by where it is: each phase of an acquisition has one  *)
(* place for the holder, and an asynchronous one is completed once.         *)
Phase(c) ==
    /\ pc[c] \in {"using", "reset"} <=> mine[c] # None
    /\ assigned[c] # None => pc[c] = "waiting" /\ ~IsAsync(c)
    /\ IF pc[c] = "posted" THEN \E h \in Holders \cup {None} : posted[c] = <<h>>
                           ELSE posted[c] = << >>
    /\ made[c] # None => pc[c] = "created"
    /\ timer[c] # "off" /\ ~claimed[c] => pc[c] = "waiting" /\ IsAsync(c)

(* The queue holds callers that wait and have not been given a holder. *)
Queued ==
    /\ \A i \in 1 .. Len(waiters) :
           /\ pc[waiters[i]] = "waiting" /\ assigned[waiters[i]] = None
           /\ IsAsync(waiters[i]) => ~claimed[waiters[i]]
    /\ \A i, j \in 1 .. Len(waiters) : waiters[i] = waiters[j] => i = j

(* A holder is free or with one caller, or not in the pool yet. *)
Exclusive ==
    /\ \A i, j \in 1 .. Len(free) : free[i] = free[j] => i = j
    /\ \A i \in 1 .. Len(free) : free[i] \in holders /\ \A c \in Callers : Held(c) # free[i]
    /\ \A c, d \in Callers : Held(c) = Held(d) /\ Held(c) # None => c = d
    /\ \A c \in Callers :
           made[c] # None => /\ made[c] \notin holders
                             /\ \A d \in Callers : /\ Held(d) # made[c]
                                                   /\ made[d] = made[c] => c = d

(* Until Clear every holder of the pool is somewhere, and counted. *)
Accounted ==
    /\ shutdown <=> spc # "idle"
    /\ ~shutdown => \A h \in holders : \/ \E i \in 1 .. Len(free) : free[i] = h
                                       \/ \E c \in Callers : Held(c) = h
    /\ spc # "done" => /\ created = Cardinality(holders)
                       /\ \A c \in Callers : Held(c) # None => Held(c) \in holders

PoolInv == TypeOK /\ (\A c \in Callers : Phase(c)) /\ Queued /\ Exclusive /\ Accounted

-----------------------------------------------------------------------------
(* The queue of waiters. *)

(* What is left of the queue when some entries are taken out. *)
SubQueue(q) ==
    /\ q \in Seq(Callers)
    /\ \A i \in 1 .. Len(q) : \E k \in 1 .. Len(waiters) : q[i] = waiters[k]
    /\ \A i, j \in 1 .. Len(q) : q[i] = q[j] => i = j

(* The queue after the i-th waiter. *)
After(i) == SubSeq(waiters, i + 1, Len(waiters))

LEMMA AfterQueue ==
    ASSUME waiters \in Seq(Callers), Queued, NEW i \in 1 .. Len(waiters)
    PROVE  SubQueue(After(i)) /\ \A j \in 1 .. Len(After(i)) : After(i)[j] # waiters[i]
<1> DEFINE n == Len(waiters)
           q == SubSeq(waiters, i + 1, n)
<1>1. n \in Nat /\ i \in 1 .. n /\ \A k \in 1 .. n : waiters[k] \in Callers
  BY ElementOfSeq, LenProperties, Zenon
<1>2. \A k \in i + 1 .. n : waiters[k] \in Callers
  BY <1>1
<1>3. q \in Seq(Callers) /\ Len(q) = n - i /\ \A j \in 1 .. n - i : q[j] = waiters[i + j]
  BY <1>1, <1>2, SubSeqProperties
<1>4. \A j, k \in 1 .. n : waiters[j] = waiters[k] => j = k
  BY Zenon DEF Queued
<1> HIDE DEF q, n
<1>5. \A j \in 1 .. Len(q) : i + j \in 1 .. n /\ q[j] = waiters[i + j]
  BY <1>1, <1>3
<1>6. \A j, k \in 1 .. Len(q) : q[j] = q[k] => j = k
  <2> SUFFICES ASSUME NEW j \in 1 .. Len(q), NEW k \in 1 .. Len(q), q[j] = q[k] PROVE j = k
    BY Zenon
  <2>1. i + j = i + k
    BY <1>4, <1>5, Zenon
  <2> QED
    BY <1>1, <1>3, <2>1
<1>7. \A j \in 1 .. Len(q) : q[j] # waiters[i]
  <2> SUFFICES ASSUME NEW j \in 1 .. Len(q), q[j] = waiters[i] PROVE FALSE
    BY Zenon
  <2>1. i + j = i
    BY <1>1, <1>4, <1>5, Zenon
  <2> QED
    BY <1>1, <1>3, <2>1
<1>8. SubQueue(q)
  <2>1. ASSUME NEW j \in 1 .. Len(q)
        PROVE  \E k \in 1 .. Len(waiters) : q[j] = waiters[k]
    <3>1. i + j \in 1 .. Len(waiters) /\ q[j] = waiters[i + j]
      BY <1>5, Zenon DEF n
    <3> QED
      BY <3>1, Zenon
  <2> QED
    BY <1>3, <1>6, <2>1, Zenon DEF SubQueue
<1> QED
  BY <1>7, <1>8, Zenon DEF After, q, n

LEMMA RemovedQueue ==
    ASSUME waiters \in Seq(Callers), Queued, NEW i \in 1 .. Len(waiters)
    PROVE  /\ SubQueue(Without(i))
           /\ \A j \in 1 .. Len(Without(i)) : Without(i)[j] # waiters[i]
<1> DEFINE n == Len(waiters)
           p == SubSeq(waiters, 1, i - 1)
           q == SubSeq(waiters, i + 1, n)
           r == p \o q
           From(j) == IF j < i THEN j ELSE j + 1
<1>1. n \in Nat /\ i \in 1 .. n /\ \A k \in 1 .. n : waiters[k] \in Callers
  BY ElementOfSeq, LenProperties, Zenon
<1>2. /\ \A k \in i + 1 .. n : waiters[k] \in Callers
      /\ \A k \in 1 .. i - 1 : waiters[k] \in Callers
  BY <1>1
<1>3. q \in Seq(Callers) /\ Len(q) = n - i /\ \A j \in 1 .. n - i : q[j] = waiters[i + j]
  BY <1>1, <1>2, SubSeqProperties
<1>4. p \in Seq(Callers) /\ Len(p) = i - 1 /\ \A j \in 1 .. i - 1 : p[j] = waiters[j]
  BY <1>1, <1>2, SubSeqProperties
<1> HIDE DEF p, q
<1>5. /\ r \in Seq(Callers) /\ Len(r) = n - 1
      /\ \A j \in 1 .. n - 1 : r[j] = IF j <= i - 1 THEN p[j] ELSE q[j - (i - 1)]
  <2>1. /\ r \in Seq(Callers) /\ Len(r) = Len(p) + Len(q)
        /\ \A j \in 1 .. Len(p) + Len(q) : r[j] = IF j <= Len(p) THEN p[j] ELSE q[j - Len(p)]
    BY <1>3, <1>4, ConcatProperties, Zenon
  <2>2. Len(p) = i - 1 /\ Len(p) + Len(q) = n - 1
    BY <1>1, <1>3, <1>4
  <2> HIDE DEF r
  <2> QED
    BY <2>1, <2>2, Zenon
<1>6. \A j, k \in 1 .. n : waiters[j] = waiters[k] => j = k
  BY Zenon DEF Queued
<1> HIDE DEF r, n
<1>7. \A j \in 1 .. Len(r) : From(j) \in 1 .. n /\ From(j) # i /\ r[j] = waiters[From(j)]
  <2> SUFFICES ASSUME NEW j \in 1 .. Len(r)
               PROVE  From(j) \in 1 .. n /\ From(j) # i /\ r[j] = waiters[From(j)]
    BY Zenon
  <2>1. CASE j < i
    BY <1>1, <1>4, <1>5, <2>1
  <2>2. CASE ~(j < i)
    <3>1. r[j] = q[j - (i - 1)] /\ j - (i - 1) \in 1 .. n - i /\ i + (j - (i - 1)) = j + 1
      BY <1>1, <1>5, <2>2
    <3> QED
      BY <1>1, <1>3, <1>5, <2>2, <3>1
  <2> QED
    BY <2>1, <2>2, Zenon
<1>8. \A j, k \in 1 .. Len(r) : From(j) = From(k) => j = k
  BY <1>1, <1>5
<1> HIDE DEF From
<1>9. \A j, k \in 1 .. Len(r) : r[j] = r[k] => j = k
  BY <1>6, <1>7, <1>8, Zenon
<1>10. \A j \in 1 .. Len(r) : r[j] # waiters[i]
  BY <1>1, <1>6, <1>7, Zenon
<1>11. SubQueue(r)
  BY <1>5, <1>7, <1>9, Zenon DEF SubQueue, n
<1>12. Without(i) = r
  BY Zenon DEF Without, r, p, q, n
<1> HIDE DEF Without
<1> QED
  BY <1>10, <1>11, <1>12, Zenon

LEMMA OthersQueue ==
    ASSUME waiters \in Seq(Callers), Queued, NEW c \in Callers
    PROVE  SubQueue(Others(c)) /\ \A j \in 1 .. Len(Others(c)) : Others(c)[j] # c
<1>1. CASE \E i \in 1 .. Len(waiters) : waiters[i] = c
  <2>1. PICK i \in 1 .. Len(waiters) : waiters[i] = c
    BY <1>1, Zenon
  <2>2. (CHOOSE k \in 1 .. Len(waiters) : waiters[k] = c) = i
    BY <2>1, Zenon DEF Queued
  <2>3. c \in Range(waiters)
    BY <2>1 DEF Range
  <2>4. Others(c) = Without(i)
    BY <2>2, <2>3, Zenon DEF Others
  <2> QED
    BY <2>1, <2>4, RemovedQueue, Zenon
<1>2. CASE ~\E i \in 1 .. Len(waiters) : waiters[i] = c
  <2>1. Others(c) = waiters
    BY <1>2 DEF Others, Range
  <2> QED
    BY <1>2, <2>1, Zenon DEF SubQueue, Queued
<1> QED
  BY <1>1, <1>2, Zenon

LEMMA QueueKept ==
    ASSUME Queued, mode' = mode, waiters' = waiters \/ SubQueue(waiters'),
           waiters \in Seq(Callers),
           \A i \in 1 .. Len(waiters') :
               LET d == waiters'[i]
               IN  pc'[d] = pc[d] /\ assigned'[d] = assigned[d] /\ claimed'[d] = claimed[d]
    PROVE  Queued'
<1>1. SubQueue(waiters')
  BY DEF SubQueue, Queued
<1>2. ASSUME NEW i \in 1 .. Len(waiters')
      PROVE  /\ pc'[waiters'[i]] = "waiting" /\ assigned'[waiters'[i]] = None
             /\ IsAsync(waiters[i])' => ~claimed'[waiters'[i]]
  <2>1. PICK k \in 1 .. Len(waiters) : waiters'[i] = waiters[k]
    BY <1>1, Zenon DEF SubQueue
  <2> QED
    BY <1>2, <2>1 DEF Queued, IsAsync
<1> QED
  BY <1>1, <1>2, Zenon DEF Queued, SubQueue

-----------------------------------------------------------------------------
(* One caller. *)

(* A caller that a step does not touch. *)
Same(d) ==
    /\ pc'[d] = pc[d] /\ mine'[d] = mine[d] /\ assigned'[d] = assigned[d]
    /\ posted'[d] = posted[d] /\ made'[d] = made[d]
    /\ timer'[d] = timer[d] /\ claimed'[d] = claimed[d] /\ mode' = mode

LEMMA SameKept ==
    ASSUME NEW d \in Callers, Phase(d), Same(d)
    PROVE  Phase(d)' /\ Held(d)' = Held(d)
<1>1. Phase(d)'
  BY Zenon DEF Phase, Same, IsAsync
<1>2. Held(d)' = Held(d)
  BY Zenon DEF Held, Same
<1> QED
  BY <1>1, <1>2, Zenon

(* A caller that neither has nor waits for anything has no holder. *)
LEMMA HeldNone ==
    ASSUME NEW c \in Callers, Phase(c), pc[c] \in {"idle", "creating", "created"}
    PROVE  Held(c) = None /\ mine[c] = None /\ assigned[c] = None /\ posted[c] = << >>
BY Zenon DEF Phase, Held

(* The end of an acquisition: the holder is with the caller, and nobody else *)
(* is concerned.                                                             *)
LEMMA Delivered ==
    ASSUME TypeOK, NEW c \in Callers, Phase(c), NEW h \in Holders, Deliver(c, h),
           pc[c] \in {"idle", "created"} \/ (pc[c] = "waiting" /\ ~IsAsync(c)),
           mode' = mode, assigned' \in [Callers -> Holders \cup {None}], assigned'[c] = None,
           made' \in [Callers -> Holders \cup {None}], made'[c] = None,
           claimed' = claimed, timer' = timer,
           \A d \in Callers : d # c => assigned'[d] = assigned[d] /\ made'[d] = made[d]
    PROVE  /\ Phase(c)' /\ Held(c)' = h
           /\ \A d \in Callers : d # c => Same(d)
           /\ pc' \in [Callers -> {"idle", "creating", "created", "waiting", "posted",
                                   "using", "reset"}]
           /\ posted' \in [Callers -> Seq(Holders \cup {None})]
           /\ mine' \in [Callers -> Holders \cup {None}]
<1>1. /\ posted[c] = << >> /\ mine[c] = None /\ (timer[c] = "off" \/ claimed[c])
      /\ IsAsync(c)' <=> IsAsync(c)
  BY Zenon DEF Phase, IsAsync
<1>n. h # None
  BY NoneAssumption, Zenon
<1>2. CASE IsAsync(c)
  <2>1. /\ posted' = [posted EXCEPT ![c] = <<h>>] /\ pc' = [pc EXCEPT ![c] = "posted"]
        /\ mine' = mine
    BY <1>1, <1>2 DEF Deliver
  <2>2. /\ posted'[c] = <<h>> /\ pc'[c] = "posted" /\ mine'[c] = None
        /\ \A d \in Callers : d # c => Same(d)
    BY <1>1, <2>1, Zenon DEF TypeOK, Same
  <2>3. Phase(c)'
    BY <1>1, <2>2, Zenon DEF Phase
  <2>4. Held(c)' = h
    BY <2>2 DEF Held
  <2>5. <<h>> \in Seq(Holders \cup {None})
    OBVIOUS
  <2> QED
    BY <2>1, <2>2, <2>3, <2>4, <2>5, Zenon DEF TypeOK
<1>3. CASE ~IsAsync(c)
  <2>1. /\ mine' = [mine EXCEPT ![c] = h] /\ pc' = [pc EXCEPT ![c] = "using"]
        /\ posted' = posted
    BY <1>3, Zenon DEF Deliver
  <2>2. /\ posted'[c] = << >> /\ pc'[c] = "using" /\ mine'[c] = h
        /\ \A d \in Callers : d # c => Same(d)
    BY <1>1, <2>1, Zenon DEF TypeOK, Same
  <2>3. Phase(c)'
    BY <1>1, <1>n, <2>2, Zenon DEF Phase
  <2>4. Held(c)' = h
    BY <2>2, Zenon DEF Held
  <2> QED
    BY <2>1, <2>2, <2>3, <2>4, Zenon DEF TypeOK
<1> QED
  BY <1>2, <1>3, Zenon

LEMMA Failed ==
    ASSUME TypeOK, NEW c \in Callers, Phase(c), Fail(c), assigned[c] = None,
           pc[c] \in {"idle", "created"} \/ (pc[c] = "waiting" /\ ~IsAsync(c)),
           mode' = mode, assigned' = assigned, claimed' = claimed, timer' = timer,
           made' \in [Callers -> Holders \cup {None}], made'[c] = None,
           \A d \in Callers : d # c => made'[d] = made[d]
    PROVE  /\ Phase(c)' /\ Held(c)' = None /\ Held(c) = None
           /\ \A d \in Callers : d # c => Same(d)
           /\ pc' \in [Callers -> {"idle", "creating", "created", "waiting", "posted",
                                   "using", "reset"}]
           /\ posted' \in [Callers -> Seq(Holders \cup {None})] /\ mine' = mine
<1>1. /\ posted[c] = << >> /\ mine[c] = None /\ (timer[c] = "off" \/ claimed[c])
      /\ IsAsync(c)' <=> IsAsync(c)
  BY Zenon DEF Phase, IsAsync
<1>2. Held(c) = None
  BY Zenon DEF Held
<1>3. CASE IsAsync(c)
  <2>1. /\ posted' = [posted EXCEPT ![c] = <<None>>] /\ pc' = [pc EXCEPT ![c] = "posted"]
        /\ mine' = mine
    BY <1>1, <1>3 DEF Fail
  <2>2. /\ posted'[c] = <<None>> /\ pc'[c] = "posted" /\ mine'[c] = None
        /\ \A d \in Callers : d # c => Same(d)
    BY <1>1, <2>1, Zenon DEF TypeOK, Same
  <2>3. Phase(c)'
    BY <1>1, <2>2, Zenon DEF Phase
  <2>4. Held(c)' = None
    BY <2>2 DEF Held
  <2>5. <<None>> \in Seq(Holders \cup {None})
    OBVIOUS
  <2> QED
    BY <1>2, <2>1, <2>2, <2>3, <2>4, <2>5, Zenon DEF TypeOK
<1>4. CASE ~IsAsync(c)
  <2>1. posted' = posted /\ pc' = [pc EXCEPT ![c] = "idle"] /\ mine' = mine
    BY <1>4, Zenon DEF Fail
  <2>2. /\ posted'[c] = << >> /\ pc'[c] = "idle" /\ mine'[c] = None
        /\ \A d \in Callers : d # c => Same(d)
    BY <1>1, <2>1, Zenon DEF TypeOK, Same
  <2>3. Phase(c)'
    BY <1>1, <2>2, Zenon DEF Phase
  <2>4. Held(c)' = None
    BY <2>2, Zenon DEF Held
  <2> QED
    BY <1>2, <2>1, <2>2, <2>3, <2>4, Zenon DEF TypeOK
<1> QED
  BY <1>3, <1>4, Zenon

-----------------------------------------------------------------------------
(* Where the holders are: the effects a step can have. *)

(* Nothing moves, but a holder that was just created may be forgotten. *)
LEMMA NothingMoves ==
    ASSUME Exclusive, Accounted, UNCHANGED <<shutdown, holders, free, created, spc>>,
           \A c \in Callers : Held(c)' = Held(c) /\ made'[c] \in {made[c], None}
    PROVE  Exclusive' /\ Accounted'
<1>1. Exclusive'
  BY DEF Exclusive
<1>2. Accounted'
  BY Zenon DEF Accounted
<1> QED
  BY <1>1, <1>2, Zenon

(* After a shutdown a caller lets go of its holder. *)
LEMMA LetsGo ==
    ASSUME Exclusive, Accounted, shutdown, NEW c \in Callers, Held(c)' = None,
           UNCHANGED <<shutdown, holders, free, created, made, spc>>,
           \A d \in Callers : d # c => Held(d)' = Held(d), None \notin holders,
           \A d \in Callers : made[d] \in Holders \cup {None}
    PROVE  Exclusive' /\ Accounted'
<1>1. Exclusive'
  BY NoneAssumption DEF Exclusive
<1>2. Accounted'
  BY DEF Accounted
<1> QED
  BY <1>1, <1>2, Zenon

(* A free holder goes to a caller. *)
LEMMA TakesHead ==
    ASSUME TypeOK, Exclusive, Accounted, NEW c \in Callers, free # << >>, Held(c) = None,
           free' = Tail(free), Held(c)' = Head(free),
           \A d \in Callers : d # c => Held(d)' = Held(d),
           UNCHANGED <<shutdown, holders, created, made, spc>>
    PROVE  Exclusive' /\ Accounted' /\ free' \in Seq(Holders)
<1> DEFINE n == Len(free)
<1>1. /\ free' \in Seq(Holders) /\ n \in Nat /\ n > 0 /\ Len(free') = n - 1
      /\ \A i \in 1 .. n - 1 : free'[i] = free[i + 1] /\ i + 1 \in 1 .. n
      /\ Head(free) = free[1] /\ 1 \in 1 .. n
  BY HeadTailProperties, LenProperties DEF TypeOK
<1> HIDE DEF n
<1>2. \A i, j \in 1 .. n : free[i] = free[j] => i = j
  BY Zenon DEF Exclusive, n
<1>3. \A i \in 1 .. n : free[i] \in holders /\ \A d \in Callers : Held(d) # free[i]
  BY Zenon DEF Exclusive, n
<1>4. Exclusive'
  <2>1. \A i, j \in 1 .. Len(free') : free'[i] = free'[j] => i = j
    <3> SUFFICES ASSUME NEW i \in 1 .. n - 1, NEW j \in 1 .. n - 1, free'[i] = free'[j]
                 PROVE  i = j
      BY <1>1, Zenon
    <3>1. i + 1 = j + 1
      BY <1>1, <1>2
    <3> QED
      BY <1>1, <3>1
  <2>2. ASSUME NEW i \in 1 .. Len(free')
        PROVE  free'[i] \in holders' /\ \A d \in Callers : Held(d)' # free'[i]
    <3>1. i + 1 \in 1 .. n /\ free'[i] = free[i + 1] /\ i + 1 # 1
      BY <1>1
    <3> QED
      BY <1>1, <1>2, <1>3, <3>1, Zenon
  <2>3. \A d, e \in Callers : Held(d)' = Held(e)' /\ Held(d)' # None => d = e
    BY <1>1, <1>3 DEF Exclusive
  <2>4. ASSUME NEW d \in Callers, made'[d] # None
        PROVE  /\ made'[d] \notin holders'
               /\ \A e \in Callers : Held(e)' # made'[d] /\ (made'[e] = made'[d] => d = e)
    BY <1>1, <1>3, <2>4 DEF Exclusive
  <2> QED
    BY <2>1, <2>2, <2>3, <2>4, Zenon DEF Exclusive
<1>5. Accounted'
  <2>1. ASSUME ~shutdown, NEW h \in holders, \A d \in Callers : Held(d)' # h
        PROVE  \E i \in 1 .. Len(free') : free'[i] = h
    <3>1. PICK i \in 1 .. n : free[i] = h
      <4>1. h # None
        BY NoneAssumption, Zenon DEF TypeOK
      <4>2. \A d \in Callers : Held(d) # h
        BY <2>1, <4>1, Zenon
      <4> QED
        BY <2>1, <4>2, Zenon DEF Accounted, n
    <3>2. i # 1
      BY <1>1, <2>1, <3>1, Zenon
    <3>3. i - 1 \in 1 .. n - 1 /\ i = (i - 1) + 1
      BY <1>1, <3>2
    <3> QED
      BY <1>1, <3>1, <3>3, Zenon
  <2>2. spc # "done" => \A d \in Callers : Held(d)' # None => Held(d)' \in holders
    BY <1>1, <1>3 DEF Accounted
  <2> QED
    BY <2>1, <2>2, Zenon DEF Accounted
<1> QED
  BY <1>1, <1>4, <1>5, Zenon

(* A caller gives its holder to another one. *)
LEMMA HandsOver ==
    ASSUME TypeOK, Exclusive, Accounted, NEW c \in Callers, NEW w \in Callers, c # w,
           Held(c) # None, Held(w) = None, Held(w)' = Held(c), Held(c)' = None,
           \A d \in Callers : d # c /\ d # w => Held(d)' = Held(d),
           UNCHANGED <<shutdown, holders, free, created, made, spc>>
    PROVE  Exclusive' /\ Accounted'
<1>n. None \notin holders
  BY NoneAssumption, Zenon DEF TypeOK
<1>1. Exclusive'
  BY <1>n DEF Exclusive
<1>2. Accounted'
  BY <1>n, Zenon DEF Accounted
<1> QED
  BY <1>1, <1>2, Zenon

(* A caller gives its holder back to the free list. *)
LEMMA Frees ==
    ASSUME TypeOK, Exclusive, Accounted, NEW c \in Callers, NEW h \in Holders, Held(c) = h,
           free' = Append(free, h), Held(c)' = None, ~shutdown,
           \A d \in Callers : d # c => Held(d)' = Held(d),
           UNCHANGED <<shutdown, holders, created, made, spc>>
    PROVE  Exclusive' /\ Accounted' /\ free' \in Seq(Holders)
<1> DEFINE n == Len(free)
<1>1. /\ free' \in Seq(Holders) /\ n \in Nat /\ Len(free') = n + 1
      /\ \A i \in 1 .. n : free'[i] = free[i] /\ i \in 1 .. n + 1
      /\ free'[n + 1] = h /\ n + 1 \in 1 .. n + 1
  BY AppendProperties, LenProperties DEF TypeOK
<1>2. h \in holders /\ h # None /\ None \notin holders
  BY NoneAssumption, Zenon DEF Accounted, TypeOK
<1> HIDE DEF n
<1>3. \A i \in 1 .. n : free[i] \in holders /\ \A d \in Callers : Held(d) # free[i]
  BY Zenon DEF Exclusive, n
<1>4. \A i \in 1 .. n + 1 : i \in 1 .. n \/ i = n + 1
  BY <1>1
<1>5. Exclusive'
  <2>1. \A i, j \in 1 .. Len(free') : free'[i] = free'[j] => i = j
    BY <1>1, <1>3, <1>4 DEF Exclusive, n
  <2>2. ASSUME NEW i \in 1 .. Len(free')
        PROVE  free'[i] \in holders' /\ \A d \in Callers : Held(d)' # free'[i]
    <3>1. CASE i = n + 1
      BY <1>1, <1>2, <3>1 DEF Exclusive
    <3>2. CASE i \in 1 .. n
      BY <1>1, <1>2, <1>3, <3>2, Zenon
    <3> QED
      BY <1>1, <1>4, <3>1, <3>2, Zenon
  <2>3. \A d, e \in Callers : Held(d)' = Held(e)' /\ Held(d)' # None => d = e
    BY Zenon DEF Exclusive
  <2>4. ASSUME NEW d \in Callers, made'[d] # None
        PROVE  /\ made'[d] \notin holders'
               /\ \A e \in Callers : Held(e)' # made'[d] /\ (made'[e] = made'[d] => d = e)
    BY <2>4, Zenon DEF Exclusive
  <2> QED
    BY <2>1, <2>2, <2>3, <2>4, Zenon DEF Exclusive
<1>6. Accounted'
  <2>1. ASSUME NEW g \in holders, \A d \in Callers : Held(d)' # g
        PROVE  \E i \in 1 .. Len(free') : free'[i] = g
    <3>1. CASE g = h
      BY <1>1, <3>1, Zenon
    <3>2. CASE g # h
      <4>1. PICK i \in 1 .. n : free[i] = g
        BY <2>1, <3>2, Zenon DEF Accounted, n
      <4> QED
        BY <1>1, <4>1, Zenon
    <3> QED
      BY <3>1, <3>2, Zenon
  <2> QED
    BY <2>1, Zenon DEF Accounted
<1> QED
  BY <1>1, <1>5, <1>6, Zenon

(* A caller drops its holder: the pool has one less. *)
LEMMA Drops ==
    ASSUME TypeOK, Exclusive, Accounted, NEW c \in Callers, NEW h \in Holders, Held(c) = h,
           Held(c)' = None, ~shutdown, holders' = holders \ {h},
           created' = IF h \in holders THEN created - 1 ELSE created,
           \A d \in Callers : d # c => Held(d)' = Held(d),
           UNCHANGED <<shutdown, free, made, spc>>
    PROVE  Exclusive' /\ Accounted' /\ created' \in Nat
<1>1. h \in holders /\ h # None /\ None \notin holders /\ spc # "done"
  BY NoneAssumption, Zenon DEF Accounted, TypeOK
<1>2. created' = Cardinality(holders') /\ created' \in Nat
  <2>1. IsFiniteSet(holders)
    BY HoldersAssumption, FS_Subset, Zenon DEF TypeOK
  <2>2. IsFiniteSet(holders') /\ Cardinality(holders') = Cardinality(holders) - 1
    BY <1>1, <2>1, FS_RemoveElement, Zenon
  <2> QED
    BY <1>1, <2>2, FS_CardinalityType DEF Accounted
<1>3. \A d \in Callers : d # c => Held(d) # h \/ Held(d) = None
  BY <1>1, Zenon DEF Exclusive
<1>4. Exclusive'
  BY <1>1, <1>3 DEF Exclusive
<1>5. Accounted'
  <2>1. \A g \in holders' : g \in holders /\ g # h
    BY Zenon
  <2>2. ASSUME NEW g \in holders', \A d \in Callers : Held(d)' # g
        PROVE  \E i \in 1 .. Len(free) : free[i] = g
    BY <2>1, <2>2, Zenon DEF Accounted
  <2>3. \A d \in Callers : Held(d)' # None => Held(d)' \in holders'
    BY <1>1, <1>3, Zenon DEF Accounted
  <2> QED
    BY <1>2, <2>2, <2>3, Zenon DEF Accounted
<1> QED
  BY <1>2, <1>4, <1>5, Zenon

(* A new holder joins the pool, with the caller that created it. *)
LEMMA Joins ==
    ASSUME TypeOK, Exclusive, Accounted, NEW c \in Callers, NEW h \in Holders, made[c] = h,
           made' = [made EXCEPT ![c] = None], Held(c) = None, Held(c)' = h,
           holders' = holders \cup {h}, created' = created + 1,
           \A d \in Callers : d # c => Held(d)' = Held(d),
           UNCHANGED <<shutdown, free, spc>>
    PROVE  Exclusive' /\ Accounted'
<1>1. h \notin holders /\ h # None /\ \A d \in Callers : Held(d) # h /\ (made[d] = h => d = c)
  BY NoneAssumption, Zenon DEF Exclusive
<1>2. made'[c] = None /\ \A d \in Callers : d # c => made'[d] = made[d]
  BY Zenon DEF TypeOK
<1>3. Exclusive'
  <2>1. \A i \in 1 .. Len(free') : free'[i] \in holders' /\ \A d \in Callers : Held(d)' # free'[i]
    BY <1>1 DEF Exclusive
  <2>2. \A d, e \in Callers : Held(d)' = Held(e)' /\ Held(d)' # None => d = e
    BY <1>1 DEF Exclusive
  <2>3. ASSUME NEW d \in Callers, made'[d] # None
        PROVE  /\ made'[d] \notin holders'
               /\ \A e \in Callers : Held(e)' # made'[d] /\ (made'[e] = made'[d] => d = e)
    BY <1>1, <1>2, <2>3 DEF Exclusive
  <2>4. \A i, j \in 1 .. Len(free') : free'[i] = free'[j] => i = j
    BY Zenon DEF Exclusive
  <2> QED
    BY <2>1, <2>2, <2>3, <2>4, Zenon DEF Exclusive
<1>4. Accounted'
  <2>1. spc # "done" => created' = Cardinality(holders')
    <3>1. IsFiniteSet(holders)
      BY HoldersAssumption, FS_Subset, Zenon DEF TypeOK
    <3>2. Cardinality(holders') = Cardinality(holders) + 1
      BY <1>1, <3>1, FS_AddElement, Zenon
    <3> QED
      BY <3>2, Zenon DEF Accounted
  <2>2. ASSUME ~shutdown, NEW g \in holders', \A d \in Callers : Held(d)' # g
        PROVE  \E i \in 1 .. Len(free) : free[i] = g
    <3>1. g \in holders /\ g # None
      BY <2>2, NoneAssumption, Zenon DEF TypeOK
    <3> QED
      BY <2>2, <3>1, Zenon DEF Accounted
  <2>3. spc # "done" => \A d \in Callers : Held(d)' # None => Held(d)' \in holders'
    BY Zenon DEF Accounted
  <2> QED
    BY <2>1, <2>2, <2>3, Zenon DEF Accounted
<1> QED
  BY <1>3, <1>4, Zenon

-----------------------------------------------------------------------------
(* The steps of a caller. *)

Phases == \A c \in Callers : Phase(c)

LEMMA OthersSame ==
    ASSUME Phases, NEW c \in Callers, Phase(c)', \A d \in Callers : d # c => Same(d)
    PROVE  Phases' /\ \A d \in Callers : d # c => Held(d)' = Held(d)
<1>1. \A d \in Callers : d # c => Phase(d)' /\ Held(d)' = Held(d)
  BY SameKept, Zenon DEF Phases
<1> QED
  BY <1>1, Zenon DEF Phases

(* The queue does not change for a caller that is not in it. *)
LEMMA QueueUntouched ==
    ASSUME TypeOK, Queued, NEW c \in Callers, pc[c] # "waiting" \/ assigned[c] # None,
           UNCHANGED <<mode, waiters>>, \A d \in Callers : d # c => Same(d)
    PROVE  Queued'
<1>1. \A i \in 1 .. Len(waiters) : waiters[i] \in Callers /\ waiters[i] # c
  BY ElementOfSeq, Zenon DEF TypeOK, Queued
<1> QED
  BY <1>1, QueueKept, Zenon DEF Same, TypeOK

LEMMA RefuseInv ==
    ASSUME PoolInv, NEW c \in Callers, Refuse(c) \/ AbortCreated(c)
    PROVE  PoolInv'
<1>1. /\ Fail(c) /\ UNCHANGED <<poolVars, assigned, claimed, timer, spc>>
      /\ pc[c] \in {"idle", "created"}
  BY Zenon DEF Refuse, AbortCreated, Start
<1>2. TypeOK /\ Phases /\ Phase(c) /\ Queued
  BY Zenon DEF PoolInv, Phases
<1>3. assigned[c] = None
  BY <1>1, <1>2, HeldNone, Zenon
<1>4. /\ made' \in [Callers -> Holders \cup {None}] /\ made'[c] = None
      /\ \A d \in Callers : d # c => made'[d] = made[d]
  BY <1>1, <1>2, Zenon DEF Refuse, AbortCreated, Start, TypeOK, Phase
<1>5. /\ Phase(c)' /\ Held(c)' = None /\ Held(c) = None
      /\ \A d \in Callers : d # c => Same(d)
      /\ pc' \in [Callers -> {"idle", "creating", "created", "waiting", "posted",
                              "using", "reset"}]
      /\ posted' \in [Callers -> Seq(Holders \cup {None})] /\ mine' = mine
  <2>1. mode' = mode /\ assigned' = assigned /\ claimed' = claimed /\ timer' = timer
    BY <1>1, Zenon DEF poolVars
  <2> QED
    BY <1>1, <1>2, <1>3, <1>4, <2>1, Failed, Zenon
<1>6. Phases' /\ \A d \in Callers : d # c => Held(d)' = Held(d)
  BY <1>2, <1>5, OthersSame, Zenon
<1>7. TypeOK'
  BY <1>1, <1>2, <1>4, <1>5, Zenon DEF TypeOK, poolVars
<1>8. Queued'
  BY <1>1, <1>2, <1>5, QueueUntouched, Zenon DEF poolVars
<1>9. Exclusive' /\ Accounted'
  BY <1>1, <1>4, <1>5, <1>6, NothingMoves, Zenon DEF PoolInv, poolVars
<1> QED
  BY <1>6, <1>7, <1>8, <1>9, Zenon DEF PoolInv, Phases

LEMMA TakeFreeInv ==
    ASSUME PoolInv, NEW c \in Callers, TakeFree(c)
    PROVE  PoolInv'
<1>1. /\ pc[c] = "idle" /\ free # << >> /\ free' = Tail(free) /\ Deliver(c, Head(free))
      /\ UNCHANGED <<mode, shutdown, holders, waiters, created, made, assigned, claimed,
                     timer, spc>>
  BY Zenon DEF TakeFree, Start
<1>2. TypeOK /\ Phases /\ Phase(c) /\ Queued
  BY Zenon DEF PoolInv, Phases
<1>3. assigned[c] = None /\ Held(c) = None /\ made[c] = None
  BY <1>1, <1>2, HeldNone, Zenon DEF Phase
<1>4. Head(free) \in Holders
  BY <1>1, <1>2, HeadTailProperties, Zenon DEF TypeOK
<1>5. /\ Phase(c)' /\ Held(c)' = Head(free)
      /\ \A d \in Callers : d # c => Same(d)
      /\ pc' \in [Callers -> {"idle", "creating", "created", "waiting", "posted",
                              "using", "reset"}]
      /\ posted' \in [Callers -> Seq(Holders \cup {None})]
      /\ mine' \in [Callers -> Holders \cup {None}]
  <2>1. assigned' \in [Callers -> Holders \cup {None}] /\ made' \in [Callers -> Holders \cup {None}]
    BY <1>1, <1>2, Zenon DEF TypeOK
  <2>2. mode' = mode /\ assigned' = assigned /\ claimed' = claimed /\ timer' = timer /\ made' = made
    BY <1>1, Zenon
  <2> QED
    BY <1>1, <1>2, <1>3, <1>4, <2>1, <2>2, Delivered, Zenon
<1>6. Phases' /\ \A d \in Callers : d # c => Held(d)' = Held(d)
  BY <1>2, <1>5, OthersSame, Zenon
<1>7. Exclusive' /\ Accounted' /\ free' \in Seq(Holders)
  BY <1>1, <1>2, <1>3, <1>5, <1>6, TakesHead, Zenon DEF PoolInv
<1>8. TypeOK'
  BY <1>1, <1>2, <1>5, <1>7, Zenon DEF TypeOK
<1>9. Queued'
  BY <1>1, <1>2, <1>5, QueueUntouched, Zenon
<1> QED
  BY <1>6, <1>7, <1>8, <1>9, Zenon DEF PoolInv, Phases

(* A step that only moves a caller on, with or without a new holder. *)
LEMMA CreateInv ==
    ASSUME PoolInv, NEW c \in Callers, StartCreate(c) \/ Create(c)
    PROVE  PoolInv'
<1>1. UNCHANGED <<poolVars, assigned, asyncVars, mine, spc>>
  BY Zenon DEF StartCreate, Create
<1>2. TypeOK /\ Phases /\ Phase(c) /\ Queued
  BY Zenon DEF PoolInv, Phases
<1>3. \/ /\ pc[c] = "idle" /\ pc' = [pc EXCEPT ![c] = "creating"] /\ made' = made
      \/ /\ pc[c] = "creating" /\ pc' = [pc EXCEPT ![c] = "created"]
         /\ \E h \in {x \in Holders : Unused(x)} \cup {None} : made' = [made EXCEPT ![c] = h]
  BY Zenon DEF StartCreate, Create, Start
<1>4. /\ pc[c] \in {"idle", "creating"} /\ pc'[c] \in {"creating", "created"}
      /\ made[c] = None /\ (made'[c] # None => pc'[c] = "created")
      /\ \A d \in Callers : d # c => Same(d)
  BY <1>1, <1>2, <1>3, Zenon DEF TypeOK, Phase, Same, poolVars, asyncVars
<1>5. TypeOK'
  <2>1. pc' \in [Callers -> {"idle", "creating", "created", "waiting", "posted", "using", "reset"}]
    BY <1>2, <1>3, Zenon DEF TypeOK
  <2>2. made' \in [Callers -> Holders \cup {None}]
    BY <1>2, <1>3, Zenon DEF TypeOK
  <2> QED
    BY <1>1, <1>2, <2>1, <2>2, Zenon DEF TypeOK, poolVars, asyncVars
<1>6. Phase(c)' /\ Held(c)' = None /\ Held(c) = None
  <2>1. Phase(c)'
    BY <1>1, <1>2, <1>4, Zenon DEF Phase, IsAsync, poolVars, asyncVars
  <2>2. Held(c)' = None /\ Held(c) = None
    BY <1>4, Zenon DEF Held
  <2> QED
    BY <2>1, <2>2, Zenon
<1>7. Phases' /\ \A d \in Callers : d # c => Held(d)' = Held(d)
  BY <1>2, <1>4, <1>6, OthersSame, Zenon
<1>8. Queued'
  BY <1>1, <1>2, <1>4, QueueUntouched, Zenon DEF poolVars
<1>9. \A d \in Callers : Held(d)' = Held(d)
  BY <1>6, <1>7, Zenon
<1>10. Accounted'
  BY <1>1, <1>9, Zenon DEF PoolInv, Accounted, poolVars
<1>11. Exclusive'
  <2>1. CASE made'[c] = None
    <3>1. \A d \in Callers : made'[d] \in {made[d], None}
      BY <1>4, <2>1, Zenon DEF Same
    <3> QED
      BY <1>1, <1>9, <3>1, NothingMoves, Zenon DEF PoolInv, poolVars
  <2>2. CASE made'[c] # None
    <3>1. made'[c] \in Holders /\ Unused(made'[c])
      BY <1>2, <1>3, <1>4, <2>2, Zenon DEF TypeOK
    <3> DEFINE h == made'[c]
    <3>2. h \notin holders /\ \A d \in Callers : made[d] # h /\ mine[d] # h /\ assigned[d] # h
      BY <3>1, Zenon DEF Unused, Alive
    <3>3. h # None
      BY <2>2, Zenon
    <3>4. ASSUME NEW d \in Callers
          PROVE  Held(d) # h
      <4>1. CASE pc[d] = "posted"
        <5>1. PICK g \in Holders \cup {None} : posted[d] = <<g>>
          BY <1>2, <4>1, Zenon DEF Phases, Phase
        <5>2. Len(posted[d]) = 1 /\ posted[d][1] = g /\ Head(posted[d]) = g
          BY <5>1
        <5>3. \A i \in 1 .. Len(posted[d]) : posted[d][i] # h
          BY <3>1, Zenon DEF Unused, Alive
        <5>4. g # h
          BY <5>2, <5>3
        <5> QED
          BY <4>1, <5>2, <5>4, Zenon DEF Held
      <4>2. CASE pc[d] # "posted"
        BY <3>2, <3>3, <4>2, Zenon DEF Held
      <4> QED
        BY <4>1, <4>2, Zenon
    <3>5. \A d \in Callers : d # c => made'[d] = made[d]
      BY <1>4, Zenon DEF Same
    <3> HIDE DEF h
    <3>6. ASSUME NEW d \in Callers, made'[d] # None
          PROVE  /\ made'[d] \notin holders'
                 /\ \A e \in Callers : Held(e)' # made'[d] /\ (made'[e] = made'[d] => d = e)
      BY <1>1, <1>9, <3>2, <3>4, <3>5, <3>6 DEF PoolInv, Exclusive, poolVars, h
    <3> QED
      BY <1>1, <1>9, <3>6 DEF PoolInv, Exclusive, poolVars
  <2> QED
    BY <2>1, <2>2, Zenon
<1> QED
  BY <1>5, <1>7, <1>8, <1>10, <1>11, Zenon DEF PoolInv, Phases

LEMMA RegisterInv ==
    ASSUME PoolInv, NEW c \in Callers, Register(c)
    PROVE  PoolInv'
<1>1. /\ pc[c] = "created" /\ made[c] # None
      /\ holders' = holders \cup {made[c]} /\ created' = created + 1
      /\ made' = [made EXCEPT ![c] = None] /\ Deliver(c, made[c])
      /\ UNCHANGED <<mode, shutdown, free, waiters, assigned, claimed, timer, spc>>
  BY Zenon DEF Register
<1>2. TypeOK /\ Phases /\ Phase(c) /\ Queued
  BY Zenon DEF PoolInv, Phases
<1>3. assigned[c] = None /\ Held(c) = None
  BY <1>1, <1>2, HeldNone, Zenon
<1>4. made[c] \in Holders
  BY <1>1, <1>2, Zenon DEF TypeOK
<1>5. /\ made' \in [Callers -> Holders \cup {None}] /\ made'[c] = None
      /\ \A d \in Callers : d # c => made'[d] = made[d]
  BY <1>1, <1>2, Zenon DEF TypeOK
<1>6. /\ Phase(c)' /\ Held(c)' = made[c]
      /\ \A d \in Callers : d # c => Same(d)
      /\ pc' \in [Callers -> {"idle", "creating", "created", "waiting", "posted",
                              "using", "reset"}]
      /\ posted' \in [Callers -> Seq(Holders \cup {None})]
      /\ mine' \in [Callers -> Holders \cup {None}]
  <2>1. assigned' \in [Callers -> Holders \cup {None}]
    BY <1>1, <1>2, Zenon DEF TypeOK
  <2>2. mode' = mode /\ assigned' = assigned /\ claimed' = claimed /\ timer' = timer
    BY <1>1, Zenon
  <2> QED
    BY <1>1, <1>2, <1>3, <1>4, <1>5, <2>1, <2>2, Delivered, Zenon
<1>7. Phases' /\ \A d \in Callers : d # c => Held(d)' = Held(d)
  BY <1>2, <1>6, OthersSame, Zenon
<1>8. Exclusive' /\ Accounted'
  BY <1>1, <1>2, <1>3, <1>4, <1>6, <1>7, Joins, Zenon DEF PoolInv
<1>9. TypeOK'
  BY <1>1, <1>2, <1>4, <1>5, <1>6 DEF TypeOK
<1>10. Queued'
  BY <1>1, <1>2, <1>6, QueueUntouched, Zenon
<1> QED
  BY <1>7, <1>8, <1>9, <1>10, Zenon DEF PoolInv, Phases

(* Nothing free and nothing created: the caller gives up, or joins the end  *)
(* of the queue without a holder.                                           *)
LEMMA GiveUpOrQueueInv ==
    ASSUME PoolInv, NEW c \in Callers, Exhausted(c) \/ CreationFailed(c)
    PROVE  PoolInv'
<1>1. /\ GiveUpOrQueue(c)
      /\ UNCHANGED <<mode, shutdown, holders, free, created, made, assigned, posted, mine, spc>>
      /\ pc[c] \in {"idle", "created"} /\ made[c] = None
  BY Zenon DEF Exhausted, CreationFailed, Start, PoolInv, Phase
<1>2. TypeOK /\ Phases /\ Phase(c) /\ Queued
  BY Zenon DEF PoolInv, Phases
<1>3. assigned[c] = None /\ Held(c) = None /\ mine[c] = None /\ posted[c] = << >>
  BY <1>1, <1>2, HeldNone, Zenon
<1>4. CASE mode[c] = "try"
  <2>1. pc' = [pc EXCEPT ![c] = "idle"] /\ UNCHANGED <<waiters, claimed, timer>>
    BY <1>1, <1>4, Zenon DEF GiveUpOrQueue
  <2>2. pc'[c] = "idle" /\ \A d \in Callers : d # c => Same(d)
    BY <1>1, <1>2, <2>1, Zenon DEF TypeOK, Same
  <2>3. TypeOK'
    BY <1>1, <1>2, <2>1, Zenon DEF TypeOK
  <2>4. Phase(c)'
    BY <1>1, <1>2, <1>3, <2>1, <2>2, Zenon DEF Phase, IsAsync
  <2>5. Held(c)' = None
    BY <2>2, Zenon DEF Held
  <2>6. Phases' /\ \A d \in Callers : d # c => Held(d)' = Held(d)
    BY <1>2, <2>2, <2>4, OthersSame, Zenon
  <2>7. Queued'
    BY <1>1, <1>2, <2>1, <2>2, QueueUntouched, Zenon
  <2>8. Exclusive' /\ Accounted'
    BY <1>1, <1>3, <2>5, <2>6, NothingMoves, Zenon DEF PoolInv
  <2> QED
    BY <2>3, <2>6, <2>7, <2>8, Zenon DEF PoolInv, Phases
<1>5. CASE mode[c] # "try"
  <2>1. /\ waiters' = Append(waiters, c) /\ pc' = [pc EXCEPT ![c] = "waiting"]
        /\ claimed' = [claimed EXCEPT ![c] = FALSE]
        /\ timer' = [timer EXCEPT ![c] = IF mode[c] = "async_timed" THEN "armed" ELSE "off"]
    BY <1>1, <1>5, Zenon DEF GiveUpOrQueue
  <2>2. /\ pc'[c] = "waiting" /\ claimed'[c] = FALSE
        /\ timer'[c] = IF mode[c] = "async_timed" THEN "armed" ELSE "off"
        /\ \A d \in Callers : d # c => Same(d)
    BY <1>1, <1>2, <2>1, Zenon DEF TypeOK, Same
  <2>3. /\ waiters' \in Seq(Callers) /\ Len(waiters) \in Nat /\ Len(waiters') = Len(waiters) + 1
        /\ \A i \in 1 .. Len(waiters) : waiters'[i] = waiters[i]
        /\ waiters'[Len(waiters) + 1] = c
    BY <1>2, <2>1, AppendProperties, LenProperties DEF TypeOK
  <2>4. TypeOK'
    <3>1. /\ timer' \in [Callers -> {"off", "armed", "fired"}]
          /\ claimed' \in [Callers -> BOOLEAN]
          /\ pc' \in [Callers -> {"idle", "creating", "created", "waiting", "posted",
                                  "using", "reset"}]
      BY <1>2, <2>1, Zenon DEF TypeOK
    <3> QED
      BY <1>1, <1>2, <2>3, <3>1, Zenon DEF TypeOK
  <2>5. Phase(c)'
    BY <1>1, <1>3, <2>2, Zenon DEF Phase, IsAsync
  <2>6. Held(c)' = None
    BY <1>1, <1>3, <2>2, Zenon DEF Held
  <2>7. Phases' /\ \A d \in Callers : d # c => Held(d)' = Held(d)
    BY <1>2, <2>2, <2>5, OthersSame, Zenon
  <2>8. Queued'
    <3>1. \A i \in 1 .. Len(waiters) : waiters[i] \in Callers /\ waiters[i] # c
      BY <1>1, <1>2, ElementOfSeq, Zenon DEF TypeOK, Queued
    <3>2. \A i \in 1 .. Len(waiters') : i \in 1 .. Len(waiters) \/ i = Len(waiters) + 1
      BY <2>3
    <3>3. ASSUME NEW i \in 1 .. Len(waiters')
          PROVE  /\ pc'[waiters'[i]] = "waiting" /\ assigned'[waiters'[i]] = None
                 /\ IsAsync(waiters[i])' => ~claimed'[waiters'[i]]
      <4>1. CASE i \in 1 .. Len(waiters)
        BY <1>1, <1>2, <2>2, <2>3, <3>1, <4>1 DEF Queued, IsAsync, Same
      <4>2. CASE i = Len(waiters) + 1
        BY <1>1, <1>3, <2>2, <2>3, <4>2, Zenon
      <4> QED
        BY <3>2, <4>1, <4>2, Zenon
    <3>4. \A i, j \in 1 .. Len(waiters') : waiters'[i] = waiters'[j] => i = j
      BY <1>2, <2>3, <3>1, <3>2 DEF Queued
    <3> QED
      BY <3>3, <3>4, Zenon DEF Queued
  <2>9. Exclusive' /\ Accounted'
    BY <1>1, <1>3, <2>6, <2>7, NothingMoves, Zenon DEF PoolInv
  <2> QED
    BY <2>4, <2>7, <2>8, <2>9, Zenon DEF PoolInv, Phases
<1> QED
  BY <1>4, <1>5, Zenon

LEMMA WakeReadyInv ==
    ASSUME PoolInv, NEW c \in Callers, WakeReady(c)
    PROVE  PoolInv'
<1>1. /\ pc[c] = "waiting" /\ ~IsAsync(c) /\ assigned[c] # None
      /\ assigned' = [assigned EXCEPT ![c] = None] /\ Deliver(c, assigned[c])
      /\ UNCHANGED <<poolVars, made, claimed, timer, spc>>
  BY Zenon DEF WakeReady
<1>2. TypeOK /\ Phases /\ Phase(c) /\ Queued
  BY Zenon DEF PoolInv, Phases
<1>3. /\ assigned[c] \in Holders /\ Held(c) = assigned[c] /\ made[c] = None
      /\ assigned' \in [Callers -> Holders \cup {None}] /\ assigned'[c] = None
      /\ made' \in [Callers -> Holders \cup {None}]
      /\ \A d \in Callers : d # c => assigned'[d] = assigned[d]
  BY <1>1, <1>2, Zenon DEF TypeOK, Held, Phase
<1>4. mode' = mode /\ made' = made /\ claimed' = claimed /\ timer' = timer
  BY <1>1, Zenon DEF poolVars
<1>5. /\ Phase(c)' /\ Held(c)' = assigned[c]
      /\ \A d \in Callers : d # c => Same(d)
      /\ pc' \in [Callers -> {"idle", "creating", "created", "waiting", "posted",
                              "using", "reset"}]
      /\ posted' \in [Callers -> Seq(Holders \cup {None})]
      /\ mine' \in [Callers -> Holders \cup {None}]
  BY <1>1, <1>2, <1>3, <1>4, Delivered, Zenon
<1>6. Phases' /\ \A d \in Callers : d # c => Held(d)' = Held(d)
  BY <1>2, <1>5, OthersSame, Zenon
<1>7. Exclusive' /\ Accounted'
  BY <1>1, <1>3, <1>5, <1>6, NothingMoves, Zenon DEF PoolInv, poolVars
<1>8. TypeOK'
  BY <1>1, <1>2, <1>3, <1>5, Zenon DEF TypeOK, poolVars
<1>9. Queued'
  BY <1>1, <1>2, <1>5, QueueUntouched, Zenon DEF poolVars
<1> QED
  BY <1>6, <1>7, <1>8, <1>9, Zenon DEF PoolInv, Phases

(* A caller takes itself off the queue. *)
LEMMA OthersQueued ==
    ASSUME TypeOK, Queued, NEW c \in Callers, mode' = mode, waiters' = Others(c),
           \A d \in Callers : d # c => Same(d)
    PROVE  Queued' /\ waiters' \in Seq(Callers)
<1>1. waiters \in Seq(Callers)
  BY Zenon DEF TypeOK
<1>2. SubQueue(waiters') /\ \A i \in 1 .. Len(waiters') : waiters'[i] # c
  BY <1>1, OthersQueue, Zenon
<1>3. waiters' \in Seq(Callers)
  BY <1>2, Zenon DEF SubQueue
<1>4. \A i \in 1 .. Len(waiters') : waiters'[i] \in Callers
  BY <1>3, ElementOfSeq, Zenon
<1> QED
  BY <1>1, <1>2, <1>3, <1>4, QueueKept, Zenon DEF Same

LEMMA WakeEmptyInv ==
    ASSUME PoolInv, NEW c \in Callers, WakeEmpty(c)
    PROVE  PoolInv'
<1>1. /\ pc[c] = "waiting" /\ ~IsAsync(c) /\ assigned[c] = None
      /\ waiters' = Others(c) /\ Fail(c)
      /\ UNCHANGED <<mode, shutdown, holders, free, created, made, assigned, claimed, timer, spc>>
  BY Zenon DEF WakeEmpty
<1>2. TypeOK /\ Phases /\ Phase(c) /\ Queued
  BY Zenon DEF PoolInv, Phases
<1>3. made[c] = None /\ made' \in [Callers -> Holders \cup {None}]
  BY <1>1, <1>2, Zenon DEF TypeOK, Phase
<1>4. mode' = mode /\ made' = made /\ assigned' = assigned /\ claimed' = claimed /\ timer' = timer
  BY <1>1, Zenon
<1>5. /\ Phase(c)' /\ Held(c)' = None /\ Held(c) = None
      /\ \A d \in Callers : d # c => Same(d)
      /\ pc' \in [Callers -> {"idle", "creating", "created", "waiting", "posted",
                              "using", "reset"}]
      /\ posted' \in [Callers -> Seq(Holders \cup {None})] /\ mine' = mine
  BY <1>1, <1>2, <1>3, <1>4, Failed, Zenon
<1>6. Phases' /\ \A d \in Callers : d # c => Held(d)' = Held(d)
  BY <1>2, <1>5, OthersSame, Zenon
<1>7. Queued' /\ waiters' \in Seq(Callers)
  BY <1>1, <1>2, <1>5, OthersQueued, Zenon
<1>8. TypeOK'
  BY <1>1, <1>2, <1>5, <1>7, Zenon DEF TypeOK
<1>9. Exclusive' /\ Accounted'
  BY <1>1, <1>5, <1>6, NothingMoves, Zenon DEF PoolInv
<1> QED
  BY <1>6, <1>7, <1>8, <1>9, Zenon DEF PoolInv, Phases

LEMMA ExpireInv ==
    ASSUME PoolInv, NEW c \in Callers, Expire(c)
    PROVE  PoolInv'
<1>1. /\ timer[c] = "armed" /\ timer' = [timer EXCEPT ![c] = "fired"]
      /\ UNCHANGED <<poolVars, pc, made, assigned, claimed, posted, mine, spc>>
  BY Zenon DEF Expire
<1>2. TypeOK /\ Phases /\ Phase(c) /\ Queued
  BY Zenon DEF PoolInv, Phases
<1>3. \A d \in Callers : d # c => Same(d)
  BY <1>1, <1>2, Zenon DEF TypeOK, Same, poolVars
<1>4. Phase(c)' /\ Held(c)' = Held(c)
  <2>1. Phase(c)'
    BY <1>1, <1>2, Zenon DEF Phase, IsAsync, poolVars
  <2>2. Held(c)' = Held(c)
    BY <1>1, Zenon DEF Held
  <2> QED
    BY <2>1, <2>2, Zenon
<1>5. Phases' /\ \A d \in Callers : d # c => Held(d)' = Held(d)
  BY <1>2, <1>3, <1>4, OthersSame, Zenon
<1>6. TypeOK'
  BY <1>1, <1>2, Zenon DEF TypeOK, poolVars
<1>7. Queued'
  BY <1>1, <1>2, Zenon DEF Queued, IsAsync, poolVars
<1>8. Exclusive' /\ Accounted'
  BY <1>1, <1>4, <1>5, NothingMoves, Zenon DEF PoolInv, poolVars
<1> QED
  BY <1>5, <1>6, <1>7, <1>8, Zenon DEF PoolInv, Phases

(* The timer's callback: an unclaimed waiter is still waiting, for nobody   *)
(* has completed it.                                                        *)
LEMMA TimeoutInv ==
    ASSUME PoolInv, NEW c \in Callers, OnAsyncWaiterTimeout(c)
    PROVE  PoolInv'
<1>1. /\ timer[c] = "fired" /\ timer' = [timer EXCEPT ![c] = "off"]
      /\ UNCHANGED <<mode, shutdown, holders, free, created, made, assigned, mine, spc>>
  BY Zenon DEF OnAsyncWaiterTimeout
<1>2. TypeOK /\ Phases /\ Phase(c) /\ Queued
  BY Zenon DEF PoolInv, Phases
<1>3. timer'[c] = "off" /\ \A d \in Callers : d # c => timer'[d] = timer[d]
  BY <1>1, <1>2, Zenon DEF TypeOK
<1>4. CASE claimed[c]
  <2>1. UNCHANGED <<waiters, claimed, posted, pc>>
    BY <1>4, Zenon DEF OnAsyncWaiterTimeout
  <2>2. \A d \in Callers : d # c => Same(d)
    BY <1>1, <1>3, <2>1, Zenon DEF Same
  <2>3. Phase(c)'
    BY <1>1, <1>2, <1>3, <2>1, Zenon DEF Phase, IsAsync
  <2>4. Held(c)' = Held(c)
    BY <1>1, <2>1, Zenon DEF Held
  <2>5. Phases' /\ \A d \in Callers : d # c => Held(d)' = Held(d)
    BY <1>2, <2>2, <2>3, OthersSame, Zenon
  <2>6. TypeOK'
    BY <1>1, <1>2, <2>1, Zenon DEF TypeOK
  <2>7. Queued'
    BY <1>1, <1>2, <2>1, Zenon DEF Queued, IsAsync
  <2>8. Exclusive' /\ Accounted'
    BY <1>1, <2>4, <2>5, NothingMoves, Zenon DEF PoolInv
  <2> QED
    BY <2>5, <2>6, <2>7, <2>8, Zenon DEF PoolInv, Phases
<1>5. CASE ~claimed[c]
  <2>1. /\ claimed' = [claimed EXCEPT ![c] = TRUE] /\ waiters' = Others(c)
        /\ posted' = [posted EXCEPT ![c] = Append(@, None)] /\ pc' = [pc EXCEPT ![c] = "posted"]
    BY <1>5, Zenon DEF OnAsyncWaiterTimeout
  <2>2. /\ pc[c] = "waiting" /\ IsAsync(c) /\ posted[c] = << >> /\ assigned[c] = None
        /\ mine[c] = None /\ made[c] = None
    BY <1>1, <1>2, <1>5, Zenon DEF Phase
  <2>3. posted' = [posted EXCEPT ![c] = <<None>>] /\ <<None>> \in Seq(Holders \cup {None})
    BY <2>1, <2>2
  <2>4. /\ claimed'[c] /\ posted'[c] = <<None>> /\ pc'[c] = "posted"
        /\ \A d \in Callers : d # c => Same(d)
    <3>1. claimed'[c] = TRUE /\ \A d \in Callers : d # c => claimed'[d] = claimed[d]
      BY <1>2, <2>1, Zenon DEF TypeOK
    <3>2. /\ posted'[c] = <<None>> /\ pc'[c] = "posted"
          /\ \A d \in Callers : d # c => posted'[d] = posted[d] /\ pc'[d] = pc[d]
      <4>1. posted'[c] = <<None>> /\ \A d \in Callers : d # c => posted'[d] = posted[d]
        BY <1>2, <2>3, Zenon DEF TypeOK
      <4>2. pc'[c] = "posted" /\ \A d \in Callers : d # c => pc'[d] = pc[d]
        BY <1>2, <2>1, Zenon DEF TypeOK
      <4> QED
        BY <4>1, <4>2, Zenon
    <3> QED
      BY <1>1, <1>3, <3>1, <3>2, Zenon DEF Same
  <2>5. Phase(c)'
    BY <1>1, <1>3, <2>2, <2>4, Zenon DEF Phase
  <2>6. Held(c)' = None /\ Held(c) = None
    BY <2>2, <2>4 DEF Held
  <2>7. Phases' /\ \A d \in Callers : d # c => Held(d)' = Held(d)
    BY <1>2, <2>4, <2>5, OthersSame, Zenon
  <2>8. Queued' /\ waiters' \in Seq(Callers)
    BY <1>1, <1>2, <2>1, <2>4, OthersQueued, Zenon
  <2>9. TypeOK'
    BY <1>1, <1>2, <2>1, <2>3, <2>8, Zenon DEF TypeOK
  <2>10. Exclusive' /\ Accounted'
    BY <1>1, <2>6, <2>7, NothingMoves, Zenon DEF PoolInv
  <2> QED
    BY <2>7, <2>8, <2>9, <2>10, Zenon DEF PoolInv, Phases
<1> QED
  BY <1>4, <1>5, Zenon

LEMMA CompleteInv ==
    ASSUME PoolInv, NEW c \in Callers, Complete(c)
    PROVE  PoolInv'
<1>1. /\ posted[c] # << >> /\ posted' = [posted EXCEPT ![c] = Tail(@)]
      /\ mine' = [mine EXCEPT ![c] = Head(posted[c])]
      /\ pc' = [pc EXCEPT ![c] = IF Head(posted[c]) = None THEN "idle" ELSE "using"]
      /\ UNCHANGED <<poolVars, made, assigned, claimed, timer, spc>>
  BY Zenon DEF Complete
<1>2. TypeOK /\ Phases /\ Phase(c) /\ Queued
  BY Zenon DEF PoolInv, Phases
<1>3. PICK h \in Holders \cup {None} : posted[c] = <<h>>
  BY <1>1, <1>2, Zenon DEF Phase
<1>4. pc[c] = "posted" /\ assigned[c] = None /\ made[c] = None /\ (timer[c] = "off" \/ claimed[c])
  BY <1>1, <1>2, Zenon DEF Phase
<1>5. Head(posted[c]) = h /\ Tail(posted[c]) = << >>
  BY <1>3
<1>6. posted' = [posted EXCEPT ![c] = << >>] /\ << >> \in Seq(Holders \cup {None})
  <2>1. posted' = [posted EXCEPT ![c] = Tail(posted[c])]
    BY <1>1, Zenon
  <2>2. << >> \in Seq(Holders \cup {None})
    BY EmptySeq, Zenon
  <2> QED
    BY <1>5, <2>1, <2>2, Zenon
<1>7. /\ posted'[c] = << >> /\ mine'[c] = h /\ pc'[c] = IF h = None THEN "idle" ELSE "using"
      /\ \A d \in Callers : d # c => Same(d)
  BY <1>1, <1>2, <1>5, <1>6, Zenon DEF TypeOK, Same, poolVars
<1>8. Phase(c)'
  BY <1>1, <1>4, <1>7 DEF Phase
<1>9. Held(c)' = h /\ Held(c) = h
  BY <1>4, <1>5, <1>7, Zenon DEF Held
<1>10. Phases' /\ \A d \in Callers : d # c => Held(d)' = Held(d)
  BY <1>2, <1>7, <1>8, OthersSame, Zenon
<1>11. TypeOK'
  BY <1>1, <1>2, <1>5, <1>6, Zenon DEF TypeOK, poolVars
<1>12. Queued'
  BY <1>1, <1>2, <1>4, <1>7, QueueUntouched, Zenon DEF poolVars
<1>13. Exclusive' /\ Accounted'
  BY <1>1, <1>9, <1>10, NothingMoves, Zenon DEF PoolInv, poolVars
<1> QED
  BY <1>10, <1>11, <1>12, <1>13, Zenon DEF PoolInv, Phases

(* What is common to the steps that end the use of a holder. *)
LEMMA Ended ==
    ASSUME TypeOK, Phases, NEW c \in Callers, pc[c] \in {"using", "reset"},
           pc' = [pc EXCEPT ![c] = "idle"], mine' = [mine EXCEPT ![c] = None],
           mode' = mode, made' = made, assigned' = assigned, claimed' = claimed,
           timer' = timer, posted' = posted
    PROVE  /\ Phases' /\ Held(c)' = None /\ Held(c) = mine[c] /\ mine[c] \in Holders
           /\ \A d \in Callers : d # c => Same(d) /\ Held(d)' = Held(d)
           /\ pc' \in [Callers -> {"idle", "creating", "created", "waiting", "posted",
                                   "using", "reset"}]
           /\ mine' \in [Callers -> Holders \cup {None}]
<1>1. /\ mine[c] \in Holders /\ Held(c) = mine[c] /\ posted[c] = << >> /\ assigned[c] = None
      /\ made[c] = None /\ (timer[c] = "off" \/ claimed[c])
  BY Zenon DEF Phases, Phase, Held, TypeOK
<1>2. pc'[c] = "idle" /\ mine'[c] = None /\ \A d \in Callers : d # c => Same(d)
  BY Zenon DEF TypeOK, Same
<1>3. Phase(c)'
  BY <1>1, <1>2, Zenon DEF Phase
<1>4. Held(c)' = None
  BY <1>2, Zenon DEF Held
<1>5. /\ pc' \in [Callers -> {"idle", "creating", "created", "waiting", "posted",
                              "using", "reset"}]
      /\ mine' \in [Callers -> Holders \cup {None}]
  BY Zenon DEF TypeOK
<1> QED
  BY <1>1, <1>2, <1>3, <1>4, <1>5, OthersSame, Zenon

(* Only after a shutdown is the holder that a caller uses gone. *)
LEMMA ReleaseInv ==
    ASSUME PoolInv, NEW c \in Callers, Release(c) \/ ReturnAfterShutdown(c)
    PROVE  PoolInv'
<1>1. /\ pc[c] \in {"using", "reset"}
      /\ UNCHANGED <<poolVars, made, assigned, asyncVars, spc>>
  BY Zenon DEF Release, ReturnAfterShutdown
<1>2. TypeOK /\ Phases /\ Phase(c) /\ Queued
  BY Zenon DEF PoolInv, Phases
<1>3. mine[c] \in Holders /\ Held(c) = mine[c] /\ mine[c] # None
  BY <1>1, <1>2, NoneAssumption, Zenon DEF Phase, Held, TypeOK
<1>4. CASE pc' = [pc EXCEPT ![c] = "reset"] /\ UNCHANGED mine
  <2>1. pc'[c] = "reset" /\ \A d \in Callers : d # c => Same(d)
    BY <1>1, <1>2, <1>4, Zenon DEF TypeOK, Same, poolVars, asyncVars
  <2>2. Phase(c)'
    BY <1>1, <1>2, <1>4, <2>1, Zenon DEF Phase, poolVars, asyncVars
  <2>3. Held(c)' = Held(c)
    BY <1>1, <1>4, <2>1, Zenon DEF Held
  <2>4. Phases' /\ \A d \in Callers : d # c => Held(d)' = Held(d)
    BY <1>2, <2>1, <2>2, OthersSame, Zenon
  <2>5. TypeOK'
    BY <1>1, <1>2, <1>4, Zenon DEF TypeOK, poolVars, asyncVars
  <2>6. Queued'
    BY <1>1, <1>2, <2>1, QueueUntouched, Zenon DEF poolVars
  <2>7. Exclusive' /\ Accounted'
    BY <1>1, <2>3, <2>4, NothingMoves, Zenon DEF PoolInv, poolVars
  <2> QED
    BY <2>4, <2>5, <2>6, <2>7, Zenon DEF PoolInv, Phases
<1>5. CASE /\ pc' = [pc EXCEPT ![c] = "idle"] /\ mine' = [mine EXCEPT ![c] = None]
           /\ shutdown
  <2>1. /\ Phases' /\ Held(c)' = None
        /\ \A d \in Callers : d # c => Same(d) /\ Held(d)' = Held(d)
        /\ pc' \in [Callers -> {"idle", "creating", "created", "waiting", "posted",
                                "using", "reset"}]
        /\ mine' \in [Callers -> Holders \cup {None}]
    <3>1. /\ mode' = mode /\ made' = made /\ assigned' = assigned /\ claimed' = claimed
          /\ timer' = timer /\ posted' = posted
      BY <1>1, Zenon DEF poolVars, asyncVars
    <3> QED
      BY <1>1, <1>2, <1>5, <3>1, Ended, Zenon
  <2>2. TypeOK'
    BY <1>1, <1>2, <2>1, Zenon DEF TypeOK, poolVars, asyncVars
  <2>3. Queued'
    BY <1>1, <1>2, <2>1, QueueUntouched, Zenon DEF poolVars
  <2>4. None \notin holders /\ \A d \in Callers : made[d] \in Holders \cup {None}
    BY <1>2, NoneAssumption, Zenon DEF TypeOK
  <2>5. Exclusive' /\ Accounted'
    BY <1>1, <1>5, <2>1, <2>4, LetsGo, Zenon DEF PoolInv, poolVars
  <2> QED
    BY <2>1, <2>2, <2>3, <2>5, Zenon DEF PoolInv, Phases
<1>6. ~Alive(mine[c]) => shutdown
  BY <1>3, Zenon DEF PoolInv, Accounted, Alive
<1> QED
  BY <1>4, <1>5, <1>6, Zenon DEF Release, ReturnAfterShutdown

LEMMA ReturnFreeInv ==
    ASSUME PoolInv, NEW c \in Callers, ReturnFree(c)
    PROVE  PoolInv'
<1>1. /\ pc[c] = "reset" /\ ~shutdown /\ waiters' = << >> /\ free' = Append(free, mine[c])
      /\ pc' = [pc EXCEPT ![c] = "idle"] /\ mine' = [mine EXCEPT ![c] = None]
      /\ UNCHANGED <<mode, shutdown, holders, created, made, assigned, asyncVars, spc>>
  BY Zenon DEF ReturnFree
<1>2. TypeOK /\ Phases /\ Queued
  BY Zenon DEF PoolInv, Phases
<1>3. /\ Phases' /\ Held(c)' = None /\ Held(c) = mine[c] /\ mine[c] \in Holders
      /\ \A d \in Callers : d # c => Same(d) /\ Held(d)' = Held(d)
      /\ pc' \in [Callers -> {"idle", "creating", "created", "waiting", "posted",
                              "using", "reset"}]
      /\ mine' \in [Callers -> Holders \cup {None}]
  <2>1. /\ mode' = mode /\ made' = made /\ assigned' = assigned /\ claimed' = claimed
        /\ timer' = timer /\ posted' = posted
    BY <1>1, Zenon DEF asyncVars
  <2> QED
    <3>1. pc[c] \in {"using", "reset"}
      BY <1>1, Zenon
    <3>2. pc' = [pc EXCEPT ![c] = "idle"] /\ mine' = [mine EXCEPT ![c] = None]
      BY <1>1, Zenon
    <3> QED
      BY <1>2, <2>1, <3>1, <3>2, Ended, Zenon
<1>4. Exclusive' /\ Accounted' /\ free' \in Seq(Holders)
  BY <1>1, <1>2, <1>3, Frees, Zenon DEF PoolInv
<1>5. TypeOK'
  BY <1>1, <1>2, <1>3, <1>4 DEF TypeOK, asyncVars
<1>6. Queued'
  BY <1>1 DEF Queued
<1> QED
  BY <1>3, <1>4, <1>5, <1>6, Zenon DEF PoolInv, Phases

LEMMA DropDeadInv ==
    ASSUME PoolInv, NEW c \in Callers, DropDead(c)
    PROVE  PoolInv'
<1>1. /\ pc[c] = "reset" /\ ~shutdown /\ holders' = holders \ {mine[c]}
      /\ created' = IF mine[c] \in holders THEN created - 1 ELSE created
      /\ pc' = [pc EXCEPT ![c] = "idle"] /\ mine' = [mine EXCEPT ![c] = None]
      /\ UNCHANGED <<mode, shutdown, free, waiters, made, assigned, asyncVars, spc>>
  BY Zenon DEF DropDead
<1>2. TypeOK /\ Phases /\ Queued
  BY Zenon DEF PoolInv, Phases
<1>3. /\ Phases' /\ Held(c)' = None /\ Held(c) = mine[c] /\ mine[c] \in Holders
      /\ \A d \in Callers : d # c => Same(d) /\ Held(d)' = Held(d)
      /\ pc' \in [Callers -> {"idle", "creating", "created", "waiting", "posted",
                              "using", "reset"}]
      /\ mine' \in [Callers -> Holders \cup {None}]
  <2>1. /\ mode' = mode /\ made' = made /\ assigned' = assigned /\ claimed' = claimed
        /\ timer' = timer /\ posted' = posted
    BY <1>1, Zenon DEF asyncVars
  <2> QED
    <3>1. pc[c] \in {"using", "reset"}
      BY <1>1, Zenon
    <3>2. pc' = [pc EXCEPT ![c] = "idle"] /\ mine' = [mine EXCEPT ![c] = None]
      BY <1>1, Zenon
    <3> QED
      BY <1>2, <2>1, <3>1, <3>2, Ended, Zenon
<1>4. Exclusive' /\ Accounted' /\ created' \in Nat
  BY <1>1, <1>2, <1>3, Drops, Zenon DEF PoolInv
<1>5. TypeOK'
  BY <1>1, <1>2, <1>3, <1>4, Zenon DEF TypeOK, asyncVars
<1>6. Queued'
  BY <1>1, <1>2, <1>3, QueueUntouched, Zenon
<1> QED
  BY <1>3, <1>4, <1>5, <1>6, Zenon DEF PoolInv, Phases

(* return_holder: the first waiter gets the holder, by its completion or by *)
(* a notification, and nobody else in the queue is touched.                 *)
LEMMA HandOverInv ==
    ASSUME PoolInv, NEW c \in Callers, HandOver(c)
    PROVE  PoolInv'
<1>1. /\ pc[c] = "reset" /\ ~shutdown /\ mine' = [mine EXCEPT ![c] = None]
      /\ UNCHANGED <<mode, shutdown, holders, free, created, made, spc>>
  BY Zenon DEF HandOver
<1>2. TypeOK /\ Phases /\ Queued /\ waiters \in Seq(Callers)
  BY Zenon DEF PoolInv, Phases, TypeOK
<1>3. PICK i \in 1 .. Len(waiters) :
          /\ waiters' = SubSeq(waiters, i + 1, Len(waiters))
          /\ IF IsAsync(waiters[i])
             THEN /\ claimed' = [claimed EXCEPT ![waiters[i]] = TRUE]
                  /\ timer' = [timer EXCEPT ![waiters[i]] = IF @ = "armed" THEN "off" ELSE @]
                  /\ posted' = [posted EXCEPT ![waiters[i]] = Append(@, mine[c])]
                  /\ pc' = [pc EXCEPT ![waiters[i]] = "posted", ![c] = "idle"]
                  /\ UNCHANGED assigned
             ELSE /\ assigned' = [assigned EXCEPT ![waiters[i]] = mine[c]]
                  /\ pc' = [pc EXCEPT ![c] = "idle"]
                  /\ UNCHANGED <<claimed, timer, posted>>
  BY Zenon DEF HandOver
<1>4. PICK w \in Callers : w = waiters[i] /\ w # c /\ pc[w] = "waiting" /\ assigned[w] = None
  BY <1>1, <1>2, ElementOfSeq, Zenon DEF Queued
<1>h. PICK h \in Holders : h = mine[c]
  BY <1>1, <1>2, Zenon DEF Phases, Phase, TypeOK
<1>5. Phase(w) /\ Phase(c) /\ \A d \in Callers : Phase(d)
  BY <1>2, <1>4, Zenon DEF Phases
<1>6. /\ h \in Holders /\ h # None /\ Held(c) = h /\ posted[c] = << >> /\ assigned[c] = None
      /\ made[c] = None /\ (timer[c] = "off" \/ claimed[c])
  BY <1>1, <1>2, <1>5, <1>h, NoneAssumption, Zenon DEF Phase, Held, TypeOK
<1>7. Held(w) = None /\ posted[w] = << >> /\ mine[w] = None /\ made[w] = None
  BY <1>4, <1>5, Zenon DEF Phase, Held
<1>8. mine'[c] = None /\ \A d \in Callers : d # c => mine'[d] = mine[d]
  BY <1>1, <1>2, Zenon DEF TypeOK
<1>9. SubQueue(waiters') /\ \A j \in 1 .. Len(waiters') : waiters'[j] # w
  <2>1. waiters' = After(i)
    BY <1>3, Zenon DEF After
  <2> QED
    BY <1>2, <1>4, <2>1, AfterQueue, Zenon
<1>10. \A j \in 1 .. Len(waiters') : waiters'[j] \in Callers /\ waiters'[j] # c
  <2> SUFFICES ASSUME NEW j \in 1 .. Len(waiters')
               PROVE  waiters'[j] \in Callers /\ waiters'[j] # c
    BY Zenon
  <2>1. waiters'[j] \in Callers
    BY <1>9, ElementOfSeq, Zenon DEF SubQueue
  <2>2. PICK k \in 1 .. Len(waiters) : waiters'[j] = waiters[k]
    BY <1>9, Zenon DEF SubQueue
  <2>3. pc[waiters[k]] = "waiting"
    BY <1>2, Zenon DEF Queued
  <2> QED
    BY <1>1, <2>1, <2>2, <2>3
<1>11. /\ Phase(c)' /\ Phase(w)' /\ Held(c)' = None /\ Held(w)' = h
       /\ \A d \in Callers : d # c /\ d # w => Same(d)
       /\ pc' \in [Callers -> {"idle", "creating", "created", "waiting", "posted",
                               "using", "reset"}]
       /\ assigned' \in [Callers -> Holders \cup {None}]
       /\ claimed' \in [Callers -> BOOLEAN] /\ timer' \in [Callers -> {"off", "armed", "fired"}]
       /\ posted' \in [Callers -> Seq(Holders \cup {None})]
  <2>1. CASE IsAsync(w)
    <3>1. /\ claimed' = [claimed EXCEPT ![w] = TRUE]
          /\ timer' = [timer EXCEPT ![w] = IF timer[w] = "armed" THEN "off" ELSE timer[w]]
          /\ posted' = [posted EXCEPT ![w] = Append(posted[w], h)]
          /\ pc' = [pc EXCEPT ![w] = "posted", ![c] = "idle"]
          /\ assigned' = assigned
      BY <1>3, <1>4, <1>h, <2>1, Zenon
    <3>0. assigned' = assigned
      BY <3>1, Zenon
    <3>2. Append(posted[w], h) = <<h>> /\ <<h>> \in Seq(Holders \cup {None})
      BY <1>6, <1>7
    <3>3. posted' = [posted EXCEPT ![w] = <<h>>]
      BY <3>1, <3>2, Zenon
    <3>4. posted'[w] = <<h>> /\ \A d \in Callers : d # w => posted'[d] = posted[d]
      BY <1>2, <1>4, <3>3, Zenon DEF TypeOK
    <3>5. pc'[w] = "posted" /\ pc'[c] = "idle" /\ \A d \in Callers : d # w /\ d # c => pc'[d] = pc[d]
      BY <1>2, <1>4, <3>1, Zenon DEF TypeOK
    <3>6. claimed'[w] = TRUE /\ \A d \in Callers : d # w => claimed'[d] = claimed[d]
      BY <1>2, <1>4, <3>1, Zenon DEF TypeOK
    <3>7. \A d \in Callers : d # w => timer'[d] = timer[d]
      BY <1>2, <1>4, <3>1, Zenon DEF TypeOK
    <3>8. \A d \in Callers : d # c /\ d # w => Same(d)
      BY <1>1, <1>8, <3>0, <3>4, <3>5, <3>6, <3>7, Zenon DEF Same
    <3>9. Phase(c)'
      BY <1>1, <1>4, <1>6, <1>8, <3>0, <3>4, <3>5, <3>6, <3>7, Zenon DEF Phase
    <3>10. Phase(w)'
      BY <1>1, <1>4, <1>6, <1>7, <1>8, <3>0, <3>4, <3>5, <3>6, Zenon DEF Phase
    <3>11. Held(c)' = None /\ Held(w)' = h
      BY <3>4, <3>5 DEF Held
    <3>12. /\ pc' \in [Callers -> {"idle", "creating", "created", "waiting", "posted",
                                   "using", "reset"}]
           /\ assigned' \in [Callers -> Holders \cup {None}]
           /\ claimed' \in [Callers -> BOOLEAN] /\ timer' \in [Callers -> {"off", "armed", "fired"}]
      BY <1>2, <1>4, <3>1, Zenon DEF TypeOK
    <3>13. posted' \in [Callers -> Seq(Holders \cup {None})]
      BY <1>2, <1>4, <3>2, <3>3, Zenon DEF TypeOK
    <3> QED
      BY <3>8, <3>9, <3>10, <3>11, <3>12, <3>13, Zenon
  <2>2. CASE ~IsAsync(w)
    <3>1. /\ assigned' = [assigned EXCEPT ![w] = h] /\ pc' = [pc EXCEPT ![c] = "idle"]
          /\ claimed' = claimed /\ timer' = timer /\ posted' = posted
      BY <1>3, <1>4, <1>h, <2>2, Zenon
    <3>2. assigned'[w] = h /\ \A d \in Callers : d # w => assigned'[d] = assigned[d]
      BY <1>2, <1>4, <3>1, Zenon DEF TypeOK
    <3>3. pc'[c] = "idle" /\ \A d \in Callers : d # c => pc'[d] = pc[d]
      BY <1>2, <3>1, Zenon DEF TypeOK
    <3>4. \A d \in Callers : d # c /\ d # w => Same(d)
      BY <1>1, <1>8, <3>1, <3>2, <3>3, Zenon DEF Same
    <3>5. Phase(c)'
      BY <1>1, <1>4, <1>6, <1>8, <3>1, <3>2, <3>3, Zenon DEF Phase
    <3>6. Phase(w)'
      BY <1>1, <1>4, <1>5, <1>7, <1>8, <2>2, <3>1, <3>3, Zenon DEF Phase, IsAsync
    <3>7. Held(c)' = None /\ Held(w)' = h
      BY <1>4, <3>2, <3>3, Zenon DEF Held
    <3>8. /\ pc' \in [Callers -> {"idle", "creating", "created", "waiting", "posted",
                                  "using", "reset"}]
          /\ assigned' \in [Callers -> Holders \cup {None}]
          /\ claimed' \in [Callers -> BOOLEAN] /\ timer' \in [Callers -> {"off", "armed", "fired"}]
          /\ posted' \in [Callers -> Seq(Holders \cup {None})]
      BY <1>2, <1>4, <1>6, <3>1, Zenon DEF TypeOK
    <3> QED
      BY <3>4, <3>5, <3>6, <3>7, <3>8, Zenon
  <2> QED
    BY <2>1, <2>2, Zenon
<1>12. \A d \in Callers : d # c /\ d # w => Phase(d)' /\ Held(d)' = Held(d)
  BY <1>5, <1>11, SameKept, Zenon
<1>13. Phases'
  <2>1. Phase(c)' /\ Phase(w)'
    BY <1>11, Zenon
  <2>2. \A d \in Callers : d # c /\ d # w => Phase(d)'
    BY <1>12, Zenon
  <2> QED
    BY <2>1, <2>2, Zenon DEF Phases
<1>14. TypeOK'
  <2>1. mine' \in [Callers -> Holders \cup {None}] /\ waiters' \in Seq(Callers)
    BY <1>1, <1>2, <1>9, Zenon DEF TypeOK, SubQueue
  <2> QED
    BY <1>1, <1>2, <1>11, <2>1, Zenon DEF TypeOK
<1>15. Queued'
  BY <1>1, <1>2, <1>9, <1>10, <1>11, QueueKept, Zenon DEF Same
<1>16. Exclusive' /\ Accounted'
  BY <1>1, <1>2, <1>4, <1>6, <1>7, <1>11, <1>12, HandsOver, Zenon DEF PoolInv
<1> QED
  BY <1>13, <1>14, <1>15, <1>16, Zenon DEF PoolInv, Phases

LEMMA SetShutdownInv ==
    ASSUME PoolInv, SetShutdown
    PROVE  PoolInv'
<1>1. /\ spc = "idle" /\ shutdown' = TRUE /\ spc' = "clear"
      /\ UNCHANGED <<mode, holders, free, waiters, created, pc, made, assigned, asyncVars, mine>>
  BY Zenon DEF SetShutdown
<1>2. TypeOK'
  BY <1>1, Zenon DEF PoolInv, TypeOK, asyncVars
<1>3. \A c \in Callers : Same(c)
  BY <1>1, Zenon DEF Same, asyncVars
<1>4. \A c \in Callers : Phase(c)' /\ Held(c)' = Held(c)
  BY <1>3, SameKept, Zenon DEF PoolInv
<1>5. Queued'
  BY <1>1, Zenon DEF PoolInv, Queued, IsAsync, asyncVars
<1>6. Exclusive'
  BY <1>1, <1>4, Zenon DEF PoolInv, Exclusive
<1>7. Accounted'
  BY <1>1, <1>4, Zenon DEF PoolInv, Accounted
<1> QED
  BY <1>2, <1>4, <1>5, <1>6, <1>7, Zenon DEF PoolInv

(* The waiters that are aborted are those that nobody has completed. *)
LEMMA ClearInv ==
    ASSUME PoolInv, Clear
    PROVE  PoolInv'
<1> DEFINE aborted == {c \in Range(waiters) : IsAsync(c) /\ ~claimed[c]}
<1>1. /\ spc = "clear" /\ spc' = "done" /\ waiters' = << >> /\ free' = << >> /\ holders' = {}
      /\ UNCHANGED <<mode, shutdown, created, made, assigned, mine>>
  BY Zenon DEF Clear
<1>2. /\ claimed' = [c \in Callers |-> claimed[c] \/ c \in aborted]
      /\ timer' = [c \in Callers |->
                       IF c \in aborted /\ timer[c] = "armed" THEN "off" ELSE timer[c]]
      /\ posted' = [c \in Callers |->
                        IF c \in aborted THEN Append(posted[c], None) ELSE posted[c]]
      /\ pc' = [c \in Callers |-> IF c \in aborted THEN "posted" ELSE pc[c]]
  BY Zenon DEF Clear
<1>3. TypeOK /\ (\A c \in Callers : Phase(c)) /\ Queued
  BY Zenon DEF PoolInv
<1>4. ASSUME NEW c \in aborted
      PROVE  /\ pc[c] = "waiting" /\ assigned[c] = None /\ IsAsync(c)
             /\ c \in Callers
    <2>1. PICK i \in DOMAIN waiters : c = waiters[i]
      BY Zenon DEF Range
    <2>2. i \in 1 .. Len(waiters)
      BY <1>3, <2>1, LenProperties, Zenon DEF TypeOK
    <2> QED
      BY <1>3, <2>1, <2>2, ElementOfSeq, Zenon DEF Queued, TypeOK
<1> HIDE DEF aborted
<1>5. ASSUME NEW c \in Callers, c \in aborted
      PROVE  /\ Phase(c)' /\ Held(c)' = Held(c)
             /\ posted'[c] \in Seq(Holders \cup {None})
  <2>1. /\ pc[c] = "waiting" /\ assigned[c] = None /\ IsAsync(c) /\ Phase(c)
        /\ posted[c] = << >> /\ mine[c] = None /\ made[c] = None
    BY <1>3, <1>4, <1>5, Zenon DEF Phase
  <2>2. claimed'[c] /\ pc'[c] = "posted"
    <3>1. claimed'[c] = (claimed[c] \/ c \in aborted)
      BY <1>2, Zenon
    <3>2. pc'[c] = "posted"
      BY <1>2, <1>5, Zenon
    <3>3. claimed'[c]
      BY <1>5, <3>1, Zenon
    <3> QED
      BY <3>2, <3>3, Zenon
  <2>3. posted'[c] = Append(posted[c], None)
    BY <1>2, <1>5, Zenon
  <2>4. Append(posted[c], None) = <<None>> /\ <<None>> \in Seq(Holders \cup {None})
    BY <2>1
  <2>5. posted'[c] = <<None>>
    BY <2>3, <2>4, Zenon
  <2>6. Phase(c)'
    BY <1>1, <2>1, <2>2, <2>5, Zenon DEF Phase
  <2>7. Held(c)' = None /\ Held(c) = None
    BY <2>1, <2>2, <2>5 DEF Held
  <2> QED
    BY <2>4, <2>5, <2>6, <2>7, Zenon
<1>6. ASSUME NEW c \in Callers, c \notin aborted
      PROVE  /\ Phase(c)' /\ Held(c)' = Held(c)
             /\ posted'[c] \in Seq(Holders \cup {None})
  <2>1. claimed'[c] = claimed[c]
    BY <1>2, <1>3, <1>6, Zenon DEF TypeOK
  <2>2. timer'[c] = timer[c] /\ posted'[c] = posted[c] /\ pc'[c] = pc[c]
    BY <1>2, <1>6, Zenon
  <2>3. Same(c)
    BY <1>1, <2>1, <2>2, Zenon DEF Same
  <2> QED
    BY <1>3, <2>2, <2>3, SameKept, Zenon DEF TypeOK
<1>7. \A c \in Callers : Phase(c)' /\ Held(c)' = Held(c)
  BY <1>5, <1>6, Zenon
<1>8. TypeOK'
  <2>1. posted' \in [Callers -> Seq(Holders \cup {None})]
    <3>1. \A c \in Callers : posted'[c] \in Seq(Holders \cup {None})
      BY <1>5, <1>6, Zenon
    <3>2. posted' = [c \in Callers |-> posted'[c]]
      BY <1>2, Zenon
    <3> QED
      BY <3>1, <3>2, Zenon
  <2>2. claimed' \in [Callers -> BOOLEAN]
    BY <1>2, <1>3, Zenon DEF TypeOK
  <2>3. /\ timer' \in [Callers -> {"off", "armed", "fired"}]
        /\ pc' \in [Callers -> {"idle", "creating", "created", "waiting", "posted",
                                "using", "reset"}]
    BY <1>2, <1>3, Zenon DEF TypeOK
  <2>4. waiters' \in Seq(Callers) /\ free' \in Seq(Holders)
    BY <1>1, EmptySeq, Zenon
  <2> QED
    BY <1>1, <1>3, <2>1, <2>2, <2>3, <2>4, Zenon DEF TypeOK
<1>9. Queued'
  BY <1>1 DEF Queued
<1>10. Exclusive'
  BY <1>1, <1>7 DEF PoolInv, Exclusive
<1>11. Accounted'
  BY <1>1, Zenon DEF PoolInv, Accounted
<1> QED
  BY <1>7, <1>8, <1>9, <1>10, <1>11, Zenon DEF PoolInv

-----------------------------------------------------------------------------
(* The holders that the constructor creates are all in the free list, once. *)
LEMMA FirstFree ==
    ASSUME NEW S, IsFiniteSet(S), NEW f \in Bijection(1 .. Cardinality(S), S)
    PROVE  /\ f \in Seq(S)
           /\ \A i, j \in 1 .. Len(f) : f[i] = f[j] => i = j
           /\ \A x \in S : \E i \in 1 .. Len(f) : f[i] = x
<1>1. PICK n \in Nat : n = Cardinality(S)
  BY FS_CardinalityType, Zenon
<1>2. f \in [1 .. n -> S] /\ IsInjective(f) /\ \A x \in S : \E i \in 1 .. n : f[i] = x
  BY <1>1, Zenon DEF Bijection, Injection, Surjection
<1>3. f \in Seq(S) /\ Len(f) = n /\ DOMAIN f = 1 .. n
  BY <1>2, IsASeq
<1> QED
  BY <1>2, <1>3, Zenon DEF IsInjective

LEMMA InitPoolInv == Init => PoolInv
<1> SUFFICES ASSUME Init PROVE PoolInv
  BY Zenon
<1>1. PICK first \in SUBSET Holders :
          holders = first /\ created = Cardinality(first) /\ free \in Bijection(1 .. Cardinality(first), first)
  BY Zenon DEF Init
<1>2. /\ mode \in ModeChoices /\ shutdown = FALSE /\ waiters = << >> /\ spc = "idle"
      /\ pc = [c \in Callers |-> "idle"] /\ made = [c \in Callers |-> None]
      /\ assigned = [c \in Callers |-> None] /\ claimed = [c \in Callers |-> FALSE]
      /\ timer = [c \in Callers |-> "off"] /\ posted = [c \in Callers |-> << >>]
      /\ mine = [c \in Callers |-> None]
  BY Zenon DEF Init
<1>3. IsFiniteSet(first) /\ created \in Nat
  BY <1>1, HoldersAssumption, FS_Subset, FS_CardinalityType, Zenon
<1>4. /\ free \in Seq(first)
      /\ \A i, j \in 1 .. Len(free) : free[i] = free[j] => i = j
      /\ \A h \in holders : \E i \in 1 .. Len(free) : free[i] = h
  BY <1>1, <1>3, FirstFree
<1>5. free \in Seq(Holders) /\ \A i \in 1 .. Len(free) : free[i] \in holders
  BY <1>1, <1>4, ElementOfSeq, SeqMonotonic, Zenon
<1>6. TypeOK
  <2>1. waiters \in Seq(Callers) /\ posted \in [Callers -> Seq(Holders \cup {None})]
    BY <1>2, EmptySeq, Zenon
  <2>2. claimed \in [Callers -> BOOLEAN]
    BY <1>2, Zenon
  <2>3. /\ made \in [Callers -> Holders \cup {None}]
        /\ assigned \in [Callers -> Holders \cup {None}]
        /\ mine \in [Callers -> Holders \cup {None}]
    BY <1>2, Zenon
  <2>4. /\ pc \in [Callers -> {"idle", "creating", "created", "waiting", "posted",
                               "using", "reset"}]
        /\ timer \in [Callers -> {"off", "armed", "fired"}]
    BY <1>2, Zenon
  <2>5. mode \in ModeChoices /\ shutdown \in BOOLEAN /\ spc \in {"idle", "clear", "done"}
    BY <1>2, Zenon
  <2>6. holders \subseteq Holders
    BY <1>1, Zenon
  <2> QED
    BY <1>3, <1>5, <2>1, <2>2, <2>3, <2>4, <2>5, <2>6, Zenon DEF TypeOK
<1>7. \A c \in Callers : Phase(c)
  BY <1>2, Zenon DEF Phase
<1>8. \A c \in Callers : Held(c) = None
  BY <1>2, Zenon DEF Held
<1>9. Queued
  BY <1>2 DEF Queued
<1>10. Exclusive
  <2>1. None \notin holders
    BY <1>1, NoneAssumption, Zenon
  <2> QED
    BY <1>2, <1>4, <1>5, <1>8, <2>1 DEF Exclusive
<1>11. Accounted
  BY <1>1, <1>2, <1>4, <1>8, Zenon DEF Accounted
<1> QED
  BY <1>6, <1>7, <1>9, <1>10, <1>11, Zenon DEF PoolInv

LEMMA NextPoolInv == PoolInv /\ [Next]_vars => PoolInv'
<1> SUFFICES ASSUME PoolInv, [Next]_vars PROVE PoolInv'
  BY Zenon
<1>1. ASSUME NEW c \in Callers, Refuse(c) \/ TakeFree(c) \/ StartCreate(c) \/ Exhausted(c)
      PROVE  PoolInv'
  BY <1>1, RefuseInv, TakeFreeInv, CreateInv, GiveUpOrQueueInv, Zenon
<1>2. ASSUME NEW c \in Callers, Acquiring(c)
      PROVE  PoolInv'
  BY <1>2, CreateInv, RegisterInv, RefuseInv, GiveUpOrQueueInv, Zenon DEF Acquiring
<1>3. ASSUME NEW c \in Callers, Waiting(c) \/ Expire(c)
      PROVE  PoolInv'
  BY <1>3, WakeReadyInv, WakeEmptyInv, TimeoutInv, CompleteInv, ExpireInv, Zenon DEF Waiting
<1>4. ASSUME NEW c \in Callers,
             \/ Release(c) \/ ReturnAfterShutdown(c)
             \/ HandOver(c) \/ ReturnFree(c) \/ DropDead(c)
      PROVE  PoolInv'
  BY <1>4, ReleaseInv, HandOverInv, ReturnFreeInv, DropDeadInv, Zenon
<1>5. CASE UNCHANGED vars
  <2>1. \A c \in Callers : Same(c)
    BY <1>5, Zenon DEF vars, poolVars, asyncVars, Same
  <2>2. \A c \in Callers : Phase(c)' /\ Held(c)' = Held(c)
    BY <2>1, SameKept, Zenon DEF PoolInv
  <2>3. Exclusive' /\ Accounted'
    BY <1>5, <2>2, NothingMoves, Zenon DEF vars, poolVars, PoolInv
  <2>4. TypeOK' /\ Queued'
    BY <1>5, Zenon DEF vars, poolVars, asyncVars, PoolInv, TypeOK, Queued, IsAsync
  <2> QED
    BY <2>2, <2>3, <2>4, Zenon DEF PoolInv
<1> QED
  BY <1>1, <1>2, <1>3, <1>4, <1>5, SetShutdownInv, ClearInv, Zenon DEF Next

LEMMA PoolInvariant == Spec => []PoolInv
BY InitPoolInv, NextPoolInv, PTL DEF Spec

(* The handler of an asynchronous acquisition runs once, whoever wins the   *)
(* race between a release, its timer and shutdown(), for any number of      *)
(* callers, holders and any capacity.                                       *)
THEOREM WaiterCompletedOnce == Spec => []CompletedOnce
<1>1. PoolInv => CompletedOnce
  <2> SUFFICES ASSUME PoolInv, NEW c \in Callers
               PROVE  Len(posted[c]) <= 1 /\ (posted[c] # << >> => pc[c] = "posted")
    BY Zenon DEF CompletedOnce
  <2>1. CASE pc[c] = "posted"
    <3>1. PICK h \in Holders \cup {None} : posted[c] = <<h>>
      BY <2>1, Zenon DEF PoolInv, Phase
    <3> QED
      BY <2>1, <3>1
  <2>2. CASE pc[c] # "posted"
    <3>1. posted[c] = << >>
      BY <2>2, Zenon DEF PoolInv, Phase
    <3> QED
      BY <3>1
  <2> QED
    BY <2>1, <2>2, Zenon
<1> QED
  BY <1>1, PoolInvariant, PTL

(* No two callers share a connection, none leaks when timeouts, releases    *)
(* and failed creations race, and created_ is the number of holders.        *)
THEOREM PoolHoldersAccounted == Spec => []HoldersAccounted
<1>1. PoolInv => HoldersAccounted
  <2> SUFFICES ASSUME PoolInv PROVE HoldersAccounted
    BY Zenon
  <2>1. ASSUME NEW c \in Callers, NEW h \in Holders
        PROVE  With(c, h) <=> Held(c) = h
    <3>1. Phase(c) /\ h # None
      BY NoneAssumption, Zenon DEF PoolInv
    <3>2. CASE pc[c] = "posted"
      <4>1. PICK g \in Holders \cup {None} : posted[c] = <<g>>
        BY <3>1, <3>2, Zenon DEF Phase
      <4>2. Len(posted[c]) = 1 /\ posted[c][1] = g /\ Head(posted[c]) = g
        BY <4>1
      <4>3. Held(c) = g /\ assigned[c] = None
        BY <3>1, <3>2, <4>2, Zenon DEF Held, Phase
      <4>4. (\E i \in 1 .. Len(posted[c]) : posted[c][i] = h) <=> g = h
        BY <4>2
      <4> QED
        BY <3>1, <3>2, <4>3, <4>4, Zenon DEF With
    <3>3. CASE pc[c] # "posted"
      <4>1. posted[c] = << >>
        BY <3>1, <3>3, Zenon DEF Phase
      <4>2. ~\E i \in 1 .. Len(posted[c]) : posted[c][i] = h
        BY <4>1
      <4> QED
        BY <3>1, <3>3, <4>2, Zenon DEF With, Held, Phase
    <3> QED
      BY <3>2, <3>3, Zenon
  <2>2. ASSUME NEW h \in holders, NEW slots, slots = {i \in 1 .. Len(free) : free[i] = h},
               NEW users, users = {c \in Callers : With(c, h)}
        PROVE  /\ Cardinality(slots) + Cardinality(users) <= 1
               /\ ~shutdown => Cardinality(slots) + Cardinality(users) = 1
    <3>1. h \in Holders /\ h # None /\ users = {c \in Callers : Held(c) = h}
      BY <2>1, <2>2, NoneAssumption DEF PoolInv, TypeOK
    <3>2. Exclusive /\ Accounted
      BY Zenon DEF PoolInv
    <3>3. CASE \E i \in 1 .. Len(free) : free[i] = h
      <4>1. PICK i \in 1 .. Len(free) : free[i] = h
        BY <3>3, Zenon
      <4>2. slots = {i} /\ users = {}
        <5>1. \A j \in 1 .. Len(free) : free[j] = h => i = j
          BY <3>2, <4>1, Zenon DEF Exclusive
        <5>2. \A c \in Callers : Held(c) # h
          BY <3>2, <4>1, Zenon DEF Exclusive
        <5>3. slots = {i}
          BY <2>2, <4>1, <5>1, Zenon
        <5>4. users = {}
          BY <3>1, <5>2, Zenon
        <5> QED
          BY <5>3, <5>4, Zenon
      <4>3. Cardinality({i}) = 1
        BY FS_Singleton, Zenon
      <4>4. Cardinality(slots) = 1 /\ Cardinality(users) = 0
        BY <4>2, <4>3, FS_EmptySet, Zenon
      <4> QED
        BY <4>4
    <3>4. CASE /\ ~\E i \in 1 .. Len(free) : free[i] = h
               /\ \E c \in Callers : Held(c) = h
      <4>1. PICK c \in Callers : Held(c) = h
        BY <3>4, Zenon
      <4>2. slots = {} /\ users = {c}
        BY <2>2, <3>1, <3>2, <3>4, <4>1 DEF Exclusive
      <4>3. Cardinality({c}) = 1
        BY FS_Singleton, Zenon
      <4>4. Cardinality(slots) = 0 /\ Cardinality(users) = 1
        BY <4>2, <4>3, FS_EmptySet, Zenon
      <4> QED
        BY <4>4
    <3>5. CASE /\ ~\E i \in 1 .. Len(free) : free[i] = h
               /\ ~\E c \in Callers : Held(c) = h
      <4>1. slots = {} /\ users = {} /\ shutdown
        BY <2>2, <3>1, <3>2, <3>5, Zenon DEF Accounted
      <4>2. Cardinality(slots) = 0 /\ Cardinality(users) = 0
        BY <4>1, FS_EmptySet, Zenon
      <4> QED
        BY <4>1, <4>2
    <3> QED
      BY <3>3, <3>4, <3>5, Zenon
  <2>3. TypeOK /\ (spc # "done" => created = Cardinality(holders))
    BY Zenon DEF PoolInv, Accounted
  <2> QED
    BY <2>2, <2>3, Zenon DEF HoldersAccounted
<1> QED
  BY <1>1, PoolInvariant, PTL

-----------------------------------------------------------------------------
(* The lock-free pool.  Its slots are scanned with compare-and-set, the     *)
(* janitor replaces dead connections, and shutdown() retires the slots; the *)
(* invariant says who owns a slot in the meantime.                          *)

CONSTANTS Users, Capacity, MinConnections, Attempts

VARIABLES status, conn, hint, closing, upc, start, i, left, jpc, j, stop, closer, k, seen

LF == INSTANCE ConnectionPool WITH shutdown <- closing, spc <- closer

(* What PoolConfig::validate lets through. *)
Config ==
    /\ Capacity \in Nat /\ MinConnections \in Nat /\ LF!validate
    /\ Attempts \in Nat

(* shutdown_ is set only after the janitor was joined, and stays set.      *)
ClosingPhases ==
    /\ closing <=> closer \in {"load", "store", "done"}
    /\ closing => jpc = "stopped"

(* Until then a slot is USED exactly while one user holds it.              *)
Owned ==
    ~closing =>
        /\ \A s \in LF!Slots : status[s] = "USED" <=> \E u \in Users : LF!Holds(u, s)
        /\ \A u, v \in Users : \A s \in LF!Slots : LF!Holds(u, s) /\ LF!Holds(v, s) => u = v

(* The janitor closes the connection of a DEAD slot only.                  *)
Replacing == jpc = "replace" => status[j] = "DEAD"

(* FREE promises a connection to whoever takes the slot, also when shared  *)
(* slots are returned after a shutdown.                                    *)
Connectible ==
    /\ \A s \in LF!Slots : status[s] = "FREE" => conn[s] # "none"
    /\ \A u \in Users : upc[u] = "using" => conn[LF!Slot(u)] # "none"

SlotsInv == LF!TypeOK /\ ClosingPhases /\ Owned /\ Replacing /\ Connectible

-----------------------------------------------------------------------------
(* Type correctness. *)

LEMMA CapacityType ==
    ASSUME Config
    PROVE  Capacity \in Nat /\ Capacity > 0 /\ 0 \in LF!Slots
BY DEF Config, LF!validate, LF!Slots

LEMMA AttemptsType ==
    ASSUME Config
    PROVE  Attempts \in Nat
BY DEF Config

(* The masked index is one of a slot. *)
LEMMA IndexType ==
    ASSUME Config, NEW n \in Nat
    PROVE  n % Capacity \in LF!Slots
BY CapacityType DEF LF!Slots

LEMMA SlotType ==
    ASSUME Config, LF!TypeOK, NEW u \in Users
    PROVE  LF!Slot(u) \in LF!Slots
<1>1. start[u] + i[u] \in Nat
  BY DEF LF!TypeOK, LF!Slots
<1> QED
  BY <1>1, IndexType DEF LF!Slot

LEMMA InitSlotTypes ==
    ASSUME Config
    PROVE  LF!Init => LF!TypeOK
<1> SUFFICES ASSUME LF!Init PROVE LF!TypeOK
  OBVIOUS
<1>1. /\ status \in [LF!Slots -> {"FREE", "USED", "DEAD", "INACTIVE"}]
      /\ conn \in [LF!Slots -> {"none", "good", "lost", "bad"}]
  BY DEF LF!Init
<1>2. /\ hint = 0 /\ closing = FALSE
      /\ upc = [u \in Users |-> "idle"] /\ start = [u \in Users |-> 0]
      /\ i = [u \in Users |-> 0] /\ left = [u \in Users |-> 0]
      /\ jpc = "sleep" /\ j = 0 /\ stop = FALSE
      /\ closer = "idle" /\ k = 0 /\ seen = "INACTIVE"
  BY DEF LF!Init
<1>3. /\ upc \in [Users -> {"idle", "free", "inactive", "create", "missed", "using"}]
      /\ start \in [Users -> LF!Slots] /\ i \in [Users -> LF!Slots]
  BY <1>2, CapacityType
<1>4. left \in [Users -> 0 .. Attempts]
  BY <1>2, AttemptsType
<1> QED
  BY <1>1, <1>2, <1>3, <1>4, CapacityType, Zenon DEF LF!TypeOK

(* Advance keeps the scan within the slots. *)
LEMMA AdvanceType ==
    ASSUME Config, LF!TypeOK, NEW u \in Users, LF!Advance(u)
    PROVE  /\ i' \in [Users -> LF!Slots]
           /\ upc' \in [Users -> {"idle", "free", "inactive", "create", "missed", "using"}]
<1>1. CASE i[u] + 1 < Capacity
  <2>1. i[u] + 1 \in LF!Slots
    BY <1>1, CapacityType DEF LF!TypeOK, LF!Slots
  <2> QED
    BY <1>1, <2>1 DEF LF!TypeOK, LF!Advance
<1>2. CASE ~(i[u] + 1 < Capacity)
  BY <1>2, CapacityType DEF LF!TypeOK, LF!Advance
<1> QED
  BY <1>1, <1>2

LEMMA UserSlotTypes ==
    ASSUME Config, LF!TypeOK, NEW u \in Users,
           LF!Acquire(u) \/ LF!Scanning(u) \/ LF!Notice(u) \/ LF!Reset(u)
    PROVE  LF!TypeOK'
<1>s. LF!Slot(u) \in LF!Slots /\ (LF!Slot(u) + 1) % Capacity \in LF!Slots
  BY SlotType, IndexType DEF LF!Slots
<1> USE DEF LF!TypeOK, LF!janitorVars, LF!shutdownVars, LF!userVars
<1>1. CASE LF!Acquire(u)
  BY <1>1, AttemptsType, CapacityType DEF LF!Acquire
<1>2. CASE LF!TakeFree(u)
  BY <1>2, <1>s DEF LF!TakeFree
<1>3. CASE LF!TakeInactive(u)
  BY <1>3, <1>s DEF LF!TakeInactive
<1>4. CASE LF!Skip(u)
  BY <1>4, AdvanceType DEF LF!Skip
<1>5. CASE LF!Connected(u)
  BY <1>5, <1>s DEF LF!Connected
<1>6. CASE LF!NotConnected(u)
  BY <1>6, <1>s, AdvanceType DEF LF!NotConnected
<1>7. CASE LF!Missed(u)
  <2>1. CASE left[u] > 0 /\ ~closing
    <3>1. left[u] - 1 \in 0 .. Attempts
      BY <2>1, AttemptsType
    <3> QED
      BY <1>7, <2>1, <3>1, Zenon DEF LF!Missed
  <2>2. CASE ~(left[u] > 0 /\ ~closing)
    BY <1>7, <2>2, AttemptsType, CapacityType DEF LF!Missed, LF!Done
  <2> QED
    BY <2>1, <2>2
<1>8. CASE LF!Notice(u)
  BY <1>8, <1>s DEF LF!Notice
<1>9. CASE LF!Reset(u)
  <2>1. status' \in [LF!Slots -> {"FREE", "USED", "DEAD", "INACTIVE"}]
    BY <1>9, <1>s DEF LF!Reset
  <2> QED
    BY <1>9, <2>1, AttemptsType, CapacityType DEF LF!Reset, LF!Done
<1> QED
  BY <1>1, <1>2, <1>3, <1>4, <1>5, <1>6, <1>7, <1>8, <1>9 DEF LF!Scanning

LEMMA JanitorSlotTypes ==
    ASSUME Config, LF!TypeOK, LF!Janitor
    PROVE  LF!TypeOK'
<1>n. LF!NextSlot => j' \in LF!Slots /\ jpc' \in {"look", "sleep"}
  BY CapacityType DEF LF!TypeOK, LF!NextSlot, LF!Slots
<1> USE <1>n DEF LF!TypeOK, LF!janitorVars, LF!shutdownVars, LF!userVars
<1>1. CASE LF!Wake
  BY <1>1 DEF LF!Wake
<1>2. CASE LF!Look
  <2>1. j' \in LF!Slots /\ jpc' \in {"sleep", "look", "check", "replace"}
    BY <1>2, CapacityType DEF LF!Look
  <2> QED
    BY <1>2, <2>1 DEF LF!Look
<1>3. CASE LF!Check
  BY <1>3 DEF LF!Check
<1>4. CASE LF!MarkDead
  BY <1>4 DEF LF!MarkDead
<1>5. CASE LF!Replace
  BY <1>5 DEF LF!Replace
<1> QED
  BY <1>1, <1>2, <1>3, <1>4, <1>5 DEF LF!Janitor

LEMMA ShutdownSlotTypes ==
    ASSUME Config, LF!TypeOK, LF!StopJanitor \/ LF!Shutdown
    PROVE  LF!TypeOK'
<1> USE DEF LF!TypeOK, LF!janitorVars, LF!shutdownVars, LF!userVars
<1>1. CASE LF!StopJanitor
  BY <1>1 DEF LF!StopJanitor
<1>2. CASE LF!SetShutdown
  BY <1>2 DEF LF!SetShutdown
<1>3. CASE LF!LoadStatus
  BY <1>3 DEF LF!LoadStatus
<1>4. CASE LF!Retire
  BY <1>4, CapacityType DEF LF!Retire, LF!Slots
<1> QED
  BY <1>1, <1>2, <1>3, <1>4 DEF LF!Shutdown

-----------------------------------------------------------------------------
(* The inductive invariant. *)

LEMMA InitSlotsInv ==
    ASSUME Config
    PROVE  LF!Init => SlotsInv
<1> SUFFICES ASSUME LF!Init PROVE SlotsInv
  OBVIOUS
<1>1. /\ ~closing /\ closer = "idle" /\ jpc = "sleep"
      /\ upc = [u \in Users |-> "idle"]
  BY DEF LF!Init
<1>2. \A s \in LF!Slots : /\ status[s] # "USED"
                          /\ status[s] = "FREE" => conn[s] # "none"
  BY DEF Config, LF!Init, LF!Slots
<1> QED
  BY <1>1, <1>2, InitSlotTypes DEF SlotsInv, ClosingPhases, Owned, LF!Holds, Replacing, Connectible

(* A step of u leaves the scans of the other users alone. *)
Kept(u) ==
    \A v \in Users \ {u} : upc'[v] = upc[v] /\ LF!Slot(v)' = LF!Slot(v)

LEMMA UserKeeps ==
    ASSUME LF!TypeOK, NEW u \in Users,
           LF!Acquire(u) \/ LF!Scanning(u) \/ LF!Notice(u) \/ LF!Reset(u)
    PROVE  Kept(u)
<1>1. /\ upc' = [upc EXCEPT ![u] = upc'[u]]
      /\ start' = [start EXCEPT ![u] = start'[u]]
      /\ i' = [i EXCEPT ![u] = i'[u]]
  BY DEF LF!TypeOK, LF!Acquire, LF!Scanning, LF!TakeFree, LF!TakeInactive,
         LF!Skip, LF!Advance, LF!Connected,
         LF!NotConnected, LF!Missed, LF!Done, LF!Notice, LF!Reset, LF!userVars
<1> QED
  BY <1>1 DEF Kept, LF!TypeOK, LF!Slot

(* Scanning without a slot in hand disturbs nothing. *)
LEMMA ScanInv ==
    ASSUME SlotsInv, NEW u \in Users, Kept(u),
           UNCHANGED <<status, conn, closing, LF!janitorVars, LF!shutdownVars>>,
           upc[u] \notin {"create", "using"}, upc'[u] \notin {"create", "using"}
    PROVE  ClosingPhases' /\ Owned' /\ Replacing' /\ Connectible'
<1> USE DEF SlotsInv, LF!janitorVars, LF!shutdownVars
<1>1. \A v \in Users : \A s \in LF!Slots : LF!Holds(v, s)' <=> LF!Holds(v, s)
  BY DEF Kept, LF!Holds
<1>2. ClosingPhases' /\ Replacing'
  BY DEF ClosingPhases, Replacing
<1>3. Owned'
  BY <1>1 DEF Owned
<1>4. Connectible'
  BY DEF Connectible, Kept
<1> QED
  BY <1>2, <1>3, <1>4

(* A compare-and-set gives u a slot that nobody held ... *)
LEMMA TakeOwned ==
    ASSUME Config, SlotsInv, NEW u \in Users, Kept(u), UNCHANGED closing,
           upc[u] \notin {"create", "using"}, upc'[u] \in {"create", "using"},
           LF!Slot(u)' = LF!Slot(u), status[LF!Slot(u)] # "USED",
           status' = [status EXCEPT ![LF!Slot(u)] = "USED"]
    PROVE  Owned'
<1>1. LF!Slot(u) \in LF!Slots /\ LF!TypeOK
  BY SlotType DEF SlotsInv
<1>2. \A v \in Users \ {u} : \A s \in LF!Slots : LF!Holds(v, s)' <=> LF!Holds(v, s)
  BY DEF Kept, LF!Holds
<1>3. \A s \in LF!Slots : status'[s] = IF s = LF!Slot(u) THEN "USED" ELSE status[s]
  BY <1>1 DEF LF!TypeOK
<1>4. ~closing => \A v \in Users : ~LF!Holds(v, LF!Slot(u))
  BY <1>1 DEF SlotsInv, Owned
<1>5. \A s \in LF!Slots : ~LF!Holds(u, s) /\ (LF!Holds(u, s)' <=> s = LF!Slot(u))
  BY DEF LF!Holds
<1> QED
  BY <1>1, <1>2, <1>3, <1>4, <1>5 DEF SlotsInv, Owned

(* ... and a store by its holder gives it back. *)
LEMMA GiveOwned ==
    ASSUME Config, SlotsInv, NEW u \in Users, Kept(u), UNCHANGED closing,
           upc[u] \in {"create", "using"}, upc'[u] \notin {"create", "using"},
           NEW st \in {"FREE", "DEAD"},
           status' = [status EXCEPT ![LF!Slot(u)] = st]
    PROVE  Owned'
<1>1. LF!Slot(u) \in LF!Slots /\ LF!TypeOK
  BY SlotType DEF SlotsInv
<1>2. \A v \in Users \ {u} : \A s \in LF!Slots : LF!Holds(v, s)' <=> LF!Holds(v, s)
  BY DEF Kept, LF!Holds
<1>3. \A s \in LF!Slots : status'[s] = IF s = LF!Slot(u) THEN st ELSE status[s]
  BY <1>1 DEF LF!TypeOK
<1>4. \A s \in LF!Slots : ~LF!Holds(u, s)' /\ (LF!Holds(u, s) <=> s = LF!Slot(u))
  BY DEF LF!Holds
<1>5. ~closing => \A v \in Users \ {u} : ~LF!Holds(v, LF!Slot(u))
  BY <1>1, <1>4 DEF SlotsInv, Owned
<1> QED
  BY <1>1, <1>2, <1>3, <1>4, <1>5 DEF SlotsInv, Owned

LEMMA UserInv ==
    ASSUME Config, SlotsInv, NEW u \in Users,
           LF!Acquire(u) \/ LF!Scanning(u) \/ LF!Notice(u) \/ LF!Reset(u)
    PROVE  SlotsInv'
<1>t. LF!TypeOK /\ LF!TypeOK' /\ Kept(u) /\ LF!Slot(u) \in LF!Slots
  BY UserSlotTypes, UserKeeps, SlotType DEF SlotsInv
<1> USE <1>t DEF LF!TypeOK, LF!janitorVars, LF!shutdownVars, LF!userVars
<1>1. CASE LF!Acquire(u)
  BY <1>1, ScanInv DEF LF!Acquire, SlotsInv
<1>2. CASE LF!TakeFree(u)
  <2>1. LF!Slot(u)' = LF!Slot(u) /\ upc'[u] = "using"
    BY <1>2 DEF LF!TakeFree, LF!Slot
  <2>2. ClosingPhases' /\ Replacing'
    BY <1>2 DEF LF!TakeFree, SlotsInv, ClosingPhases, Replacing
  <2>3. Owned'
    BY <1>2, <2>1, TakeOwned, Zenon DEF LF!TakeFree
  <2>4. Connectible'
    <3>1. conn' = conn /\ conn[LF!Slot(u)] # "none"
      BY <1>2, Zenon DEF LF!TakeFree, SlotsInv, Connectible
    <3>2. \A s \in LF!Slots : status'[s] = "FREE" => status[s] = "FREE"
      BY <1>2 DEF LF!TakeFree
    <3> QED
      BY <2>1, <3>1, <3>2 DEF SlotsInv, Connectible, Kept
  <2> QED
    BY <2>2, <2>3, <2>4 DEF SlotsInv
<1>3. CASE LF!TakeInactive(u)
  <2>1. LF!Slot(u)' = LF!Slot(u) /\ upc'[u] = "create"
    BY <1>3 DEF LF!TakeInactive, LF!Slot
  <2>2. ClosingPhases' /\ Replacing'
    BY <1>3 DEF LF!TakeInactive, SlotsInv, ClosingPhases, Replacing
  <2>3. Owned'
    BY <1>3, <2>1, TakeOwned, Zenon DEF LF!TakeInactive
  <2>4. Connectible'
    BY <1>3, <2>1 DEF LF!TakeInactive, SlotsInv, Connectible, Kept
  <2> QED
    BY <2>2, <2>3, <2>4 DEF SlotsInv
<1>4. CASE LF!Skip(u)
  <2>1. upc[u] \notin {"create", "using"} /\ upc'[u] \notin {"create", "using"}
    BY <1>4 DEF LF!Skip, LF!Advance
  <2> QED
    BY <1>4, <2>1, ScanInv DEF LF!Skip, SlotsInv
<1>5. CASE LF!Connected(u)
  <2>1. LF!Slot(u)' = LF!Slot(u) /\ upc[u] = "create" /\ upc'[u] = "using"
    BY <1>5 DEF LF!Connected, LF!Slot
  <2>2. ClosingPhases' /\ Replacing'
    BY <1>5 DEF LF!Connected, SlotsInv, ClosingPhases, Replacing
  <2>3. Owned'
    <3>1. \A v \in Users : \A s \in LF!Slots : LF!Holds(v, s)' <=> LF!Holds(v, s)
      BY <2>1 DEF Kept, LF!Holds
    <3> QED
      BY <1>5, <3>1 DEF LF!Connected, SlotsInv, Owned
  <2>4. Connectible'
    BY <1>5, <2>1 DEF LF!Connected, SlotsInv, Connectible, Kept
  <2> QED
    BY <2>2, <2>3, <2>4 DEF SlotsInv
<1>6. CASE LF!NotConnected(u)
  <2>1. upc[u] = "create" /\ upc'[u] \in {"inactive", "missed"}
    BY <1>6 DEF LF!NotConnected, LF!Advance
  <2>2. ClosingPhases' /\ Replacing'
    BY <1>6 DEF LF!NotConnected, SlotsInv, ClosingPhases, Replacing
  <2>3. Owned'
    BY <1>6, <2>1, GiveOwned, Zenon DEF LF!NotConnected
  <2>4. Connectible'
    BY <1>6, <2>1 DEF LF!NotConnected, SlotsInv, Connectible, Kept
  <2> QED
    BY <2>2, <2>3, <2>4 DEF SlotsInv
<1>7. CASE LF!Missed(u)
  <2>1. upc[u] = "missed" /\ upc'[u] \in {"free", "idle"}
    BY <1>7 DEF LF!Missed, LF!Done
  <2> QED
    BY <1>7, <2>1, ScanInv DEF LF!Missed, SlotsInv
<1>8. CASE LF!Notice(u)
  <2>1. LF!Slot(u)' = LF!Slot(u) /\ upc' = upc
    BY <1>8 DEF LF!Notice, LF!Slot
  <2>2. ClosingPhases' /\ Replacing'
    BY <1>8 DEF LF!Notice, SlotsInv, ClosingPhases, Replacing
  <2>3. Owned'
    <3>1. \A v \in Users : \A s \in LF!Slots : LF!Holds(v, s)' <=> LF!Holds(v, s)
      BY <2>1 DEF Kept, LF!Holds
    <3> QED
      BY <1>8, <3>1 DEF LF!Notice, SlotsInv, Owned
  <2>4. Connectible'
    BY <1>8, <2>1 DEF LF!Notice, SlotsInv, Connectible, Kept
  <2> QED
    BY <2>2, <2>3, <2>4 DEF SlotsInv
<1>9. CASE LF!Reset(u)
  <2>1. upc[u] = "using" /\ upc'[u] = "idle"
    BY <1>9 DEF LF!Reset, LF!Done
  <2>p. PICK st \in {"FREE", "DEAD"} : status' = [status EXCEPT ![LF!Slot(u)] = st]
    BY <1>9 DEF LF!Reset
  <2>2. ClosingPhases' /\ Replacing'
    <3>1. jpc = "replace" => ~closing /\ status[LF!Slot(u)] = "USED"
      BY <2>1 DEF SlotsInv, ClosingPhases, Owned, LF!Holds
    <3> QED
      BY <1>9, <2>p, <3>1 DEF LF!Reset, SlotsInv, ClosingPhases, Replacing
  <2>3. Owned'
    BY <1>9, <2>1, <2>p, GiveOwned, Zenon DEF LF!Reset
  <2>4. Connectible'
    BY <1>9, <2>1, <2>p DEF LF!Reset, SlotsInv, Connectible, Kept
  <2> QED
    BY <2>2, <2>3, <2>4 DEF SlotsInv
<1> QED
  BY <1>1, <1>2, <1>3, <1>4, <1>5, <1>6, <1>7, <1>8, <1>9 DEF LF!Scanning

(* The other actors leave the users' scans alone. *)
LEMMA ScansKept ==
    ASSUME LF!TypeOK, UNCHANGED LF!userVars
    PROVE  /\ upc' = upc
           /\ \A v \in Users : LF!Slot(v)' = LF!Slot(v)
           /\ \A v \in Users : \A s \in LF!Slots : LF!Holds(v, s)' <=> LF!Holds(v, s)
BY DEF LF!userVars, LF!Slot, LF!Holds

LEMMA LoseInv ==
    ASSUME Config, SlotsInv, NEW s \in LF!Slots, LF!Lose(s)
    PROVE  SlotsInv'
<1> USE DEF SlotsInv, LF!janitorVars, LF!shutdownVars
<1>1. LF!TypeOK'
  BY DEF LF!Lose, LF!TypeOK, LF!userVars
<1>2. ClosingPhases' /\ Replacing'
  BY DEF LF!Lose, ClosingPhases, Replacing
<1>3. Owned'
  BY ScansKept DEF LF!Lose, Owned
<1>4. Connectible'
  <2>1. \A t \in LF!Slots : conn'[t] = "none" => conn[t] = "none"
    BY DEF LF!Lose, LF!TypeOK
  <2> QED
    BY <2>1, ScansKept, SlotType DEF LF!Lose, Connectible
<1> QED
  BY <1>1, <1>2, <1>3, <1>4

LEMMA JanitorInv ==
    ASSUME Config, SlotsInv, LF!Janitor
    PROVE  SlotsInv'
<1>t. LF!TypeOK /\ LF!TypeOK'
  BY JanitorSlotTypes DEF SlotsInv
<1>a. ~closing \/ LF!Wake
  BY DEF LF!Janitor, LF!Look, LF!Check, LF!MarkDead, LF!Replace, SlotsInv, ClosingPhases
<1>n. LF!NextSlot => jpc' \notin {"replace", "stopped"}
  BY DEF LF!NextSlot
<1> USE <1>t DEF LF!TypeOK, SlotsInv, LF!shutdownVars
<1>1. CASE LF!Wake
  <2>1. ClosingPhases' /\ Replacing'
    BY <1>1 DEF LF!Wake, ClosingPhases, Replacing
  <2>2. Owned' /\ Connectible'
    BY <1>1, ScansKept DEF LF!Wake, Owned, Connectible
  <2> QED
    BY <2>1, <2>2
<1>2. CASE LF!Look
  <2>1. ClosingPhases' /\ Replacing'
    BY <1>2, <1>a, <1>n DEF LF!Look, LF!Wake, ClosingPhases, Replacing
  <2>2. Owned' /\ Connectible'
    BY <1>2, ScansKept DEF LF!Look, Owned, Connectible
  <2> QED
    BY <2>1, <2>2
<1>3. CASE LF!Check
  <2>1. ClosingPhases' /\ Replacing'
    BY <1>3, <1>a, <1>n DEF LF!Check, LF!Wake, ClosingPhases, Replacing
  <2>2. Owned' /\ Connectible'
    BY <1>3, ScansKept DEF LF!Check, Owned, Connectible
  <2> QED
    BY <2>1, <2>2
<1>4. CASE LF!MarkDead
  <2>0. ~closing /\ UNCHANGED <<closing, conn, LF!userVars, closer>>
    BY <1>4, <1>a DEF LF!MarkDead, LF!Wake
  <2>1. ClosingPhases' /\ Replacing'
    BY <1>4, <2>0, <1>n DEF LF!MarkDead, ClosingPhases, Replacing
  <2>2. \A s \in LF!Slots : /\ status'[s] = "FREE" => status[s] = "FREE"
                            /\ status'[s] = "USED" <=> status[s] = "USED"
    BY <1>4 DEF LF!MarkDead
  <2>3. Owned'
    BY <2>0, <2>2, ScansKept DEF Owned
  <2>4. Connectible'
    BY <2>0, <2>2, ScansKept DEF Connectible
  <2> QED
    BY <2>1, <2>3, <2>4
<1>5. CASE LF!Replace
  <2>0. ~closing /\ UNCHANGED <<closing, LF!userVars, closer>> /\ status[j] = "DEAD"
    BY <1>5, <1>a DEF LF!Replace, LF!Wake, Replacing
  <2>1. ClosingPhases' /\ Replacing'
    BY <1>5, <2>0, <1>n DEF LF!Replace, ClosingPhases, Replacing
  <2>2. /\ status'[j] \in {"FREE", "INACTIVE"}
        /\ status'[j] = "FREE" => conn'[j] # "none"
        /\ \A s \in LF!Slots \ {j} : status'[s] = status[s] /\ conn'[s] = conn[s]
    BY <1>5 DEF LF!Replace
  <2>3. Owned'
    <3>1. \A s \in LF!Slots : status'[s] = "USED" <=> status[s] = "USED"
      BY <2>0, <2>2
    <3> QED
      BY <2>0, <3>1, ScansKept DEF Owned
  <2>4. Connectible'
    <3>1. \A u \in Users : upc[u] = "using" => LF!Slot(u) \in LF!Slots /\ LF!Slot(u) # j
      BY <2>0, SlotType DEF Owned, LF!Holds
    <3> QED
      BY <2>0, <2>2, <3>1, ScansKept DEF Connectible
  <2> QED
    BY <2>1, <2>3, <2>4
<1> QED
  BY <1>1, <1>2, <1>3, <1>4, <1>5 DEF LF!Janitor

LEMMA RetireInv ==
    ASSUME Config, SlotsInv, LF!StopJanitor \/ LF!Shutdown
    PROVE  SlotsInv'
<1>t. LF!TypeOK /\ LF!TypeOK'
  BY ShutdownSlotTypes DEF SlotsInv
<1> USE <1>t DEF LF!TypeOK, SlotsInv, LF!janitorVars
<1>1. CASE LF!StopJanitor
  <2>1. ClosingPhases' /\ Replacing'
    BY <1>1 DEF LF!StopJanitor, ClosingPhases, Replacing
  <2>2. Owned' /\ Connectible'
    BY <1>1, ScansKept DEF LF!StopJanitor, Owned, Connectible
  <2> QED
    BY <2>1, <2>2
<1>2. CASE LF!SetShutdown
  <2>1. ClosingPhases' /\ Replacing' /\ Owned'
    BY <1>2 DEF LF!SetShutdown, ClosingPhases, Replacing, Owned
  <2>2. Connectible'
    BY <1>2, ScansKept DEF LF!SetShutdown, Connectible
  <2> QED
    BY <2>1, <2>2
<1>3. CASE LF!LoadStatus
  <2>1. ClosingPhases' /\ Replacing'
    BY <1>3 DEF LF!LoadStatus, ClosingPhases, Replacing
  <2>2. Owned' /\ Connectible'
    BY <1>3, ScansKept DEF LF!LoadStatus, Owned, Connectible
  <2> QED
    BY <2>1, <2>2
<1>4. CASE LF!Retire
  <2>1. ClosingPhases' /\ Replacing' /\ Owned'
    BY <1>4 DEF LF!Retire, ClosingPhases, Replacing, Owned
  <2>2. \A s \in LF!Slots : status'[s] = "FREE" => status[s] = "FREE"
    BY <1>4 DEF LF!Retire
  <2>3. Connectible'
    BY <1>4, <2>2, ScansKept DEF LF!Retire, Connectible
  <2> QED
    BY <2>1, <2>3
<1> QED
  BY <1>1, <1>2, <1>3, <1>4 DEF LF!Shutdown

LEMMA StutterSlotsInv ==
    ASSUME Config, SlotsInv, UNCHANGED LF!vars
    PROVE  SlotsInv'
BY ScansKept DEF SlotsInv, LF!vars, LF!userVars, LF!janitorVars, LF!shutdownVars, LF!TypeOK,
       ClosingPhases, Owned, Replacing, Connectible

LEMMA NextSlotsInv ==
    ASSUME Config
    PROVE  SlotsInv /\ [LF!Next]_(LF!vars) => SlotsInv'
BY UserInv, LoseInv, JanitorInv, RetireInv, StutterSlotsInv DEF LF!Next

(* The pool's invariant holds in every reachable state, for any number of  *)
(* users and slots: ownership, the janitor's phases and the promise of     *)
(* FREE (ConnectionPool and PoolJanitor).                                  *)
THEOREM SlotsInvariant ==
    ASSUME Config
    PROVE  LF!Spec => []SlotsInv
<1>1. LF!Init => SlotsInv
  BY InitSlotsInv
<1>2. SlotsInv /\ [LF!Next]_(LF!vars) => SlotsInv'
  BY NextSlotsInv
<1> QED
  BY <1>1, <1>2, PTL DEF LF!Spec

(* No two users share a connection, none is closed under its user, no slot *)
(* is lost before the shutdown, and whoever holds a slot finds a           *)
(* connection in it (acquire_slot, reset, sweep, shutdown).                *)
THEOREM SlotsExclusive ==
    ASSUME Config
    PROVE  LF!Spec => []LF!SlotExclusive
<1>1. SlotsInv => LF!SlotExclusive
  BY DEF SlotsInv, LF!SlotExclusive, Owned, Replacing, Connectible
<1> QED
  BY <1>1, SlotsInvariant, PTL
=============================================================================
