---------------------------- MODULE NexusProofs ----------------------------
(***************************************************************************)
(* Proofs about the service container: the factory of a registration in    *)
(* force runs to its end once, and callers share its instance.             *)
(*                                                                         *)
(* The argument is that a frame of get() that copied the factory of the    *)
(* registration in force has reached the slot's node, which cannot be      *)
(* erased without ending the registration.  Having locked the mutex of     *)
(* that node, it owns it: so the frames that construct for a registration  *)
(* in force exclude one another, and the double check sees what the        *)
(* previous one stored.  A frame that works for a registration that is     *)
(* over may hold no mutex at all, and makes instances of its own number.   *)
(***************************************************************************)
EXTENDS Nexus, SequenceTheorems, TLAPS

InForce(k, r) == Registered(k) /\ map_[k].reg = r

PastLock == {"check", "construct", "create", "store"}

(* Calls nest one deep: the dependency of a factory has none itself. *)
Shape(t) ==
    /\ Len(stack[t]) <= 2
    /\ Len(stack[t]) = 2 =>
           /\ stack[t][1].pc = "create"
           /\ stack[t][1].key # stack[t][2].key
           /\ stack[t][1].node # stack[t][2].node
           /\ DependsOn[stack[t][2].key] = None

(* What frame f has copied, by itself. *)
FrameOK(f) ==
    /\ f.node <= nodes /\ f.factory <= regs
    /\ f.pc \in {"fast", "slow"} => f.node = 0 /\ f.factory = 0
    /\ f.pc \notin {"fast", "slow"} => f.node # 0
    /\ f.pc \in {"construct", "create", "store"} => f.factory # 0
    /\ f.pc = "store" => /\ f.new # None /\ f.new.reg = f.factory
                         /\ f.new.n # 0 /\ f.new.n <= made[f.factory]

(* Frame f of thread t and the slot of key k.  A frame whose factory is of *)
(* the registration in force has the slot's node, and its mutex once it    *)
(* has locked; it constructs only what was never made.                     *)
FrameSlot(t, f, k) ==
    Registered(k) =>
        /\ map_[k].node = f.node => k = f.key
        /\ k = f.key => f.factory <= map_[k].reg
        /\ map_[k].reg = f.factory =>
               /\ k = f.key /\ map_[k].factory = f.factory /\ map_[k].node = f.node
               /\ f.pc \in PastLock => owner[f.node] = t
               /\ f.pc \in {"construct", "create"} /\ map_[k].lt # "Timed"
                      => made[f.factory] = 0

(* An instance i that a caller or the slot of j has, and the slot of k. *)
InstanceSlot(i, k) ==
    InForce(k, i.reg) => (i.n = 0 <=> map_[k].factory = 0)

Storing(r) ==
    \E t \in Threads : \E i \in 1 .. Len(stack[t]) :
        stack[t][i].pc = "store" /\ stack[t][i].factory = r

SlotOK(k) ==
    Registered(k) =>
        /\ map_[k].node <= nodes /\ map_[k].reg <= regs
        /\ map_[k].factory \in {0, map_[k].reg}
        /\ map_[k].factory = 0 => made[map_[k].reg] = 0
        /\ map_[k].lt # "Timed" =>
               /\ made[map_[k].reg] <= 1
               /\ made[map_[k].reg] = 1 => map_[k].obj # None \/ Storing(map_[k].reg)
        /\ map_[k].obj # None =>
               /\ map_[k].obj.reg <= map_[k].reg
               /\ map_[k].obj.n <= made[map_[k].obj.reg]
               /\ InstanceSlot(map_[k].obj, k)

SlotsApart(j, k) ==
    Registered(j) /\ Registered(k) /\ j # k =>
        /\ map_[j].node # map_[k].node /\ map_[j].reg # map_[k].reg
        /\ map_[j].obj # None => map_[j].obj.reg # map_[k].reg

HeldOK(i) ==
    /\ i.reg <= regs /\ i.n <= made[i.reg]
    /\ \A k \in Keys : InForce(k, i.reg) =>
           InstanceSlot(i, k) /\ (map_[k].lt # "Timed" => map_[k].obj # None)

Typed ==
    /\ map_ \in [Keys -> Slots \cup {None}]
    /\ owner \in [1..MaxRegs -> Threads \cup {None}]
    /\ regs \in 0..MaxRegs /\ nodes \in 0..regs /\ gets \in 0..MaxGets
    /\ made \in [1..MaxRegs -> Nat]
    /\ \A r \in 1..MaxRegs : r > regs => made[r] = 0
    /\ stack \in [Threads -> Seq(Frames)] /\ held \in [Threads -> SUBSET Instances]
    /\ time \in 0..MaxTime /\ jnow \in 0..time
    /\ jpc \in {"test", "sleep", "sweep", "exited", "asleep"}
    /\ stop \in {"uninitialized", "false", "true"}

Owned(n) ==
    owner[n] # None =>
        \E i \in 1 .. Len(stack[owner[n]]) :
            stack[owner[n]][i].node = n /\ stack[owner[n]][i].pc \in PastLock

FramesOf(t) ==
    \A i \in 1 .. Len(stack[t]) :
        FrameOK(stack[t][i]) /\ \A k \in Keys : FrameSlot(t, stack[t][i], k)

NexusInv ==
    /\ Typed
    /\ \A t \in Threads : Shape(t) /\ FramesOf(t)
    /\ \A k \in Keys : SlotOK(k)
    /\ \A j, k \in Keys : SlotsApart(j, k)
    /\ \A t \in Threads : \A i \in held[t] : HeldOK(i)
    /\ \A n \in 1..MaxRegs : Owned(n)

---------------------------------------------------------------------------
(* The top of the stack *)

(* What removing the last frame of a stack, and replacing it, leave. *)
LEMMA Popped ==
    ASSUME NexusInv, NEW t \in Threads, stack[t] # << >>
    PROVE  /\ Len(stack[t]) \in Nat /\ Len(stack[t]) \in 1 .. Len(stack[t])
           /\ Top(t) \in Frames
           /\ Below(t) \in Seq(Frames) /\ Len(Below(t)) = Len(stack[t]) - 1
           /\ \A i \in 1 .. Len(stack[t]) - 1 : Below(t)[i] = stack[t][i]
<1>1. PICK s \in Seq(Frames) : s = stack[t] /\ s # << >>
  BY Zenon DEF NexusInv, Typed
<1>2. Len(s) \in Nat /\ Len(s) # 0 /\ Len(s) \in 1 .. Len(s)
  BY <1>1, EmptySeq
<1>3. s[Len(s)] \in Frames
  BY <1>2, ElementOfSeq, Zenon
<1>4. SubSeq(s, 1, Len(s) - 1) \in Seq(Frames) /\ Len(SubSeq(s, 1, Len(s) - 1)) = Len(s) - 1
  <2>1. Len(s) - 1 \in Int /\ 1 \in Int /\ \A i \in 1 .. Len(s) - 1 : s[i] \in Frames
    BY <1>2, ElementOfSeq
  <2>2. PICK m \in Int : m = Len(s) - 1
    BY <2>1, Zenon
  <2>3. SubSeq(s, 1, m) \in Seq(Frames) /\ Len(SubSeq(s, 1, m)) = IF 1 <= m THEN m - 1 + 1 ELSE 0
    BY <2>1, <2>2, SubSeqProperties
  <2> QED
    BY <1>2, <2>2, <2>3
<1>5. \A i \in 1 .. Len(s) - 1 : SubSeq(s, 1, Len(s) - 1)[i] = s[i]
  BY <1>2
<1> QED
  BY <1>1, <1>2, <1>3, <1>4, <1>5, Zenon DEF Top, Below

LEMMA Replaced ==
    ASSUME NexusInv, NEW t \in Threads, stack[t] # << >>, NEW f \in Frames
    PROVE  /\ Append(Below(t), f) \in Seq(Frames)
           /\ Len(Append(Below(t), f)) = Len(stack[t])
           /\ \A i \in 1 .. Len(stack[t]) - 1 : Append(Below(t), f)[i] = stack[t][i]
           /\ Append(Below(t), f)[Len(stack[t])] = f
<1>1. PICK b \in Seq(Frames) : b = Below(t)
  BY Popped, Zenon
<1>2. /\ Len(b) = Len(stack[t]) - 1 /\ Len(stack[t]) \in Nat
      /\ \A i \in 1 .. Len(stack[t]) - 1 : b[i] = stack[t][i]
  BY <1>1, Popped, Zenon
<1>3. /\ Append(b, f) \in Seq(Frames) /\ Len(Append(b, f)) = Len(b) + 1
      /\ \A i \in 1 .. Len(b) : Append(b, f)[i] = b[i]
      /\ Append(b, f)[Len(b) + 1] = f
  BY AppendProperties
<1> QED
  BY <1>1, <1>2, <1>3

LEMMA TopFrame ==
    ASSUME NexusInv, NEW t \in Threads, stack[t] # << >>
    PROVE  /\ Len(stack[t]) \in 1 .. 2 /\ Len(stack[t]) \in 1 .. Len(stack[t])
           /\ Top(t) = stack[t][Len(stack[t])] /\ Top(t) \in Frames
           /\ Top(t).key \in Keys
           /\ FrameOK(Top(t)) /\ \A k \in Keys : FrameSlot(t, Top(t), k)
           /\ SlotOf(t) \in Slots \cup {None}
<1>1. stack[t] \in Seq(Frames) /\ Shape(t) /\ FramesOf(t)
  BY Zenon DEF NexusInv, Typed
<1>2. Top(t) = stack[t][Len(stack[t])] /\ Top(t) \in Frames /\ Len(stack[t]) \in 1 .. Len(stack[t])
  BY Popped, Zenon DEF Top
<1>3. Top(t).key \in Keys
  BY <1>2, Zenon DEF Frames
<1>4. SlotOf(t) \in Slots \cup {None}
  BY <1>3, Zenon DEF SlotOf, NexusInv, Typed
<1>5. Len(stack[t]) \in 1 .. 2
  <2>1. PICK n \in Nat : n = Len(stack[t])
    BY <1>1, LenProperties, Zenon
  <2>2. n \in 1 .. n /\ n <= 2
    BY <1>1, <1>2, <2>1, Zenon DEF Shape
  <2>3. n \in 1 .. 2
    BY <2>2
  <2> QED
    BY <2>1, <2>3, Zenon
<1> QED
  BY <1>1, <1>2, <1>3, <1>4, <1>5, Zenon DEF FramesOf

---------------------------------------------------------------------------
(* Steps of a thread that leave the slots alone *)

(* Thread t has stack s next.  The mutexes of the others are as they were, *)
(* t's are those of frames of s, and whatever t was about to store for a   *)
(* registration in force it still is.                                      *)
LEMMA Moved ==
    ASSUME NexusInv, NEW t \in Threads, NEW s \in Seq(Frames),
           stack' = [stack EXCEPT ![t] = s],
           map_' = map_, held' = held, made' = made, nodes' = nodes, regs' = regs,
           time' = time, jnow' = jnow, jpc' = jpc, stop' = stop, gets' \in 0..MaxGets,
           owner' \in [1..MaxRegs -> Threads \cup {None}],
           \A n \in 1..MaxRegs : \A u \in Threads \ {t} : owner[n] = u <=> owner'[n] = u,
           \A n \in 1..MaxRegs : owner'[n] = t =>
               \E i \in 1 .. Len(s) : s[i].node = n /\ s[i].pc \in PastLock,
           Shape(t)', FramesOf(t)',
           \A i \in 1 .. Len(stack[t]), k \in Keys :
               stack[t][i].pc = "store" /\ InForce(k, stack[t][i].factory)
                   => \E j \in 1 .. Len(s) : s[j].pc = "store" /\ s[j].factory = stack[t][i].factory
    PROVE  NexusInv'
<1>1. Typed'
  BY Zenon DEF NexusInv, Typed
<1>2. stack'[t] = s /\ \A u \in Threads \ {t} : stack'[u] = stack[u]
  BY Zenon DEF NexusInv, Typed
<1>3. ASSUME NEW u \in Threads
      PROVE  Shape(u)' /\ FramesOf(u)'
  <2>1. CASE u = t
    BY <2>1, Zenon
  <2>2. CASE u # t
    <3>1. Shape(u) /\ FramesOf(u) /\ stack'[u] = stack[u]
      BY <1>2, <2>2, Zenon DEF NexusInv
    <3>2. Shape(u)'
      BY <3>1, Zenon DEF Shape
    <3>3. ASSUME NEW i \in 1 .. Len(stack[u])
          PROVE  FrameOK(stack[u][i])' /\ \A k \in Keys : FrameSlot(u, stack[u][i], k)'
      <4>1. FrameOK(stack[u][i]) /\ \A k \in Keys : FrameSlot(u, stack[u][i], k)
        BY <3>1, Zenon DEF FramesOf
      <4>2. FrameOK(stack[u][i])'
        BY <3>1, <4>1, Zenon DEF FrameOK
      <4>3. stack[u][i].node \in 0 .. MaxRegs
        <5>1. stack[u] \in Seq(Frames)
          BY Zenon DEF NexusInv, Typed
        <5>2. stack[u][i] \in Frames
          BY <5>1, ElementOfSeq, Zenon
        <5> QED
          BY <5>2, Zenon DEF Frames
      <4>4. stack[u][i].pc \in PastLock => stack[u][i].node \in 1 .. MaxRegs
        BY <4>1, <4>3 DEF FrameOK, PastLock
      <4> QED
        BY <2>2, <3>1, <4>1, <4>2, <4>4 DEF FrameSlot, Registered
    <3> QED
      BY <3>1, <3>2, <3>3, Zenon DEF FramesOf
  <2> QED
    BY <2>1, <2>2, Zenon
<1>4. ASSUME NEW k \in Keys PROVE SlotOK(k)'
  <2>1. SlotOK(k)
    BY Zenon DEF NexusInv
  <2>2. ASSUME Registered(k), Storing(map_[k].reg) PROVE Storing(map_[k].reg)'
    <3>1. PICK u \in Threads : \E i \in 1 .. Len(stack[u]) :
              stack[u][i].pc = "store" /\ stack[u][i].factory = map_[k].reg
      BY <2>2, Zenon DEF Storing
    <3>2. PICK i \in 1 .. Len(stack[u]) :
              stack[u][i].pc = "store" /\ stack[u][i].factory = map_[k].reg
      BY <3>1, Zenon
    <3>3. \E j \in 1 .. Len(stack'[u]) :
              stack'[u][j].pc = "store" /\ stack'[u][j].factory = map_[k].reg
      BY <1>2, <2>2, <3>2 DEF InForce
    <3> QED
      BY <3>3 DEF Storing
  <2> QED
    BY <2>1, <2>2, Zenon DEF SlotOK, Registered, InstanceSlot, InForce
<1>5. \A j, k \in Keys : SlotsApart(j, k)'
  BY DEF NexusInv, SlotsApart, Registered
<1>6. \A u \in Threads : \A i \in held'[u] : HeldOK(i)'
  BY DEF NexusInv, HeldOK, InForce, Registered, InstanceSlot
<1>7. ASSUME NEW n \in 1..MaxRegs PROVE Owned(n)'
  <2>1. Owned(n)
    BY Zenon DEF NexusInv
  <2>2. CASE owner'[n] = t
    BY <1>2, <2>2 DEF Owned
  <2>3. CASE owner'[n] # t /\ owner'[n] # None
    <3>1. owner'[n] \in Threads \ {t} /\ owner[n] = owner'[n]
      BY <2>3, Zenon
    <3> QED
      BY <1>2, <2>1, <2>3, <3>1, NoneAssumption DEF Owned
  <2> QED
    BY <2>2, <2>3, Zenon DEF Owned
<1> QED
  BY <1>1, <1>3, <1>4, <1>5, <1>6, <1>7, Zenon DEF NexusInv

(* The exception that leaves get() ends every call of t, none of which was *)
(* about to store for a registration in force.                             *)
LEMMA ThrowInv ==
    ASSUME NexusInv, NEW t \in Threads, Throw(t), held' = held,
           map_' = map_, made' = made, nodes' = nodes, regs' = regs, gets' = gets,
           time' = time, jnow' = jnow, jpc' = jpc, stop' = stop,
           \A i \in 1 .. Len(stack[t]), k \in Keys :
               stack[t][i].pc = "store" => ~InForce(k, stack[t][i].factory)
    PROVE  NexusInv'
<1>1. PICK s \in Seq(Frames) : s = << >> /\ Len(s) = 0
  BY EmptySeq, Zenon
<1>2. stack' = [stack EXCEPT ![t] = s] /\ stack'[t] = << >> /\ Len(stack'[t]) = 0
  BY <1>1, Zenon DEF Throw, NexusInv, Typed
<1>3. /\ owner \in [1..MaxRegs -> Threads \cup {None}] /\ gets' \in 0..MaxGets
      /\ \A n \in 1..MaxRegs : owner'[n] = IF owner[n] = t THEN None ELSE owner[n]
      /\ owner' \in [1..MaxRegs -> Threads \cup {None}]
  BY Zenon DEF Throw, NexusInv, Typed
<1>4. /\ \A n \in 1..MaxRegs : \A u \in Threads \ {t} : owner[n] = u <=> owner'[n] = u
      /\ \A n \in 1..MaxRegs : owner'[n] # t
  BY <1>3, NoneAssumption, Zenon
<1>5. Shape(t)' /\ FramesOf(t)'
  BY <1>2 DEF Shape, FramesOf
<1> QED
  BY <1>1, <1>2, <1>3, <1>4, <1>5, Moved, Zenon

(* The innermost frame of t becomes g, for the same key.  t keeps the      *)
(* mutexes it has and takes at most that of g.                             *)
LEMMA GoesTo ==
    ASSUME NexusInv, NEW t \in Threads, stack[t] # << >>, NEW g \in Frames, GoTo(t, g),
           map_' = map_, held' = held, made' = made, nodes' = nodes, regs' = regs,
           gets' = gets, time' = time, jnow' = jnow, jpc' = jpc, stop' = stop,
           owner' \in [1..MaxRegs -> Threads \cup {None}],
           \A n \in 1..MaxRegs : \A u \in Threads \ {t} : owner[n] = u <=> owner'[n] = u,
           \A n \in 1..MaxRegs : owner[n] = t => owner'[n] = t,
           \A n \in 1..MaxRegs : owner'[n] = t /\ owner[n] # t
               => g.node = n /\ g.pc \in PastLock,
           Top(t).pc \in PastLock => g.pc \in PastLock /\ g.node = Top(t).node,
           Top(t).pc # "store",
           g.key = Top(t).key, FrameOK(g)', \A k \in Keys : FrameSlot(t, g, k)',
           Len(stack[t]) = 2 => g.node # stack[t][1].node
    PROVE  NexusInv'
<1>1. /\ Len(stack[t]) \in 1 .. 2 /\ Top(t) = stack[t][Len(stack[t])]
      /\ stack[t] \in Seq(Frames) /\ Shape(t) /\ FramesOf(t)
  BY TopFrame, Zenon DEF NexusInv, Typed
<1>2. PICK s \in Seq(Frames) :
          /\ s = Append(Below(t), g)
          /\ Len(s) = Len(stack[t])
          /\ \A i \in 1 .. Len(stack[t]) - 1 : s[i] = stack[t][i]
          /\ s[Len(stack[t])] = g
  BY Replaced, ZenonT(40)
<1>3. stack' = [stack EXCEPT ![t] = s] /\ stack'[t] = s
  BY <1>2, Zenon DEF GoTo, NexusInv, Typed
<1>4. Shape(t)'
  <2>1. CASE Len(stack[t]) = 1
    BY <1>2, <1>3, <2>1 DEF Shape
  <2>2. CASE Len(stack[t]) = 2
    BY <1>1, <1>2, <1>3, <2>2 DEF Shape
  <2> QED
    BY <1>1, <2>1, <2>2
<1>5. ASSUME NEW i \in 1 .. Len(s)
      PROVE  FrameOK(s[i])' /\ \A k \in Keys : FrameSlot(t, s[i], k)'
  <2>1. CASE i = Len(stack[t])
    BY <1>2, <2>1, Zenon
  <2>2. CASE i # Len(stack[t])
    <3>1. i = 1 /\ 1 \in 1 .. Len(stack[t]) /\ s[1] = stack[t][1] /\ s[1] \in Frames
      BY <1>1, <1>2, <2>2, ElementOfSeq
    <3>2. FrameOK(s[1]) /\ \A k \in Keys : FrameSlot(t, s[1], k)
      BY <1>1, <3>1, Zenon DEF FramesOf
    <3>3. FrameOK(s[1])'
      BY <3>2, Zenon DEF FrameOK
    <3>4. s[1].pc \in PastLock => s[1].node \in 1 .. MaxRegs
      BY <3>1, <3>2 DEF FrameOK, PastLock, Frames
    <3>5. ASSUME NEW k \in Keys PROVE FrameSlot(t, s[1], k)'
      BY <3>2, <3>4, Zenon DEF FrameSlot, Registered
    <3> QED
      BY <3>1, <3>3, <3>5, Zenon
  <2> QED
    BY <2>1, <2>2, Zenon
<1>6. FramesOf(t)'
  BY <1>3, <1>5, Zenon DEF FramesOf
<1>7. ASSUME NEW n \in 1..MaxRegs, owner'[n] = t
      PROVE  \E i \in 1 .. Len(s) : s[i].node = n /\ s[i].pc \in PastLock
  <2>1. CASE owner[n] # t
    BY <1>1, <1>2, <1>7, <2>1
  <2>2. CASE owner[n] = t
    <3>1. PICK i \in 1 .. Len(stack[t]) : stack[t][i].node = n /\ stack[t][i].pc \in PastLock
      BY <2>2, NoneAssumption DEF NexusInv, Owned
    <3> QED
      BY <1>1, <1>2, <3>1
  <2> QED
    BY <2>1, <2>2, Zenon
<1>8. ASSUME NEW i \in 1 .. Len(stack[t])
      PROVE  stack[t][i].pc # "store"
  BY <1>1 DEF Shape
<1>9. gets' \in 0..MaxGets
  BY Zenon DEF NexusInv, Typed
<1> QED
  BY <1>3, <1>4, <1>6, <1>7, <1>8, <1>9, Moved, Zenon

(* A frame that has gone on to another step of get(). *)
LEMMA FrameMoved ==
    ASSUME NEW f \in Frames,
           NEW p \in {"fast", "slow", "lock", "check", "construct", "create", "store"}
    PROVE  \E g \in Frames : /\ g = [f EXCEPT !.pc = p] /\ g.pc = p
                             /\ g.key = f.key /\ g.node = f.node
                             /\ g.factory = f.factory /\ g.new = f.new
<1>1. /\ [f EXCEPT !.pc = p] \in Frames /\ [f EXCEPT !.pc = p].pc = p
      /\ [f EXCEPT !.pc = p].key = f.key /\ [f EXCEPT !.pc = p].node = f.node
      /\ [f EXCEPT !.pc = p].factory = f.factory /\ [f EXCEPT !.pc = p].new = f.new
  BY Zenon DEF Frames
<1> QED
  BY <1>1, Zenon

LEMMA NotStoring ==
    ASSUME NexusInv, NEW t \in Threads, stack[t] # << >>, Top(t).pc # "store"
    PROVE  \A i \in 1 .. Len(stack[t]) : stack[t][i].pc # "store"
<1>1. /\ Len(stack[t]) \in 1 .. 2 /\ Top(t) = stack[t][Len(stack[t])] /\ Shape(t)
  BY TopFrame, Zenon DEF NexusInv
<1> QED
  BY <1>1 DEF Shape

LEMMA SlotFields ==
    ASSUME NexusInv, NEW k \in Keys, Registered(k)
    PROVE  /\ map_[k] \in Slots /\ map_[k].node \in 1..MaxRegs /\ map_[k].reg \in 1..MaxRegs
           /\ map_[k].factory \in 0..MaxRegs /\ map_[k].lt \in Lifetimes
           /\ map_[k].obj \in Instances \cup {None}
<1>1. map_[k] \in Slots
  BY Zenon DEF NexusInv, Typed, Registered
<1> QED
  BY <1>1, Zenon DEF Slots

(* The mutexes are as they were. *)
LEMMA OwnersKept ==
    ASSUME NexusInv, NEW t \in Threads, owner' = owner
    PROVE  /\ owner' \in [1..MaxRegs -> Threads \cup {None}]
           /\ \A n \in 1..MaxRegs : \A u \in Threads \ {t} : owner[n] = u <=> owner'[n] = u
           /\ \A n \in 1..MaxRegs : owner[n] = t => owner'[n] = t
           /\ \A n \in 1..MaxRegs : ~(owner'[n] = t /\ owner[n] # t)
BY Zenon DEF NexusInv, Typed

LEMMA LowerNode ==
    ASSUME NexusInv, NEW t \in Threads, stack[t] # << >>, Len(stack[t]) = 2
    PROVE  /\ stack[t][1] \in Frames /\ stack[t][1].pc = "create"
           /\ stack[t][1].key # Top(t).key /\ stack[t][1].node # Top(t).node
           /\ FrameOK(stack[t][1]) /\ \A k \in Keys : FrameSlot(t, stack[t][1], k)
           /\ DependsOn[Top(t).key] = None
<1>1. /\ Top(t) = stack[t][2] /\ Shape(t) /\ FramesOf(t) /\ stack[t] \in Seq(Frames)
  BY TopFrame, Zenon DEF NexusInv, Typed
<1>2. 1 \in 1 .. Len(stack[t])
  OBVIOUS
<1> QED
  BY <1>1, <1>2, ElementOfSeq, Zenon DEF Shape, FramesOf

LEMMA NewFrameFields ==
    ASSUME NEW k \in Keys
    PROVE  /\ NewFrame(k) \in Frames /\ NewFrame(k).pc = "fast" /\ NewFrame(k).key = k
           /\ NewFrame(k).node = 0 /\ NewFrame(k).factory = 0
<1>1. 0 \in 0..MaxRegs
  BY BoundsAssumption
<1> QED
  BY <1>1, Zenon DEF NewFrame, Frames

LEMMA GetInv ==
    ASSUME NexusInv, NEW t \in Threads, NEW k \in Keys, Get(t, k)
    PROVE  NexusInv'
<1>1. PICK f \in Frames : /\ f = NewFrame(k) /\ f.pc = "fast" /\ f.key = k
                          /\ f.node = 0 /\ f.factory = 0
  BY NewFrameFields, Zenon
<1>2. PICK s \in Seq(Frames) : s = <<f>> /\ Len(s) = 1 /\ s[1] = f
  <2>1. <<f>> \in Seq(Frames) /\ Len(<<f>>) = 1 /\ <<f>>[1] = f
    OBVIOUS
  <2> QED
    BY <2>1, Zenon
<1>3. /\ stack' = [stack EXCEPT ![t] = s] /\ stack'[t] = s /\ stack[t] = << >>
      /\ gets' \in 0..MaxGets /\ Len(stack[t]) = 0
  BY <1>1, <1>2, BoundsAssumption DEF Get, NexusInv, Typed
<1>4. /\ map_' = map_ /\ held' = held /\ made' = made /\ nodes' = nodes /\ regs' = regs
      /\ time' = time /\ jnow' = jnow /\ jpc' = jpc /\ stop' = stop /\ owner' = owner
  BY Zenon DEF Get, registryVars, janitorVars
<1>5. FrameOK(f)' /\ \A j \in Keys : FrameSlot(t, f, j)'
  <2>1. FrameOK(f)'
    BY <1>1, <1>4 DEF FrameOK, NexusInv, Typed
  <2>2. ASSUME NEW j \in Keys PROVE FrameSlot(t, f, j)'
    BY <1>1, <1>4, SlotFields DEF FrameSlot, Registered
  <2> QED
    BY <2>1, <2>2, Zenon
<1>6. Shape(t)' /\ FramesOf(t)'
  BY <1>2, <1>3, <1>5 DEF Shape, FramesOf
<1>7. \A n \in 1..MaxRegs : owner'[n] # t
  BY <1>3, <1>4, NoneAssumption DEF NexusInv, Owned
<1>8. /\ owner' \in [1..MaxRegs -> Threads \cup {None}]
      /\ \A n \in 1..MaxRegs : \A u \in Threads \ {t} : owner[n] = u <=> owner'[n] = u
  BY <1>4, OwnersKept, Zenon
<1>9. ASSUME NEW i \in 1 .. Len(stack[t]) PROVE FALSE
  BY <1>3
<1> QED
  BY <1>2, <1>3, <1>4, <1>6, <1>7, <1>8, <1>9, Moved, Zenon

(* The first critical section found no instance. *)
LEMMA FastSlowInv ==
    ASSUME NexusInv, NEW t \in Threads, At(t, "fast"),
           GoTo(t, [Top(t) EXCEPT !.pc = "slow"]), owner' = owner,
           map_' = map_, held' = held, made' = made, nodes' = nodes, regs' = regs,
           gets' = gets, time' = time, jnow' = jnow, jpc' = jpc, stop' = stop
    PROVE  NexusInv'
<1>1. stack[t] # << >> /\ Top(t).pc = "fast" /\ Top(t) \in Frames /\ FrameOK(Top(t))
  BY TopFrame, Zenon DEF At
<1>2. PICK g \in Frames : /\ g = [Top(t) EXCEPT !.pc = "slow"] /\ g.pc = "slow"
                          /\ g.key = Top(t).key /\ g.node = Top(t).node
                          /\ g.factory = Top(t).factory
  <2>1. PICK f \in Frames : f = Top(t)
    BY <1>1, Zenon
  <2>2. \E g \in Frames : /\ g = [f EXCEPT !.pc = "slow"] /\ g.pc = "slow" /\ g.key = f.key
                          /\ g.node = f.node /\ g.factory = f.factory
    BY FrameMoved
  <2> QED
    BY <2>1, <2>2, Zenon
<1>3. GoTo(t, g) /\ g.node = 0 /\ g.factory = 0
  BY <1>1, <1>2, Zenon DEF FrameOK
<1>4. FrameOK(g)'
  BY <1>2, <1>3 DEF FrameOK, NexusInv, Typed
<1>5. ASSUME NEW k \in Keys PROVE FrameSlot(t, g, k)'
  BY <1>2, <1>3, SlotFields DEF FrameSlot, Registered
<1>6. Len(stack[t]) = 2 => g.node # stack[t][1].node
  BY <1>1, <1>2, LowerNode, Zenon
<1>7. Top(t).pc \notin PastLock /\ Top(t).pc # "store"
  BY <1>1, Zenon DEF PastLock
<1> HIDE DEF GoTo
<1> QED
  BY <1>1, <1>2, <1>3, <1>4, <1>5, <1>6, <1>7, OwnersKept, GoesTo, Zenon

(* The second critical section copies the node and the factory of the slot. *)
LEMMA SlowInv ==
    ASSUME NexusInv, NEW t \in Threads, At(t, "slow"), SlotOf(t) # None,
           GoTo(t, [Top(t) EXCEPT !.pc = "lock", !.node = SlotOf(t).node,
                                  !.factory = SlotOf(t).factory]),
           map_' = map_, held' = held, made' = made, nodes' = nodes, regs' = regs,
           gets' = gets, time' = time, jnow' = jnow, jpc' = jpc, stop' = stop, owner' = owner
    PROVE  NexusInv'
<1>1. stack[t] # << >> /\ Top(t).pc = "slow" /\ Top(t) \in Frames /\ Top(t).key \in Keys
  BY TopFrame, Zenon DEF At
<1>2. PICK h \in Keys : h = Top(t).key /\ SlotOf(t) = map_[h] /\ Registered(h)
  BY <1>1, Zenon DEF SlotOf, Registered
<1>3. /\ map_[h].node \in 1..MaxRegs /\ map_[h].factory \in 0..MaxRegs
      /\ map_[h].reg \in 1..MaxRegs /\ SlotOK(h)
  BY <1>2, SlotFields, Zenon DEF NexusInv
<1>4. PICK g \in Frames : /\ g = [Top(t) EXCEPT !.pc = "lock", !.node = SlotOf(t).node,
                                                !.factory = SlotOf(t).factory]
                          /\ g.pc = "lock" /\ g.key = h
                          /\ g.node = map_[h].node /\ g.factory = map_[h].factory
  <2>1. PICK f \in Frames, n \in 0..MaxRegs, r \in 0..MaxRegs :
            f = Top(t) /\ n = SlotOf(t).node /\ r = SlotOf(t).factory
    BY <1>1, <1>2, <1>3
  <2>2. /\ [f EXCEPT !.pc = "lock", !.node = n, !.factory = r] \in Frames
        /\ [f EXCEPT !.pc = "lock", !.node = n, !.factory = r].pc = "lock"
        /\ [f EXCEPT !.pc = "lock", !.node = n, !.factory = r].key = f.key
        /\ [f EXCEPT !.pc = "lock", !.node = n, !.factory = r].node = n
        /\ [f EXCEPT !.pc = "lock", !.node = n, !.factory = r].factory = r
    BY Zenon DEF Frames
  <2> QED
    BY <1>2, <2>1, <2>2, Zenon
<1>5. FrameOK(g)'
  BY <1>2, <1>3, <1>4 DEF FrameOK, SlotOK, NexusInv, Typed
<1>6. ASSUME NEW k \in Keys PROVE FrameSlot(t, g, k)'
  <2>1. g.pc \notin PastLock /\ g.pc \notin {"construct", "create"}
    BY <1>4, Zenon DEF PastLock
  <2>2. CASE k = h
    BY <1>3, <1>4, <2>1, <2>2 DEF FrameSlot, Registered, SlotOK
  <2>3. CASE k # h /\ Registered(k)
    <3>1. map_[k].node # map_[h].node /\ map_[k].reg # map_[h].reg /\ map_[k].reg # 0
      BY <1>2, <2>3, SlotFields DEF NexusInv, SlotsApart
    <3> QED
      BY <1>2, <1>3, <1>4, <2>1, <2>3, <3>1, Zenon DEF FrameSlot, Registered, SlotOK
  <2> QED
    BY <2>2, <2>3, Zenon DEF FrameSlot, Registered
<1>7. Len(stack[t]) = 2 => g.node # stack[t][1].node
  BY <1>1, <1>2, <1>4, LowerNode DEF FrameSlot
<1>8. Top(t).pc \notin PastLock /\ Top(t).pc # "store" /\ GoTo(t, g)
  BY <1>1, <1>4, Zenon DEF PastLock
<1> HIDE DEF GoTo
<1> QED
  BY <1>1, <1>2, <1>4, <1>5, <1>6, <1>7, <1>8, OwnersKept, GoesTo, Zenon

(* The construction mutex.  While the registration the factory is of is in *)
(* force, the node is that of the slot, so it is there to be locked.       *)
LEMMA LockInv ==
    ASSUME NexusInv, NEW t \in Threads, Lock(t)
    PROVE  NexusInv'
<1>1. /\ stack[t] # << >> /\ Top(t).pc = "lock" /\ Top(t) \in Frames
      /\ FrameOK(Top(t)) /\ \A k \in Keys : FrameSlot(t, Top(t), k)
  BY TopFrame, Zenon DEF Lock, At
<1>2. PICK g \in Frames : /\ g = [Top(t) EXCEPT !.pc = "check"] /\ g.pc = "check"
                          /\ g.key = Top(t).key /\ g.node = Top(t).node
                          /\ g.factory = Top(t).factory
  BY <1>1, FrameMoved
<1>3. /\ map_' = map_ /\ held' = held /\ made' = made /\ nodes' = nodes /\ regs' = regs
      /\ gets' = gets /\ time' = time /\ jnow' = jnow /\ jpc' = jpc /\ stop' = stop
      /\ GoTo(t, g)
  BY <1>2, Zenon DEF Lock, registryVars, janitorVars
<1>4. g.node \in 1..MaxRegs /\ g.pc \in PastLock /\ owner \in [1..MaxRegs -> Threads \cup {None}]
  BY <1>1, <1>2 DEF FrameOK, Frames, PastLock, NexusInv, Typed
<1>5. \/ Alive(g.node) /\ owner[g.node] = None /\ owner' = [owner EXCEPT ![g.node] = t]
      \/ ~Alive(g.node) /\ owner' = owner
  BY <1>2, Zenon DEF Lock
<1>6. /\ owner' \in [1..MaxRegs -> Threads \cup {None}]
      /\ \A n \in 1..MaxRegs : \A u \in Threads \ {t} : owner[n] = u <=> owner'[n] = u
      /\ \A n \in 1..MaxRegs : owner[n] = t => owner'[n] = t
      /\ \A n \in 1..MaxRegs : owner'[n] = t /\ owner[n] # t => g.node = n
      /\ Alive(g.node) => owner'[g.node] = t
  BY <1>4, <1>5, NoneAssumption, Zenon
<1>7. FrameOK(g)'
  BY <1>1, <1>2, <1>3, Zenon DEF FrameOK
<1>8. ASSUME NEW k \in Keys PROVE FrameSlot(t, g, k)'
  <2>1. FrameSlot(t, Top(t), k)
    BY <1>1, Zenon
  <2>2. Registered(k) /\ map_[k].node = g.node => owner'[g.node] = t
    BY <1>6, Zenon DEF Alive
  <2>3. g.pc \notin {"construct", "create"}
    BY <1>2, Zenon
  <2> QED
    BY <1>2, <1>3, <2>1, <2>2, <2>3, Zenon DEF FrameSlot, Registered
<1>9. Len(stack[t]) = 2 => g.node # stack[t][1].node
  BY <1>1, <1>2, LowerNode, Zenon
<1>10. Top(t).pc \notin PastLock /\ Top(t).pc # "store"
  BY <1>1, Zenon DEF PastLock
<1> HIDE DEF GoTo
<1> QED
  BY <1>1, <1>2, <1>3, <1>4, <1>6, <1>7, <1>8, <1>9, <1>10, GoesTo, Zenon

(* The construction mutex excludes: one frame at most is past it with the  *)
(* factory of the registration in force.                                   *)
LEMMA OneConstructs ==
    ASSUME NexusInv, NEW k \in Keys, Registered(k),
           NEW t \in Threads, NEW i \in 1 .. Len(stack[t]),
           stack[t][i].pc \in PastLock, stack[t][i].factory = map_[k].reg,
           NEW u \in Threads, NEW j \in 1 .. Len(stack[u]),
           stack[u][j].pc \in PastLock, stack[u][j].factory = map_[k].reg
    PROVE  t = u /\ i = j
<1>1. /\ FrameSlot(t, stack[t][i], k) /\ FrameSlot(u, stack[u][j], k)
      /\ Shape(t) /\ stack[t] \in Seq(Frames)
  BY Zenon DEF NexusInv, Typed, FramesOf
<1>2. stack[t][i].key = k /\ stack[t][i].node = map_[k].node /\ owner[map_[k].node] = t
  BY <1>1, Zenon DEF FrameSlot
<1>3. stack[u][j].key = k /\ stack[u][j].node = map_[k].node /\ owner[map_[k].node] = u
  BY <1>1, Zenon DEF FrameSlot
<1>4. t = u
  BY <1>2, <1>3, Zenon
<1>5. CASE i # j
  <2>1. PICK n \in Nat : n = Len(stack[t]) /\ n <= 2 /\ i \in 1 .. n /\ j \in 1 .. n
    BY <1>1, <1>4, LenProperties, Zenon DEF Shape
  <2>2. n = 2 /\ (i = 1 => j = 2) /\ (i # 1 => i = 2 /\ j = 1)
    <3>1. n <= 2 /\ i \in 1 .. n /\ j \in 1 .. n
      BY <2>1, Zenon
    <3> QED
      BY <1>5, <3>1
  <2>3. stack[t][1].key # stack[t][2].key
    BY <1>1, <2>1, <2>2, Zenon DEF Shape
  <2> QED
    BY <1>2, <1>3, <1>4, <2>2, <2>3, Zenon
<1> QED
  BY <1>4, <1>5, Zenon

(* Having locked, a frame finds no instance and goes on to construct: none *)
(* was made for the registration in force, since whoever made one would be *)
(* storing it with the mutex locked.                                       *)
LEMMA CheckConstructInv ==
    ASSUME NexusInv, NEW t \in Threads, At(t, "check"), Top(t).factory # 0,
           ~(SlotOf(t) # None /\ SlotOf(t).obj # None),
           GoTo(t, [Top(t) EXCEPT !.pc = "construct"]), owner' = owner,
           map_' = map_, held' = held, made' = made, nodes' = nodes, regs' = regs,
           gets' = gets, time' = time, jnow' = jnow, jpc' = jpc, stop' = stop
    PROVE  NexusInv'
<1>1. /\ stack[t] # << >> /\ Top(t).pc = "check" /\ Top(t) \in Frames /\ FrameOK(Top(t))
      /\ Top(t) = stack[t][Len(stack[t])] /\ Len(stack[t]) \in 1 .. Len(stack[t])
      /\ \A k \in Keys : FrameSlot(t, Top(t), k)
  BY TopFrame, Zenon DEF At
<1>2. PICK g \in Frames : /\ g = [Top(t) EXCEPT !.pc = "construct"] /\ g.pc = "construct"
                          /\ g.key = Top(t).key /\ g.node = Top(t).node
                          /\ g.factory = Top(t).factory
  <2>1. PICK f \in Frames : f = Top(t)
    BY <1>1, Zenon
  <2>2. \E g \in Frames : /\ g = [f EXCEPT !.pc = "construct"] /\ g.pc = "construct"
                          /\ g.key = f.key /\ g.node = f.node /\ g.factory = f.factory
    BY FrameMoved
  <2> QED
    BY <2>1, <2>2, Zenon
<1>3. FrameOK(g)'
  BY <1>1, <1>2, Zenon DEF FrameOK
<1>4. ASSUME NEW k \in Keys PROVE FrameSlot(t, g, k)'
  <2>1. FrameSlot(t, Top(t), k) /\ SlotOK(k)
    BY <1>1, Zenon DEF NexusInv
  <2>2. ASSUME Registered(k), map_[k].reg = g.factory, map_[k].lt # "Timed"
        PROVE  made[g.factory] = 0
    <3>1. map_[k].reg \in 1..MaxRegs /\ k = Top(t).key /\ made[map_[k].reg] \in Nat
      BY <1>2, <2>1, <2>2, SlotFields, Zenon DEF FrameSlot, NexusInv, Typed
    <3>2. map_[k].obj = None
      BY <2>2, <3>1, Zenon DEF SlotOf, Registered
    <3>3. ~Storing(map_[k].reg)
      <4>1. ASSUME NEW u \in Threads, NEW j \in 1 .. Len(stack[u]),
                   stack[u][j].pc = "store", stack[u][j].factory = map_[k].reg
            PROVE  FALSE
        <5>1. stack[u][j].pc \in PastLock /\ Top(t).pc \in PastLock
          BY <1>1, <4>1, Zenon DEF PastLock
        <5>2. u = t /\ j = Len(stack[t])
          BY <1>1, <1>2, <2>2, <4>1, <5>1, OneConstructs, Zenon
        <5> QED
          BY <1>1, <4>1, <5>2, Zenon
      <4> QED
        BY <4>1, Zenon DEF Storing
    <3>4. made[map_[k].reg] <= 1 /\ made[map_[k].reg] # 1
      BY <2>1, <2>2, <3>2, <3>3, Zenon DEF SlotOK
    <3> QED
      BY <2>2, <3>1, <3>4
  <2>3. g.pc \in PastLock /\ Top(t).pc \in PastLock
    BY <1>1, <1>2, Zenon DEF PastLock
  <2> QED
    BY <1>2, <2>1, <2>2, <2>3, Zenon DEF FrameSlot, Registered
<1>5. Len(stack[t]) = 2 => g.node # stack[t][1].node
  BY <1>1, <1>2, LowerNode, Zenon
<1>6. g.pc \in PastLock /\ Top(t).pc # "store" /\ GoTo(t, g)
  BY <1>1, <1>2, Zenon DEF PastLock
<1> HIDE DEF GoTo
<1> QED
  BY <1>1, <1>2, <1>3, <1>4, <1>5, <1>6, OwnersKept, GoesTo, Zenon

(* The factory starts; a dependency it gets is another call, under it. *)
LEMMA ConstructInv ==
    ASSUME NexusInv, NEW t \in Threads, Construct(t)
    PROVE  NexusInv'
<1>1. /\ stack[t] # << >> /\ Top(t).pc = "construct" /\ Top(t) \in Frames /\ FrameOK(Top(t))
      /\ Top(t) = stack[t][Len(stack[t])] /\ Len(stack[t]) \in 1 .. 2
      /\ Top(t).key \in Keys /\ \A k \in Keys : FrameSlot(t, Top(t), k)
  BY TopFrame, Zenon DEF At, Construct
<1>2. PICK g \in Frames : /\ g = [Top(t) EXCEPT !.pc = "create"] /\ g.pc = "create"
                          /\ g.key = Top(t).key /\ g.node = Top(t).node
                          /\ g.factory = Top(t).factory
  BY <1>1, FrameMoved, ZenonT(40)
<1>3. /\ map_' = map_ /\ held' = held /\ made' = made /\ nodes' = nodes /\ regs' = regs
      /\ gets' = gets /\ time' = time /\ jnow' = jnow /\ jpc' = jpc /\ stop' = stop
      /\ owner' = owner
  BY Zenon DEF Construct, registryVars, janitorVars
<1>4. FrameOK(g)'
  BY <1>1, <1>2, <1>3, Zenon DEF FrameOK
<1>5. ASSUME NEW k \in Keys PROVE FrameSlot(t, g, k)'
  <2>1. FrameSlot(t, Top(t), k)
    BY <1>1, Zenon
  <2>2. g.pc \in PastLock /\ Top(t).pc \in PastLock
    BY <1>1, <1>2, Zenon DEF PastLock
  <2> QED
    BY <1>1, <1>2, <1>3, <2>1, <2>2, Zenon DEF FrameSlot, Registered
<1>6. g.pc \in PastLock /\ Top(t).pc # "store" /\ g.node # 0
  BY <1>1, <1>2, Zenon DEF PastLock, FrameOK
<1>7. /\ Append(Below(t), g) \in Seq(Frames) /\ Len(Append(Below(t), g)) = Len(stack[t])
      /\ Append(Below(t), g)[Len(stack[t])] = g
  BY <1>1, Replaced, Zenon
<1>8. CASE DependsOn[Top(t).key] = None
  <2>1. stack' = [stack EXCEPT ![t] = Append(Below(t), g) \o << >>]
    BY <1>2, <1>8, Zenon DEF Construct
  <2>2. GoTo(t, g)
    BY <1>7, <2>1, ConcatEmptySeq, Zenon DEF GoTo
  <2>3. Len(stack[t]) = 2 => g.node # stack[t][1].node
    BY <1>1, <1>2, LowerNode, Zenon
  <2> HIDE DEF GoTo
  <2> QED
    BY <1>1, <1>2, <1>3, <1>4, <1>5, <1>6, <2>2, <2>3, OwnersKept, GoesTo, Zenon
<1>9. CASE DependsOn[Top(t).key] # None
  <2>1. PICK d \in Keys : d = DependsOn[Top(t).key] /\ DependsOn[d] = None /\ d # Top(t).key
    BY <1>1, <1>9, AcyclicAssumption, Zenon
  <2>2. Len(stack[t]) = 1
    BY <1>1, <1>9, LowerNode
  <2>3. PICK f \in Frames : /\ f = NewFrame(d) /\ f.pc = "fast" /\ f.key = d
                            /\ f.node = 0 /\ f.factory = 0
    BY NewFrameFields, Zenon
  <2>4. stack' = [stack EXCEPT ![t] = Append(Below(t), g) \o <<f>>]
    BY <1>2, <1>9, <2>1, <2>3, Zenon DEF Construct
  <2>5. PICK a \in Seq(Frames) : a = Append(Below(t), g) /\ Len(a) = 1 /\ a[1] = g
    BY <1>7, <2>2, Zenon
  <2>6. PICK s \in Seq(Frames) : s = a \o <<f>> /\ Len(s) = 2 /\ s[1] = g /\ s[2] = f
    <3>1. <<f>> \in Seq(Frames) /\ Len(<<f>>) = 1 /\ <<f>>[1] = f
      OBVIOUS
    <3>2. a \o <<f>> \in Seq(Frames) /\ Len(a \o <<f>>) = 2
      BY <2>5, <3>1, ConcatProperties
    <3>3. (a \o <<f>>)[1] = g /\ (a \o <<f>>)[2] = f
      BY <2>5, <3>1
    <3> QED
      BY <3>2, <3>3, Zenon
  <2>7. stack' = [stack EXCEPT ![t] = s] /\ stack'[t] = s
    BY <2>4, <2>5, <2>6, Zenon DEF NexusInv, Typed
  <2>8. Shape(t)'
    <3>1. Len(stack'[t]) = 2 /\ stack'[t][1] = g /\ stack'[t][2] = f
      BY <2>6, <2>7, Zenon
    <3>2. g.pc = "create" /\ g.key # f.key /\ g.node # f.node /\ DependsOn[f.key] = None
      BY <1>2, <1>6, <2>1, <2>3, Zenon
    <3> QED
      BY <3>1, <3>2 DEF Shape
  <2>9. FrameOK(f)' /\ \A k \in Keys : FrameSlot(t, f, k)'
    <3>1. FrameOK(f)'
      BY <1>3, <2>3 DEF FrameOK, NexusInv, Typed
    <3>2. ASSUME NEW k \in Keys PROVE FrameSlot(t, f, k)'
      BY <1>3, <2>3, SlotFields DEF FrameSlot, Registered
    <3> QED
      BY <3>1, <3>2, Zenon
  <2>10. FramesOf(t)'
    <3>1. ASSUME NEW i \in 1 .. 2
          PROVE  FrameOK(s[i])' /\ \A k \in Keys : FrameSlot(t, s[i], k)'
      BY <1>4, <1>5, <2>6, <2>9
    <3> QED
      BY <2>6, <2>7, <3>1, Zenon DEF FramesOf
  <2>11. ASSUME NEW n \in 1..MaxRegs, owner'[n] = t
         PROVE  \E i \in 1 .. Len(s) : s[i].node = n /\ s[i].pc \in PastLock
    <3>1. PICK i \in 1 .. Len(stack[t]) : stack[t][i].node = n /\ stack[t][i].pc \in PastLock
      BY <1>3, <2>11, NoneAssumption DEF NexusInv, Owned
    <3>2. g.node = n
      BY <1>1, <1>2, <2>2, <3>1
    <3> QED
      BY <1>6, <2>6, <3>2
  <2>12. \A i \in 1 .. Len(stack[t]) : stack[t][i].pc # "store"
    BY <1>1, <1>6, NotStoring, Zenon
  <2>13. gets' \in 0..MaxGets
    BY <1>3, Zenon DEF NexusInv, Typed
  <2> QED
    BY <1>3, <2>7, <2>8, <2>10, <2>11, <2>12, <2>13, OwnersKept, Moved, Zenon
<1> QED
  BY <1>8, <1>9, Zenon

(* The factory makes the instance: the first one, if its registration is   *)
(* in force and not Timed, since no other frame constructs for it.         *)
LEMMA CreateInv ==
    ASSUME NexusInv, NEW t \in Threads, At(t, "create"),
           made' = [made EXCEPT ![Top(t).factory] = @ + 1],
           GoTo(t, [Top(t) EXCEPT !.pc = "store",
                        !.new = [reg |-> Top(t).factory, n |-> made[Top(t).factory] + 1]]),
           map_' = map_, held' = held, owner' = owner, nodes' = nodes, regs' = regs,
           gets' = gets, time' = time, jnow' = jnow, jpc' = jpc, stop' = stop
    PROVE  NexusInv'
<1>1. /\ stack[t] # << >> /\ Top(t).pc = "create" /\ Top(t) \in Frames /\ FrameOK(Top(t))
      /\ Top(t) = stack[t][Len(stack[t])] /\ Len(stack[t]) \in 1 .. 2
      /\ Len(stack[t]) \in 1 .. Len(stack[t])
      /\ Top(t).key \in Keys /\ \A k \in Keys : FrameSlot(t, Top(t), k)
  BY TopFrame, Zenon DEF At
<1>2. PICK r \in 1..MaxRegs : r = Top(t).factory /\ r <= regs
  <2>1. Top(t).factory \in 0..MaxRegs /\ Top(t).factory # 0 /\ Top(t).factory <= regs
    BY <1>1, Zenon DEF FrameOK, Frames
  <2> QED
    BY <2>1
<1>3. /\ made \in [1..MaxRegs -> Nat] /\ made' \in [1..MaxRegs -> Nat]
      /\ made'[r] = made[r] + 1 /\ \A q \in 1..MaxRegs : q # r => made'[q] = made[q]
  BY <1>2 DEF NexusInv, Typed
<1>4. PICK g \in Frames : /\ GoTo(t, g) /\ g.pc = "store"
                          /\ g.key = Top(t).key /\ g.node = Top(t).node
                          /\ g.factory = r /\ g.new \in Instances
                          /\ g.new.reg = r /\ g.new.n = made'[r]
  <2>1. PICK f \in Frames, m \in Nat : f = Top(t) /\ m = made'[r]
    BY <1>1, <1>2, <1>3, Zenon
  <2>2. PICK o \in Instances : o = [reg |-> r, n |-> m] /\ o.reg = r /\ o.n = m
    <3>1. [reg |-> r, n |-> m] \in Instances
      BY Zenon DEF Instances
    <3> QED
      BY <3>1, Zenon
  <2>3. /\ [f EXCEPT !.pc = "store", !.new = o] \in Frames
        /\ [f EXCEPT !.pc = "store", !.new = o].pc = "store"
        /\ [f EXCEPT !.pc = "store", !.new = o].key = f.key
        /\ [f EXCEPT !.pc = "store", !.new = o].node = f.node
        /\ [f EXCEPT !.pc = "store", !.new = o].factory = f.factory
        /\ [f EXCEPT !.pc = "store", !.new = o].new = o
    BY Zenon DEF Frames
  <2>4. GoTo(t, [f EXCEPT !.pc = "store", !.new = o])
    BY <1>2, <1>3, <2>1, <2>2, Zenon
  <2> QED
    BY <1>2, <2>1, <2>2, <2>3, <2>4, Zenon
<1>5. /\ stack \in [Threads -> Seq(Frames)] /\ stack' \in [Threads -> Seq(Frames)]
      /\ \A u \in Threads : Len(stack'[u]) = Len(stack[u])
      /\ stack'[t][Len(stack[t])] = g
      /\ \A u \in Threads : \A i \in 1 .. Len(stack[u]) :
             u # t \/ i # Len(stack[t]) => stack'[u][i] = stack[u][i]
  <2>1. PICK s \in Seq(Frames) :
            /\ s = Append(Below(t), g)
            /\ Len(s) = Len(stack[t])
            /\ \A i \in 1 .. Len(stack[t]) - 1 : s[i] = stack[t][i]
            /\ s[Len(stack[t])] = g
    BY <1>1, Replaced, Zenon
  <2>2. stack \in [Threads -> Seq(Frames)] /\ stack' = [stack EXCEPT ![t] = s]
    BY <1>4, <2>1, Zenon DEF GoTo, NexusInv, Typed
  <2>3. stack'[t] = s /\ \A u \in Threads : u # t => stack'[u] = stack[u]
    BY <2>2, Zenon
  <2>4. \A i \in 1 .. Len(stack[t]) : i # Len(stack[t]) => s[i] = stack[t][i]
    BY <1>1, <2>1
  <2> QED
    BY <2>1, <2>2, <2>3, <2>4, Zenon
<1> HIDE DEF GoTo
<1>6. \A q \in 1..MaxRegs : made[q] \in Nat /\ made[q] <= made'[q]
  BY <1>3
<1>7. Typed'
  <2>1. Typed
    BY Zenon DEF NexusInv
  <2>2. \A q \in 1..MaxRegs : q > regs => made'[q] = 0
    BY <1>2, <1>3, <2>1 DEF Typed
  <2> QED
    BY <1>3, <1>5, <2>1, <2>2, Zenon DEF Typed
<1>8. ASSUME NEW u \in Threads PROVE Shape(u)'
  <2>1. Shape(u)
    BY Zenon DEF NexusInv
  <2>2. CASE u = t /\ Len(stack[t]) = 2
    <3>1. /\ stack'[t][1] = stack[t][1] /\ stack'[t][2] = g /\ Top(t) = stack[t][2]
          /\ Len(stack'[t]) = 2
      BY <1>1, <1>5, <2>2, SMTT(30)
    <3> QED
      BY <1>4, <2>1, <2>2, <3>1, Zenon DEF Shape
  <2>3. CASE Len(stack[u]) = 2 /\ u # t
    <3>1. 1 \in 1 .. Len(stack[u]) /\ 2 \in 1 .. Len(stack[u])
      BY <2>3
    <3>2. stack'[u][1] = stack[u][1] /\ stack'[u][2] = stack[u][2] /\ Len(stack'[u]) = 2
      BY <1>5, <2>3, <3>1, Zenon
    <3> QED
      BY <2>1, <2>3, <3>2, Zenon DEF Shape
  <2>4. CASE Len(stack[u]) # 2
    BY <1>5, <2>1, <2>4, Zenon DEF Shape
  <2> QED
    BY <2>2, <2>3, <2>4, Zenon
<1>9. ASSUME NEW u \in Threads, NEW i \in 1 .. Len(stack[u]), u # t \/ i # Len(stack[t])
      PROVE  FrameOK(stack[u][i])' /\ \A k \in Keys : FrameSlot(u, stack[u][i], k)'
  <2>1. PICK f \in Frames : f = stack[u][i] /\ f = stack'[u][i]
    BY <1>5, <1>9, ElementOfSeq, Zenon
  <2>2. FrameOK(f) /\ \A k \in Keys : FrameSlot(u, f, k)
    BY <2>1, Zenon DEF NexusInv, FramesOf
  <2>3. FrameOK(f)'
    <3>1. ASSUME f.pc = "store" PROVE f.new.n <= made'[f.factory]
      <4>1. f.factory \in 1..MaxRegs /\ f.new \in Instances /\ f.new.n <= made[f.factory]
        BY <2>2, <3>1 DEF FrameOK, Frames
      <4>2. f.new.n \in Nat
        BY <4>1, Zenon DEF Instances
      <4> QED
        BY <1>3, <1>6, <4>1, <4>2
    <3> QED
      BY <2>2, <3>1, Zenon DEF FrameOK
  <2>4. ASSUME NEW k \in Keys PROVE FrameSlot(u, f, k)'
    <3>1. ASSUME Registered(k), map_[k].reg = f.factory, f.pc \in {"construct", "create"}
          PROVE  made'[f.factory] = made[f.factory]
      <4>1. f.factory # r
        <5>1. ASSUME f.factory = r PROVE FALSE
          <6>1. stack[u][i].pc \in PastLock /\ stack[u][i].factory = map_[k].reg
            BY <2>1, <3>1, Zenon DEF PastLock
          <6>2. /\ stack[t][Len(stack[t])].pc \in PastLock
                /\ stack[t][Len(stack[t])].factory = map_[k].reg
            BY <1>1, <1>2, <3>1, <5>1, Zenon DEF PastLock
          <6>3. u = t /\ i = Len(stack[t])
            BY <1>1, <3>1, <6>1, <6>2, OneConstructs
          <6> QED
            BY <1>9, <6>3, Zenon
        <5> QED
          BY <5>1, Zenon
      <4> QED
        BY <1>3, <3>1, <4>1, SlotFields, Zenon
    <3> QED
      BY <2>2, <3>1, Zenon DEF FrameSlot, Registered
  <2> QED
    BY <2>1, <2>3, <2>4, Zenon
<1>10. FrameOK(g)' /\ \A k \in Keys : FrameSlot(t, g, k)'
  <2>1. FrameOK(g)'
    <3>1. made'[r] # 0 /\ made'[r] \in Nat
      BY <1>3
    <3> QED
      BY <1>1, <1>2, <1>4, <3>1, NoneAssumption DEF FrameOK
  <2>2. ASSUME NEW k \in Keys PROVE FrameSlot(t, g, k)'
    <3>1. FrameSlot(t, Top(t), k) /\ g.pc \in PastLock /\ Top(t).pc \in PastLock
      BY <1>1, <1>4, Zenon DEF PastLock
    <3> QED
      BY <1>2, <1>4, <3>1, Zenon DEF FrameSlot, Registered
  <2> QED
    BY <2>1, <2>2, Zenon
<1>11. ASSUME NEW u \in Threads PROVE FramesOf(u)'
  <2>1. ASSUME NEW i \in 1 .. Len(stack[u])
        PROVE  (FrameOK(stack[u][i]) /\ \A k \in Keys : FrameSlot(u, stack[u][i], k))'
    <3>1. CASE u # t \/ i # Len(stack[t])
      BY <1>9, <3>1, Zenon
    <3>2. CASE u = t /\ i = Len(stack[t])
      BY <1>5, <1>10, <3>2, Zenon
    <3> QED
      BY <3>1, <3>2, Zenon
  <2> QED
    BY <1>5, <2>1, Zenon DEF FramesOf
<1>12. ASSUME NEW k \in Keys PROVE SlotOK(k)'
  <2>1. SlotOK(k)
    BY Zenon DEF NexusInv
  <2>2. ASSUME Registered(k)
        PROVE  /\ map_[k].factory = 0 => made'[map_[k].reg] = 0
               /\ map_[k].lt # "Timed" =>
                      /\ made'[map_[k].reg] <= 1
                      /\ made'[map_[k].reg] = 1 => map_[k].obj # None \/ Storing(map_[k].reg)'
    <3>1. map_[k].reg \in 1..MaxRegs
      BY <2>2, SlotFields, Zenon
    <3>2. CASE map_[k].reg = r
      <4>1. map_[k].factory = r /\ (map_[k].lt # "Timed" => made[r] = 0)
        BY <1>1, <1>2, <2>2, <3>2, Zenon DEF FrameSlot
      <4>2. Storing(map_[k].reg)'
        BY <1>1, <1>4, <1>5, <3>2, Zenon DEF Storing
      <4> QED
        BY <1>3, <3>2, <4>1, <4>2
    <3>3. CASE map_[k].reg # r
      <4>1. made'[map_[k].reg] = made[map_[k].reg]
        BY <1>3, <3>1, <3>3, Zenon
      <4>2. ASSUME Storing(map_[k].reg) PROVE Storing(map_[k].reg)'
        <5>1. PICK u \in Threads : \E i \in 1 .. Len(stack[u]) :
                  stack[u][i].pc = "store" /\ stack[u][i].factory = map_[k].reg
          BY <4>2, Zenon DEF Storing
        <5>2. PICK i \in 1 .. Len(stack[u]) :
                  stack[u][i].pc = "store" /\ stack[u][i].factory = map_[k].reg
          BY <5>1, Zenon
        <5>3. stack'[u][i] = stack[u][i] /\ i \in 1 .. Len(stack'[u])
          BY <1>1, <1>5, <5>2, Zenon
        <5> QED
          BY <5>2, <5>3, Zenon DEF Storing
      <4> QED
        BY <2>1, <2>2, <4>1, <4>2, Zenon DEF SlotOK
    <3> QED
      BY <3>2, <3>3, Zenon
  <2>3. ASSUME Registered(k), map_[k].obj # None
        PROVE  map_[k].obj.n <= made'[map_[k].obj.reg]
    <3>1. map_[k].obj \in Instances /\ map_[k].obj.n <= made[map_[k].obj.reg]
      BY <2>1, <2>3, SlotFields, Zenon DEF SlotOK
    <3>2. map_[k].obj.reg \in 1..MaxRegs /\ map_[k].obj.n \in Nat
      BY <3>1, Zenon DEF Instances
    <3> QED
      BY <1>3, <1>6, <3>1, <3>2
  <2> QED
    BY <2>1, <2>2, <2>3, Zenon DEF SlotOK, Registered, InstanceSlot, InForce
<1>13. \A j, k \in Keys : SlotsApart(j, k)'
  BY Zenon DEF NexusInv, SlotsApart, Registered
<1>14. ASSUME NEW u \in Threads, NEW i \in held[u] PROVE HeldOK(i)'
  <2>1. HeldOK(i) /\ i \in Instances
    BY Zenon DEF NexusInv, Typed
  <2>2. i.reg \in 1..MaxRegs /\ i.n \in Nat
    BY <2>1, Zenon DEF Instances
  <2>3. i.n <= made'[i.reg]
    BY <1>3, <1>6, <2>1, <2>2 DEF HeldOK
  <2> QED
    BY <2>1, <2>3, Zenon DEF HeldOK, InForce, Registered, InstanceSlot
<1>15. ASSUME NEW n \in 1..MaxRegs PROVE Owned(n)'
  <2>1. Owned(n) /\ owner[n] \in Threads \cup {None}
    BY Zenon DEF NexusInv, Typed
  <2>2. CASE owner[n] # None
    <3>1. PICK u \in Threads : u = owner[n]
      BY <2>1, <2>2, Zenon
    <3>2. PICK i \in 1 .. Len(stack[u]) : stack[u][i].node = n /\ stack[u][i].pc \in PastLock
      BY <2>1, <2>2, <3>1, Zenon DEF Owned
    <3>3. stack'[u][i].node = n /\ stack'[u][i].pc \in PastLock
      BY <1>1, <1>4, <1>5, <3>2, Zenon DEF PastLock
    <3> QED
      BY <1>5, <3>1, <3>3, Zenon DEF Owned
  <2> QED
    BY <2>2, Zenon DEF Owned
<1> QED
  BY <1>7, <1>8, <1>11, <1>12, <1>13, <1>14, <1>15, Zenon DEF NexusInv

---------------------------------------------------------------------------
(* Steps that change slots *)

LEMMA TouchedFields ==
    ASSUME NEW s \in Slots, time \in 0..MaxTime
    PROVE  /\ Touched(s) \in Slots /\ Touched(s).node = s.node /\ Touched(s).obj = s.obj
           /\ Touched(s).factory = s.factory /\ Touched(s).lt = s.lt /\ Touched(s).reg = s.reg
BY Zenon DEF Touched, Slots

(* The innermost get() returns instance s.obj of its slot, and unlocks its *)
(* own mutex: that of the call below it is another node.                   *)
LEMMA ReturnInv ==
    ASSUME NexusInv, NEW t \in Threads, stack[t] # << >>, NEW h \in Keys, h = Top(t).key,
           Registered(h), NEW s \in Slots, Return(t, s),
           s.node = map_[h].node, s.factory = map_[h].factory, s.lt = map_[h].lt,
           s.reg = map_[h].reg, s.obj \in Instances, s.obj.reg <= map_[h].reg,
           s.obj.n <= made[s.obj.reg], InstanceSlot(s.obj, h),
           \A k \in Keys : Registered(k) /\ k # h => s.obj.reg # map_[k].reg,
           made' = made, nodes' = nodes, regs' = regs, gets' = gets,
           time' = time, jnow' = jnow, jpc' = jpc, stop' = stop
    PROVE  NexusInv'
<1>1. /\ Top(t) \in Frames /\ FrameOK(Top(t))
      /\ Top(t) = stack[t][Len(stack[t])] /\ Len(stack[t]) \in 1 .. 2
      /\ Len(stack[t]) \in 1 .. Len(stack[t]) /\ \A k \in Keys : FrameSlot(t, Top(t), k)
  BY TopFrame, Zenon
<1>2. Typed
  BY Zenon DEF NexusInv
<1>3. PICK w \in Slots : /\ w = Touched(s) /\ w.node = map_[h].node /\ w.obj = s.obj
                         /\ w.factory = map_[h].factory /\ w.lt = map_[h].lt
                         /\ w.reg = map_[h].reg
  BY <1>2, TouchedFields DEF Typed
<1>4. /\ map_' = [map_ EXCEPT ![h] = w] /\ map_'[h] = w
      /\ \A k \in Keys : k # h => map_'[k] = map_[k]
  BY <1>2, <1>3, Zenon DEF Return, Typed
<1>5. /\ \A k \in Keys : Registered(k)' <=> Registered(k)
      /\ \A k \in Keys : Registered(k) =>
             /\ map_'[k].node = map_[k].node /\ map_'[k].factory = map_[k].factory
             /\ map_'[k].lt = map_[k].lt /\ map_'[k].reg = map_[k].reg
             /\ map_[k].obj # None => map_'[k].obj # None
  BY <1>3, <1>4, NoneAssumption DEF Registered
<1>6. PICK b \in Seq(Frames) :
          /\ b = Below(t) /\ Len(b) = Len(stack[t]) - 1
          /\ \A i \in 1 .. Len(stack[t]) - 1 : b[i] = stack[t][i]
  BY Popped, Zenon
<1>7. /\ stack' = [stack EXCEPT ![t] = b] /\ stack'[t] = b
      /\ \A u \in Threads : u # t => stack'[u] = stack[u]
  BY <1>2, <1>6, Zenon DEF Return, Typed
<1>8. /\ owner' \in [1..MaxRegs -> Threads \cup {None}]
      /\ \A n \in 1..MaxRegs : owner'[n] = IF n = Top(t).node /\ owner[n] = t THEN None ELSE owner[n]
  BY <1>2, Zenon DEF Return, Typed
<1>9. /\ held' = [held EXCEPT ![t] = @ \cup {s.obj}] /\ held' \in [Threads -> SUBSET Instances]
      /\ \A u \in Threads : held'[u] \subseteq held[u] \cup {s.obj}
  BY <1>2, Zenon DEF Return, Typed
<1>10. Typed'
  BY <1>2, <1>4, <1>7, <1>8, <1>9, Zenon DEF Typed
<1>11. ASSUME NEW u \in Threads, NEW i \in 1 .. Len(stack'[u])
       PROVE  /\ i \in 1 .. Len(stack[u]) /\ stack'[u][i] = stack[u][i]
              /\ u = t => i = 1 /\ Len(stack[t]) = 2
  <2>1. CASE u = t
    <3>1. i \in 1 .. Len(stack[t]) - 1
      BY <1>6, <1>7, <2>1, Zenon
    <3> QED
      BY <1>1, <1>6, <1>7, <2>1, <3>1, SMTT(30)
  <2>2. CASE u # t
    BY <1>7, <2>2, Zenon
  <2> QED
    BY <2>1, <2>2, Zenon
<1>12. ASSUME NEW u \in Threads PROVE Shape(u)'
  <2>1. Shape(u)
    BY Zenon DEF NexusInv
  <2>2. CASE u = t
    <3>1. PICK n \in 1 .. 2 : n = Len(stack[t])
      BY <1>1, Zenon
    <3>2. Len(stack'[t]) = n - 1
      BY <1>6, <1>7, <3>1, Zenon
    <3>3. n - 1 <= 1 /\ n - 1 # 2
      OBVIOUS
    <3> QED
      BY <2>2, <3>2, <3>3 DEF Shape
  <2>3. CASE u # t
    BY <1>7, <2>1, <2>3, Zenon DEF Shape
  <2> QED
    BY <2>2, <2>3, Zenon
<1>13. ASSUME NEW u \in Threads PROVE FramesOf(u)'
  <2>1. ASSUME NEW i \in 1 .. Len(stack'[u])
        PROVE  (FrameOK(stack[u][i]) /\ \A k \in Keys : FrameSlot(u, stack[u][i], k))'
    <3>1. i \in 1 .. Len(stack[u]) /\ stack[u] \in Seq(Frames) /\ FramesOf(u)
      BY <1>11, Zenon DEF NexusInv, Typed
    <3>2. PICK f \in Frames : f = stack[u][i] /\ f = stack'[u][i]
      BY <1>11, <3>1, ElementOfSeq, Zenon
    <3>3. FrameOK(f) /\ \A k \in Keys : FrameSlot(u, f, k)
      BY <3>1, <3>2, Zenon DEF FramesOf
    <3>4. FrameOK(f)'
      BY <3>3, Zenon DEF FrameOK
    <3>5. u = t => f.node # Top(t).node
      BY <1>11, <3>2, LowerNode
    <3>6. ASSUME f.pc \in PastLock, owner[f.node] = u PROVE owner'[f.node] = u
      <4>1. f.node \in 1..MaxRegs
        BY <3>3, <3>6 DEF FrameOK, Frames, PastLock
      <4> QED
        BY <1>8, <3>5, <3>6, <4>1, Zenon
    <3>7. ASSUME NEW k \in Keys PROVE FrameSlot(u, f, k)'
      <4>1. FrameSlot(u, f, k)
        BY <3>3, Zenon
      <4> QED
        BY <1>5, <3>6, <4>1, Zenon DEF FrameSlot
    <3> QED
      BY <3>2, <3>4, <3>7, Zenon
  <2> QED
    BY <2>1, Zenon DEF FramesOf
<1>14. ASSUME NEW k \in Keys, Registered(k), Storing(map_[k].reg)
       PROVE  k = h \/ Storing(map_[k].reg)'
  <2>1. PICK u \in Threads : \E i \in 1 .. Len(stack[u]) :
            stack[u][i].pc = "store" /\ stack[u][i].factory = map_[k].reg
    BY <1>14, Zenon DEF Storing
  <2>2. PICK i \in 1 .. Len(stack[u]) :
            stack[u][i].pc = "store" /\ stack[u][i].factory = map_[k].reg
    BY <2>1, Zenon
  <2>3. CASE u = t /\ i = Len(stack[t])
    BY <1>1, <1>14, <2>2, <2>3, Zenon DEF FrameSlot
  <2>4. CASE u = t /\ i # Len(stack[t])
    <3>1. i \in 1 .. Len(stack[t]) - 1
      BY <1>1, <2>4, SMTT(30)
    <3>2. i \in 1 .. Len(stack'[t]) /\ stack'[t][i] = stack[t][i]
      BY <1>6, <1>7, <3>1, Zenon
    <3> QED
      BY <1>5, <1>14, <2>2, <2>4, <3>2 DEF Storing
  <2>5. CASE u # t
    BY <1>5, <1>7, <1>14, <2>2, <2>5, SMTT(30) DEF Storing
  <2> QED
    BY <2>3, <2>4, <2>5, Zenon
<1>15. ASSUME NEW k \in Keys PROVE SlotOK(k)'
  <2>1. SlotOK(k)
    BY Zenon DEF NexusInv
  <2>2. CASE k = h
    <3>1. map_'[k].obj # None /\ InstanceSlot(map_[k].obj, k)'
      BY <1>3, <1>4, <1>5, <2>2, NoneAssumption DEF InstanceSlot, InForce
    <3> QED
      BY <1>3, <1>4, <1>5, <2>1, <2>2, <3>1, SMTT(30) DEF SlotOK
  <2>3. CASE k # h
    <3>1. map_'[k] = map_[k]
      BY <1>4, <2>3, Zenon
    <3>2. Registered(k) /\ Storing(map_[k].reg) => Storing(map_[k].reg)'
      BY <1>14, <2>3, Zenon
    <3> QED
      BY <1>5, <2>1, <3>1, <3>2, Zenon DEF SlotOK, InstanceSlot, InForce
  <2> QED
    BY <2>2, <2>3, Zenon
<1>16. ASSUME NEW j \in Keys, NEW k \in Keys PROVE SlotsApart(j, k)'
  <2>1. SlotsApart(j, k)
    BY Zenon DEF NexusInv
  <2> QED
    BY <1>3, <1>4, <1>5, <2>1 DEF SlotsApart
<1>17. ASSUME NEW u \in Threads, NEW i \in held'[u] PROVE HeldOK(i)'
  <2>1. CASE i = s.obj
    <3>1. i.reg <= regs
      <4>1. i.reg \in 1..MaxRegs /\ map_[h].reg \in 1..MaxRegs /\ map_[h].reg <= regs
        BY <2>1, SlotFields, Zenon DEF Instances, NexusInv, SlotOK
      <4> QED
        BY <1>2, <2>1, <4>1 DEF Typed
    <3>2. ASSUME NEW k \in Keys, InForce(k, i.reg)'
          PROVE  k = h
      BY <1>5, <2>1, <3>2, Zenon DEF InForce
    <3>3. InstanceSlot(i, h)' /\ map_'[h].obj # None
      BY <1>3, <1>4, <1>5, <2>1, NoneAssumption DEF InstanceSlot, InForce
    <3> QED
      BY <2>1, <3>1, <3>2, <3>3, Zenon DEF HeldOK
  <2>2. CASE i \in held[u]
    <3>1. HeldOK(i)
      BY <2>2, Zenon DEF NexusInv
    <3> QED
      BY <1>5, <3>1, Zenon DEF HeldOK, InForce, InstanceSlot
  <2> QED
    BY <1>9, <2>1, <2>2, Zenon
<1>18. ASSUME NEW n \in 1..MaxRegs PROVE Owned(n)'
  <2>1. Owned(n) /\ owner[n] \in Threads \cup {None}
    BY <1>2, Zenon DEF NexusInv, Typed
  <2>2. CASE owner'[n] # None
    <3>1. owner'[n] = owner[n] /\ (n # Top(t).node \/ owner[n] # t)
      BY <1>8, <2>2, Zenon
    <3>2. PICK u \in Threads : u = owner[n]
      BY <2>1, <2>2, <3>1, Zenon
    <3>3. PICK i \in 1 .. Len(stack[u]) : stack[u][i].node = n /\ stack[u][i].pc \in PastLock
      BY <2>1, <2>2, <3>1, <3>2, Zenon DEF Owned
    <3>4. i \in 1 .. Len(stack'[u]) /\ stack'[u][i] = stack[u][i]
      <4>1. CASE u = t
        <5>1. i # Len(stack[t])
          BY <1>1, <3>1, <3>2, <3>3, <4>1, Zenon
        <5>2. i \in 1 .. Len(stack[t]) - 1
          BY <1>1, <4>1, <5>1, SMTT(30)
        <5> QED
          BY <1>6, <1>7, <4>1, <5>2
      <4>2. CASE u # t
        BY <1>7, <4>2, Zenon
      <4> QED
        BY <4>1, <4>2, Zenon
    <3> QED
      BY <3>1, <3>2, <3>3, <3>4, Zenon DEF Owned
  <2> QED
    BY <2>2, Zenon DEF Owned
<1> QED
  BY <1>10, <1>12, <1>13, <1>15, <1>16, <1>17, <1>18, Zenon DEF NexusInv

(* Slots are erased, and Timed ones lose their instance; no other slot     *)
(* does.                                                                   *)
LEMMA ThinnedInv ==
    ASSUME NexusInv, Typed', stack' = stack, held' = held, owner' = owner, made' = made,
           nodes' = nodes, regs' = regs,
           \A k \in Keys : map_'[k] # None =>
               /\ map_[k] # None /\ map_'[k].node = map_[k].node
               /\ map_'[k].factory = map_[k].factory /\ map_'[k].lt = map_[k].lt
               /\ map_'[k].reg = map_[k].reg
               /\ \/ map_'[k].obj = map_[k].obj
                  \/ map_'[k].obj = None /\ map_[k].lt = "Timed"
    PROVE  NexusInv'
<1>1. ASSUME NEW u \in Threads PROVE Shape(u)' /\ FramesOf(u)'
  <2>1. Shape(u) /\ FramesOf(u)
    BY Zenon DEF NexusInv
  <2>2. ASSUME NEW i \in 1 .. Len(stack[u])
        PROVE  (FrameOK(stack[u][i]) /\ \A k \in Keys : FrameSlot(u, stack[u][i], k))'
    <3>1. FrameOK(stack[u][i]) /\ \A k \in Keys : FrameSlot(u, stack[u][i], k)
      BY <2>1, Zenon DEF FramesOf
    <3>2. FrameOK(stack[u][i])'
      BY <3>1, Zenon DEF FrameOK
    <3>3. ASSUME NEW k \in Keys PROVE FrameSlot(u, stack[u][i], k)'
      BY <3>1, Zenon DEF FrameSlot, Registered
    <3> QED
      BY <3>2, <3>3, Zenon
  <2> QED
    BY <2>1, <2>2, Zenon DEF Shape, FramesOf
<1>2. ASSUME NEW k \in Keys PROVE SlotOK(k)'
  <2>1. SlotOK(k)
    BY Zenon DEF NexusInv
  <2>2. ASSUME NEW r, Storing(r) PROVE Storing(r)'
    BY <2>2, Zenon DEF Storing
  <2> QED
    BY <2>1, <2>2, Zenon DEF SlotOK, Registered, InstanceSlot, InForce
<1>3. ASSUME NEW j \in Keys, NEW k \in Keys PROVE SlotsApart(j, k)'
  BY DEF NexusInv, SlotsApart, Registered
<1>4. ASSUME NEW u \in Threads, NEW i \in held[u] PROVE HeldOK(i)'
  <2>1. HeldOK(i)
    BY Zenon DEF NexusInv
  <2> QED
    BY <2>1, Zenon DEF HeldOK, InForce, Registered, InstanceSlot
<1>5. \A n \in 1..MaxRegs : Owned(n)'
  BY Zenon DEF NexusInv, Owned
<1> QED
  BY <1>1, <1>2, <1>3, <1>4, <1>5, Zenon DEF NexusInv

LEMMA ResetInv ==
    ASSUME NexusInv, NEW k \in Keys, Reset(k)
    PROVE  NexusInv'
<1>1. /\ stack' = stack /\ held' = held /\ owner' = owner /\ made' = made
      /\ nodes' = nodes /\ regs' = regs /\ map_' = [map_ EXCEPT ![k] = None]
  BY Zenon DEF Reset, callVars
<1>2. Typed'
  BY Zenon DEF NexusInv, Typed, Reset, callVars, janitorVars
<1>3. \A j \in Keys : map_'[j] # None => map_'[j] = map_[j]
  BY <1>1, Zenon DEF NexusInv, Typed
<1> QED
  BY <1>1, <1>2, <1>3, ThinnedInv, Zenon

LEMMA ClearInv ==
    ASSUME NexusInv, Clear
    PROVE  NexusInv'
<1>1. /\ stack' = stack /\ held' = held /\ owner' = owner /\ made' = made
      /\ nodes' = nodes /\ regs' = regs /\ map_' = [k \in Keys |-> None]
  BY Zenon DEF Clear, callVars
<1>2. Typed'
  BY Zenon DEF NexusInv, Typed, Clear, callVars, janitorVars
<1> QED
  BY <1>1, <1>2, ThinnedInv, Zenon

LEMMA SweepInv ==
    ASSUME NexusInv, Sweep
    PROVE  NexusInv'
<1>1. /\ stack' = stack /\ held' = held /\ owner' = owner /\ made' = made
      /\ nodes' = nodes /\ regs' = regs
      /\ map_' = [k \in Keys |-> IF Registered(k) THEN Swept(k) ELSE None]
  BY Zenon DEF Sweep, callVars
<1>2. ASSUME NEW k \in Keys, Registered(k), Swept(k) # None
      PROVE  /\ Swept(k) \in Slots /\ Swept(k).node = map_[k].node
             /\ Swept(k).factory = map_[k].factory /\ Swept(k).lt = map_[k].lt
             /\ Swept(k).reg = map_[k].reg
             /\ \/ Swept(k).obj = map_[k].obj
                \/ Swept(k).obj = None /\ map_[k].lt = "Timed"
  <2>1. map_[k] \in Slots
    BY <1>2, SlotFields, Zenon
  <2>2. CASE Swept(k) = map_[k]
    BY <2>1, <2>2, Zenon
  <2>3. CASE Swept(k) # map_[k]
    <3>1. map_[k].lt = "Timed" /\ Swept(k) = [map_[k] EXCEPT !.obj = None]
      BY <1>2, <2>3, Zenon DEF Swept, Expired
    <3>2. PICK s \in Slots : s = map_[k]
      BY <2>1, Zenon
    <3>3. /\ [s EXCEPT !.obj = None] \in Slots /\ [s EXCEPT !.obj = None].node = s.node
          /\ [s EXCEPT !.obj = None].factory = s.factory /\ [s EXCEPT !.obj = None].lt = s.lt
          /\ [s EXCEPT !.obj = None].reg = s.reg /\ [s EXCEPT !.obj = None].obj = None
      BY Zenon DEF Slots
    <3> QED
      BY <3>1, <3>2, <3>3, Zenon
  <2> QED
    BY <2>2, <2>3, Zenon
<1>3. map_' \in [Keys -> Slots \cup {None}]
  BY <1>1, <1>2, Zenon
<1>4. Typed'
  BY <1>3 DEF NexusInv, Typed, Sweep, callVars
<1>5. \A k \in Keys : map_'[k] # None =>
          /\ map_[k] # None /\ map_'[k].node = map_[k].node
          /\ map_'[k].factory = map_[k].factory /\ map_'[k].lt = map_[k].lt
          /\ map_'[k].reg = map_[k].reg
          /\ \/ map_'[k].obj = map_[k].obj
             \/ map_'[k].obj = None /\ map_[k].lt = "Timed"
  BY <1>1, <1>2, Zenon DEF Registered
<1> QED
  BY <1>1, <1>4, <1>5, ThinnedInv, Zenon

(* The slot that a registration of r leaves: its number is new, and so is  *)
(* its node unless the key had a slot.                                     *)
LEMMA RegisteredSlot ==
    ASSUME NexusInv, NEW r \in Registrations, Register(r)
    PROVE  \E w \in Slots :
               /\ map_' = [map_ EXCEPT ![r.key] = w]
               /\ w.node = IF Registered(r.key) THEN map_[r.key].node ELSE nodes + 1
               /\ w.reg = regs + 1
               /\ \/ w.factory = regs + 1 /\ w.obj = None
                  \/ w.factory = 0 /\ w.obj = [reg |-> regs + 1, n |-> 0]
<1>1. /\ r.key \in Keys /\ r.lt \in Lifetimes /\ r.how \in {"factory", "object"}
      /\ regs + 1 \in 1..MaxRegs /\ nodes + 1 \in 1..MaxRegs /\ time \in 0..MaxTime
  BY RegistrationsAssumption, BoundsAssumption DEF NexusInv, Typed, Register
<1>2. PICK s : /\ s = IF Registered(r.key) THEN map_[r.key] ELSE NewSlot
               /\ map_' = [map_ EXCEPT ![r.key] =
                      IF r.how = "factory"
                      THEN [s EXCEPT !.obj = None, !.factory = regs + 1, !.lt = r.lt,
                                     !.reg = regs + 1]
                      ELSE [s EXCEPT !.obj = [reg |-> regs + 1, n |-> 0], !.factory = 0,
                                     !.lt = r.lt, !.reg = regs + 1, !.last_touch = time]]
  BY Zenon DEF Register
<1>3. /\ s \in Slots
      /\ s.node = IF Registered(r.key) THEN map_[r.key].node ELSE nodes + 1
  <2>1. CASE Registered(r.key)
    BY <1>1, <1>2, <2>1, SlotFields, Zenon
  <2>2. CASE ~Registered(r.key)
    <3>1. 0 \in 0..MaxRegs /\ 0 \in 0..MaxTime /\ 1 \in 1..MaxRegs
      BY <1>1, BoundsAssumption
    <3> QED
      BY <1>1, <1>2, <2>2, <3>1, Zenon DEF NewSlot, Slots, Lifetimes
  <2> QED
    BY <2>1, <2>2, Zenon
<1>4. PICK m \in 1..MaxRegs : m = regs + 1
  BY <1>1, Zenon
<1>5. CASE r.how = "factory"
  <2>1. PICK w : w = [s EXCEPT !.obj = None, !.factory = m, !.lt = r.lt, !.reg = m]
    BY Zenon
  <2>2. m \in 0..MaxRegs
    OBVIOUS
  <2>3. /\ w \in Slots /\ w.node = s.node /\ w.reg = m /\ w.factory = m /\ w.obj = None
    BY <1>1, <1>3, <2>1, <2>2, Zenon DEF Slots
  <2> QED
    BY <1>2, <1>3, <1>4, <1>5, <2>1, <2>3, Zenon
<1>6. CASE r.how # "factory"
  <2>1. PICK o \in Instances : o = [reg |-> m, n |-> 0]
    BY Zenon DEF Instances
  <2>2. PICK w : w = [s EXCEPT !.obj = o, !.factory = 0, !.lt = r.lt, !.reg = m,
                               !.last_touch = time]
    BY Zenon
  <2>3. 0 \in 0..MaxRegs
    BY BoundsAssumption
  <2>4. /\ w \in Slots /\ w.node = s.node /\ w.reg = m /\ w.factory = 0 /\ w.obj = o
    BY <1>1, <1>3, <2>2, <2>3, Zenon DEF Slots
  <2> QED
    BY <1>2, <1>3, <1>4, <1>6, <2>1, <2>2, <2>4, Zenon
<1> QED
  BY <1>5, <1>6, Zenon

LEMMA RegisterInv ==
    ASSUME NexusInv, NEW r \in Registrations, Register(r)
    PROVE  NexusInv'
<1>1. PICK h \in Keys : h = r.key
  BY RegistrationsAssumption, Zenon
<1>2. PICK w \in Slots :
          /\ map_' = [map_ EXCEPT ![h] = w]
          /\ w.node = IF Registered(h) THEN map_[h].node ELSE nodes + 1
          /\ w.reg = regs + 1
          /\ \/ w.factory = regs + 1 /\ w.obj = None
             \/ w.factory = 0 /\ w.obj = [reg |-> regs + 1, n |-> 0]
  BY <1>1, RegisteredSlot, Zenon
<1>3. /\ stack' = stack /\ held' = held /\ owner' = owner /\ made' = made
      /\ regs' = regs + 1 /\ nodes' = IF Registered(h) THEN nodes ELSE nodes + 1
      /\ gets' = gets /\ time' = time /\ jnow' = jnow /\ jpc' = jpc /\ stop' = stop
      /\ regs < MaxRegs
  BY <1>1, Zenon DEF Register, callVars, janitorVars
<1>4. Typed
  BY Zenon DEF NexusInv
<1>5. /\ map_'[h] = w /\ \A k \in Keys : k # h => map_'[k] = map_[k]
      /\ map_' \in [Keys -> Slots \cup {None}] /\ w # None
  BY <1>2, <1>4, NoneAssumption, Zenon DEF Typed
<1>6. /\ regs \in Nat /\ nodes \in Nat /\ nodes' \in Nat /\ nodes <= nodes' /\ nodes' <= nodes + 1
      /\ regs + 1 \in 1..MaxRegs /\ regs' \in 0..MaxRegs /\ nodes' \in 0..regs'
  BY <1>3, <1>4, BoundsAssumption DEF Typed
<1>7. made[regs + 1] = 0 /\ \A q \in 1..MaxRegs : q > regs' => made'[q] = 0
  BY <1>3, <1>4, <1>6 DEF Typed
<1>8. Typed'
  BY <1>3, <1>4, <1>5, <1>6, <1>7, Zenon DEF Typed
<1>9. ASSUME NEW u \in Threads PROVE Shape(u)' /\ FramesOf(u)'
  <2>1. Shape(u) /\ FramesOf(u) /\ stack[u] \in Seq(Frames)
    BY <1>4, Zenon DEF NexusInv, Typed
  <2>2. ASSUME NEW i \in 1 .. Len(stack[u])
        PROVE  (FrameOK(stack[u][i]) /\ \A k \in Keys : FrameSlot(u, stack[u][i], k))'
    <3>1. PICK f \in Frames : f = stack[u][i]
      BY <2>1, ElementOfSeq, Zenon
    <3>2. /\ FrameOK(f) /\ \A k \in Keys : FrameSlot(u, f, k)
          /\ f.node \in Nat /\ f.factory \in Nat /\ f.node <= nodes /\ f.factory <= regs
      BY <2>1, <3>1, SMTT(30) DEF FramesOf, FrameOK, Frames
    <3>3. FrameOK(f)'
      <4>1. f.node <= nodes' /\ f.factory <= regs'
        BY <1>3, <1>6, <3>2
      <4> QED
        BY <1>3, <3>2, <4>1, Zenon DEF FrameOK
    <3>4. ASSUME NEW k \in Keys PROVE FrameSlot(u, f, k)'
      <4>1. FrameSlot(u, f, k)
        BY <3>2, Zenon
      <4>2. CASE k = h
        <5>1. w.reg # f.factory /\ f.factory <= w.reg
          BY <1>2, <1>6, <3>2
        <5>2. w.node = f.node => k = f.key
          <6>1. CASE Registered(h)
            BY <1>2, <4>1, <4>2, <6>1, Zenon DEF FrameSlot
          <6>2. CASE ~Registered(h)
            BY <1>2, <1>6, <3>2, <6>2
          <6> QED
            BY <6>1, <6>2, Zenon
        <5> QED
          BY <1>5, <4>2, <5>1, <5>2, Zenon DEF FrameSlot
      <4>3. CASE k # h
        BY <1>3, <1>5, <4>1, <4>3, Zenon DEF FrameSlot, Registered
      <4> QED
        BY <4>2, <4>3, Zenon
    <3> QED
      BY <1>3, <3>1, <3>3, <3>4, Zenon
  <2> QED
    BY <1>3, <2>1, <2>2, Zenon DEF Shape, FramesOf
<1>10. ASSUME NEW k \in Keys, Registered(k)
       PROVE  /\ map_[k].node \in Nat /\ map_[k].node <= nodes
              /\ map_[k].reg \in Nat /\ map_[k].reg <= regs
              /\ map_[k].obj # None => map_[k].obj.reg \in Nat /\ map_[k].obj.reg <= regs
  <2>1. /\ map_[k].node \in Nat /\ map_[k].reg \in Nat /\ SlotOK(k)
        /\ map_[k].obj \in Instances \cup {None}
    BY <1>10, SlotFields DEF NexusInv
  <2>2. map_[k].obj # None => map_[k].obj.reg \in Nat
    BY <2>1 DEF Instances
  <2> QED
    BY <1>6, <1>10, <2>1, <2>2 DEF SlotOK
<1>11. w.obj # None => w.obj.reg = regs + 1 /\ w.obj.n = 0 /\ w.factory = 0
  BY <1>2
<1>12. ASSUME NEW k \in Keys PROVE SlotOK(k)'
  <2>1. SlotOK(k)
    BY Zenon DEF NexusInv
  <2>2. CASE k = h
    <3>1. w.node <= nodes' /\ w.reg <= regs' /\ w.factory \in {0, w.reg}
      BY <1>2, <1>3, <1>6, <1>10
    <3>2. made'[w.reg] = 0 /\ (w.obj # None => w.obj.reg <= w.reg /\ w.obj.n <= made'[w.obj.reg])
      BY <1>2, <1>3, <1>6, <1>7, <1>11
    <3> QED
      BY <1>5, <1>11, <2>2, <3>1, <3>2 DEF SlotOK, InstanceSlot, InForce
  <2>3. CASE k # h
    <3>1. ASSUME Registered(k) PROVE map_[k].node <= nodes' /\ map_[k].reg <= regs'
      BY <1>3, <1>6, <1>10, <3>1
    <3>2. ASSUME NEW q, Storing(q) PROVE Storing(q)'
      BY <1>3, <3>2, Zenon DEF Storing
    <3> QED
      BY <1>3, <1>5, <2>1, <2>3, <3>1, <3>2, Zenon DEF SlotOK, Registered, InstanceSlot, InForce
  <2> QED
    BY <2>2, <2>3, Zenon
<1>13. ASSUME NEW j \in Keys, NEW k \in Keys PROVE SlotsApart(j, k)'
  <2>1. SlotsApart(j, k) /\ SlotsApart(h, k) /\ SlotsApart(j, h)
    BY Zenon DEF NexusInv
  <2>2. CASE j = h /\ k # h
    <3>1. ASSUME Registered(k) PROVE w.node # map_[k].node /\ w.reg # map_[k].reg
      BY <1>2, <1>6, <1>10, <2>1, <2>2, <3>1 DEF SlotsApart
    <3> QED
      BY <1>2, <1>5, <1>11, <2>2, <3>1, Zenon DEF SlotsApart, Registered
  <2>3. CASE j # h /\ k = h
    <3>1. ASSUME Registered(j)
          PROVE  /\ w.node # map_[j].node /\ w.reg # map_[j].reg
                 /\ map_[j].obj # None => map_[j].obj.reg # w.reg
      BY <1>2, <1>6, <1>10, <2>1, <2>3, <3>1 DEF SlotsApart
    <3> QED
      BY <1>5, <2>3, <3>1, Zenon DEF SlotsApart, Registered
  <2>4. CASE j # h /\ k # h
    BY <1>5, <2>1, <2>4, Zenon DEF SlotsApart, Registered
  <2> QED
    BY <2>2, <2>3, <2>4, Zenon DEF SlotsApart
<1>14. ASSUME NEW u \in Threads, NEW i \in held[u] PROVE HeldOK(i)'
  <2>1. HeldOK(i) /\ i \in Instances
    BY <1>4, Zenon DEF NexusInv, Typed
  <2>2. i.reg \in Nat /\ i.reg <= regs /\ i.reg <= regs' /\ i.reg # w.reg
    BY <1>2, <1>3, <1>6, <2>1, SMTT(30) DEF HeldOK, Instances
  <2>3. ASSUME NEW k \in Keys, InForce(k, i.reg)' PROVE map_'[k] = map_[k] /\ InForce(k, i.reg)
    BY <1>5, <2>2, <2>3, Zenon DEF InForce, Registered
  <2> QED
    BY <1>3, <2>1, <2>2, <2>3, Zenon DEF HeldOK, InstanceSlot
<1>15. \A n \in 1..MaxRegs : Owned(n)'
  BY <1>3, Zenon DEF NexusInv, Owned
<1> QED
  BY <1>3, <1>8, <1>9, <1>12, <1>13, <1>14, <1>15, Zenon DEF NexusInv

---------------------------------------------------------------------------
(* The steps of get() *)

(* get() finds the instance of its slot. *)
LEMMA FoundInv ==
    ASSUME NexusInv, NEW t \in Threads, stack[t] # << >>, SlotOf(t) # None,
           SlotOf(t).obj # None, Return(t, SlotOf(t)),
           made' = made, nodes' = nodes, regs' = regs, gets' = gets,
           time' = time, jnow' = jnow, jpc' = jpc, stop' = stop
    PROVE  NexusInv'
<1>1. PICK h \in Keys : h = Top(t).key /\ SlotOf(t) = map_[h] /\ Registered(h)
  BY TopFrame, Zenon DEF SlotOf, Registered
<1>2. PICK s \in Slots : s = map_[h]
  BY <1>1, SlotFields, Zenon
<1>3. /\ s.obj \in Instances /\ s.obj.reg <= map_[h].reg /\ s.obj.n <= made[s.obj.reg]
      /\ InstanceSlot(s.obj, h)
  BY <1>1, <1>2, SlotFields, Zenon DEF NexusInv, SlotOK
<1>4. \A k \in Keys : Registered(k) /\ k # h => s.obj.reg # map_[k].reg
  BY <1>1, <1>2, <1>3, NoneAssumption, Zenon DEF NexusInv, SlotsApart
<1>5. Return(t, s)
  BY <1>1, <1>2, Zenon
<1> HIDE DEF Return
<1> QED
  BY <1>1, <1>2, <1>3, <1>4, <1>5, ReturnInv, Zenon

LEMMA FastInv ==
    ASSUME NexusInv, NEW t \in Threads, Fast(t)
    PROVE  NexusInv'
<1>1. /\ made' = made /\ nodes' = nodes /\ regs' = regs /\ gets' = gets
      /\ time' = time /\ jnow' = jnow /\ jpc' = jpc /\ stop' = stop
      /\ At(t, "fast") /\ stack[t] # << >> /\ Top(t).pc = "fast"
  BY Zenon DEF Fast, janitorVars, At
<1>2. CASE Throw(t)
  <2>1. map_' = map_ /\ held' = held
    BY <1>2, Zenon DEF Throw
  <2> QED
    BY <1>1, <1>2, <2>1, NotStoring, ThrowInv, Zenon
<1>3. CASE SlotOf(t) # None /\ SlotOf(t).obj # None /\ Return(t, SlotOf(t))
  BY <1>1, <1>3, FoundInv, Zenon
<1>4. CASE GoTo(t, [Top(t) EXCEPT !.pc = "slow"]) /\ UNCHANGED <<map_, held, owner>>
  BY <1>1, <1>4, FastSlowInv, Zenon
<1> QED
  BY <1>2, <1>3, <1>4, Zenon DEF Fast

LEMMA SlowStepInv ==
    ASSUME NexusInv, NEW t \in Threads, Slow(t)
    PROVE  NexusInv'
<1>1. /\ made' = made /\ nodes' = nodes /\ regs' = regs /\ gets' = gets
      /\ time' = time /\ jnow' = jnow /\ jpc' = jpc /\ stop' = stop
      /\ At(t, "slow") /\ stack[t] # << >> /\ Top(t).pc = "slow"
  BY Zenon DEF Slow, janitorVars, At
<1>2. CASE Throw(t)
  <2>1. map_' = map_ /\ held' = held
    BY <1>2, Zenon DEF Throw
  <2> QED
    BY <1>1, <1>2, <2>1, NotStoring, ThrowInv, Zenon
<1>3. CASE /\ SlotOf(t) # None
           /\ GoTo(t, [Top(t) EXCEPT !.pc = "lock", !.node = SlotOf(t).node,
                                     !.factory = SlotOf(t).factory])
           /\ UNCHANGED <<map_, held, owner>>
  BY <1>1, <1>3, SlowInv, Zenon
<1> QED
  BY <1>2, <1>3, Zenon DEF Slow

LEMMA CheckInv ==
    ASSUME NexusInv, NEW t \in Threads, Check(t)
    PROVE  NexusInv'
<1>1. /\ made' = made /\ nodes' = nodes /\ regs' = regs /\ gets' = gets
      /\ time' = time /\ jnow' = jnow /\ jpc' = jpc /\ stop' = stop
      /\ At(t, "check") /\ stack[t] # << >> /\ Top(t).pc = "check"
  BY Zenon DEF Check, janitorVars, At
<1>2. CASE Throw(t)
  <2>1. map_' = map_ /\ held' = held
    BY <1>2, Zenon DEF Throw
  <2> QED
    BY <1>1, <1>2, <2>1, NotStoring, ThrowInv, Zenon
<1>3. CASE SlotOf(t) # None /\ SlotOf(t).obj # None /\ Return(t, SlotOf(t))
  BY <1>1, <1>3, FoundInv, Zenon
<1>4. CASE /\ ~(SlotOf(t) # None /\ SlotOf(t).obj # None) /\ Top(t).factory # 0
           /\ GoTo(t, [Top(t) EXCEPT !.pc = "construct"])
           /\ UNCHANGED <<map_, held, owner>>
  BY <1>1, <1>4, CheckConstructInv, Zenon
<1> QED
  BY <1>2, <1>3, <1>4, Zenon DEF Check

LEMMA CreateStepInv ==
    ASSUME NexusInv, NEW t \in Threads, Create(t)
    PROVE  NexusInv'
<1>1. /\ nodes' = nodes /\ regs' = regs /\ gets' = gets
      /\ time' = time /\ jnow' = jnow /\ jpc' = jpc /\ stop' = stop
      /\ At(t, "create") /\ stack[t] # << >> /\ Top(t).pc = "create"
  BY Zenon DEF Create, janitorVars, At
<1>2. CASE Throw(t) /\ made' = made
  <2>1. map_' = map_ /\ held' = held
    BY <1>2, Zenon DEF Throw
  <2> QED
    BY <1>1, <1>2, <2>1, NotStoring, ThrowInv, Zenon
<1>3. CASE /\ made' = [made EXCEPT ![Top(t).factory] = @ + 1]
           /\ GoTo(t, [Top(t) EXCEPT !.pc = "store",
                        !.new = [reg |-> Top(t).factory, n |-> made[Top(t).factory] + 1]])
           /\ UNCHANGED <<map_, held, owner>>
  BY <1>1, <1>3, CreateInv, Zenon
<1> QED
  BY <1>2, <1>3, Zenon DEF Create

(* The instance goes into the slot the key has now, whose registration is  *)
(* the factory's or a later one.                                           *)
LEMMA StoreInv ==
    ASSUME NexusInv, NEW t \in Threads, Store(t)
    PROVE  NexusInv'
<1>1. /\ made' = made /\ nodes' = nodes /\ regs' = regs /\ gets' = gets
      /\ time' = time /\ jnow' = jnow /\ jpc' = jpc /\ stop' = stop
      /\ stack[t] # << >> /\ Top(t).pc = "store"
  BY Zenon DEF Store, janitorVars, At
<1>2. /\ Top(t) \in Frames /\ FrameOK(Top(t)) /\ Len(stack[t]) \in 1 .. 2
      /\ Top(t) = stack[t][Len(stack[t])] /\ \A k \in Keys : FrameSlot(t, Top(t), k)
  BY <1>1, TopFrame, Zenon
<1>3. CASE SlotOf(t) = None /\ Throw(t)
  <2>1. map_' = map_ /\ held' = held
    BY <1>3, Zenon DEF Throw
  <2>2. ASSUME NEW i \in 1 .. Len(stack[t]), NEW k \in Keys,
               stack[t][i].pc = "store", InForce(k, stack[t][i].factory)
        PROVE  FALSE
    <3>1. i = Len(stack[t])
      <4>1. CASE Len(stack[t]) = 2
        BY <1>1, <2>2, <4>1, LowerNode, SMTT(30)
      <4>2. CASE Len(stack[t]) = 1
        BY <4>2
      <4> QED
        BY <1>2, <4>1, <4>2
    <3> QED
      BY <1>2, <1>3, <2>2, <3>1, Zenon DEF FrameSlot, InForce, SlotOf, Registered
  <2> QED
    BY <1>1, <1>3, <2>1, <2>2, ThrowInv, Zenon
<1>4. CASE /\ SlotOf(t) # None
           /\ Return(t, [SlotOf(t) EXCEPT !.obj = Top(t).new, !.last_touch = time])
  <2>1. PICK h \in Keys : h = Top(t).key /\ SlotOf(t) = map_[h] /\ Registered(h)
    BY <1>1, <1>4, TopFrame, Zenon DEF SlotOf, Registered
  <2>2. PICK o \in Instances : /\ o = Top(t).new /\ o.reg = Top(t).factory
                               /\ o.n # 0 /\ o.n <= made[o.reg]
    BY <1>1, <1>2, Zenon DEF FrameOK, Frames
  <2>3. PICK v \in Slots, now \in 0..MaxTime : v = map_[h] /\ now = time
    BY <2>1, SlotFields, Zenon DEF NexusInv, Typed
  <2>4. PICK s : s = [v EXCEPT !.obj = o, !.last_touch = now]
    BY Zenon
  <2>5. /\ s \in Slots /\ s.node = v.node /\ s.factory = v.factory /\ s.lt = v.lt
        /\ s.reg = v.reg /\ s.obj = o
    BY <2>4, Zenon DEF Slots
  <2>6. Return(t, s)
    BY <1>4, <2>1, <2>2, <2>3, <2>4, Zenon
  <2>7. o.reg <= map_[h].reg /\ InstanceSlot(o, h)
    BY <1>1, <1>2, <2>1, <2>2, Zenon DEF FrameSlot, InstanceSlot, InForce, FrameOK
  <2>8. \A k \in Keys : Registered(k) /\ k # h => o.reg # map_[k].reg
    BY <1>2, <2>1, <2>2, Zenon DEF FrameSlot
  <2> HIDE DEF Return
  <2> QED
    BY <1>1, <2>1, <2>2, <2>3, <2>5, <2>6, <2>7, <2>8, ReturnInv, SMTT(30)
<1> QED
  BY <1>3, <1>4, Zenon DEF Store

---------------------------------------------------------------------------

(* A step of the clock, of the janitor between two sweeps, or of a caller  *)
(* that lets go of an instance.                                            *)
LEMMA QuietInv ==
    ASSUME NexusInv, Typed', map_' = map_, owner' = owner, nodes' = nodes, regs' = regs,
           made' = made, stack' = stack, \A t \in Threads : held'[t] \subseteq held[t]
    PROVE  NexusInv'
<1>1. ASSUME NEW u \in Threads PROVE Shape(u)' /\ FramesOf(u)'
  <2>1. Shape(u) /\ FramesOf(u)
    BY Zenon DEF NexusInv
  <2>2. Shape(u)'
    BY <2>1, Zenon DEF Shape
  <2>3. ASSUME NEW i \in 1 .. Len(stack[u]) PROVE FrameOK(stack[u][i])'
    BY <2>1, Zenon DEF FramesOf, FrameOK
  <2>4. ASSUME NEW i \in 1 .. Len(stack[u]), NEW k \in Keys PROVE FrameSlot(u, stack[u][i], k)'
    <3>1. FrameSlot(u, stack[u][i], k)
      BY <2>1, Zenon DEF FramesOf
    <3> QED
      BY <3>1, Zenon DEF FrameSlot, Registered
  <2> QED
    BY <2>2, <2>3, <2>4, Zenon DEF FramesOf
<1>2. ASSUME NEW k \in Keys PROVE SlotOK(k)'
  <2>1. SlotOK(k)
    BY Zenon DEF NexusInv
  <2> QED
    BY <2>1, Zenon DEF SlotOK, Storing, Registered, InstanceSlot, InForce
<1>3. \A j, k \in Keys : SlotsApart(j, k)'
  BY Zenon DEF NexusInv, SlotsApart, Registered
<1>4. \A t \in Threads : \A i \in held'[t] : HeldOK(i)'
  BY Zenon DEF NexusInv, HeldOK, InForce, Registered, InstanceSlot
<1>5. \A n \in 1..MaxRegs : Owned(n)'
  BY Zenon DEF NexusInv, Owned
<1> QED
  BY <1>1, <1>2, <1>3, <1>4, <1>5, Zenon DEF NexusInv

LEMMA StepInv ==
    ASSUME NexusInv, NEW t \in Threads, Step(t)
    PROVE  NexusInv'
BY FastInv, SlowStepInv, LockInv, CheckInv, ConstructInv, CreateStepInv, StoreInv, Zenon DEF Step

LEMMA NextNexusInv == NexusInv /\ [Next]_vars => NexusInv'
<1> SUFFICES ASSUME NexusInv, [Next]_vars PROVE NexusInv'
  BY Zenon
<1> USE DEF callVars, registryVars, janitorVars
<1>1. Typed
  BY Zenon DEF NexusInv
<1>2. CASE Constructed \/ Destroy
  <2>1. Typed'
    BY <1>1, <1>2, Zenon DEF Constructed, Destroy, Typed
  <2> QED
    BY <1>2, <2>1, QuietInv, Zenon DEF Constructed, Destroy
<1>3. CASE Tick
  <2>1. time' \in 0..MaxTime /\ jnow' \in 0..time'
    BY <1>1, <1>3, BoundsAssumption DEF Tick, Typed
  <2>2. Typed'
    BY <1>1, <1>3, <2>1, Zenon DEF Tick, Typed
  <2> QED
    BY <1>3, <2>2, QuietInv, Zenon DEF Tick
<1>4. CASE JanitorTest \/ JanitorWake
  <2>1. jpc' \in {"test", "sleep", "sweep", "exited", "asleep"} /\ jnow' \in 0..time
    BY <1>1, <1>4 DEF JanitorTest, JanitorWake, StopRead, Typed
  <2>2. Typed'
    BY <1>1, <1>4, <2>1, Zenon DEF JanitorTest, JanitorWake, Typed
  <2> QED
    BY <1>4, <2>2, QuietInv, Zenon DEF JanitorTest, JanitorWake
<1>5. CASE \E t \in Threads : \E i \in held[t] : Drop(t, i)
  <2>1. PICK t \in Threads : \E i \in held[t] : Drop(t, i)
    BY <1>5, Zenon
  <2>2. PICK i \in held[t] : Drop(t, i)
    BY <2>1, Zenon
  <2>3. held' \in [Threads -> SUBSET Instances] /\ \A u \in Threads : held'[u] \subseteq held[u]
    BY <1>1, <2>2, Zenon DEF Drop, Typed
  <2>4. Typed'
    BY <1>1, <2>2, <2>3, Zenon DEF Drop, Typed
  <2> QED
    BY <2>2, <2>3, <2>4, QuietInv, Zenon DEF Drop
<1>6. CASE UNCHANGED vars
  <2>1. Typed'
    BY <1>1, <1>6, Zenon DEF vars, Typed
  <2> QED
    BY <1>6, <2>1, QuietInv, Zenon DEF vars
<1>7. CASE \E r \in Registrations : Register(r)
  BY <1>7, RegisterInv, Zenon
<1>8. CASE \E k \in Keys : Reset(k)
  BY <1>8, ResetInv, Zenon
<1>9. CASE Clear
  BY <1>9, ClearInv, Zenon
<1>10. CASE \E t \in Threads : Step(t)
  BY <1>10, StepInv, Zenon
<1>11. CASE \E t \in Threads, k \in Keys : Get(t, k)
  BY <1>11, GetInv, Zenon
<1>12. CASE Sweep
  BY <1>12, SweepInv, Zenon
<1> QED
  BY <1>2, <1>3, <1>4, <1>5, <1>6, <1>7, <1>8, <1>9, <1>10, <1>11, <1>12, Zenon DEF Next, Janitor

LEMMA InitNexusInv == Init => NexusInv
<1> SUFFICES ASSUME Init PROVE NexusInv
  BY Zenon
<1>1. Typed
  <2>1. stack \in [Threads -> Seq(Frames)]
    BY EmptySeq, Zenon DEF Init
  <2> QED
    BY <2>1, BoundsAssumption DEF Init, Typed
<1>2. ASSUME NEW t \in Threads PROVE Shape(t) /\ FramesOf(t) /\ held[t] = {}
  <2>1. stack[t] = << >> /\ Len(stack[t]) = 0 /\ held[t] = {}
    BY Zenon DEF Init
  <2> QED
    BY <2>1 DEF Shape, FramesOf
<1>3. \A k \in Keys : ~Registered(k)
  BY Zenon DEF Init, Registered
<1>4. \A n \in 1..MaxRegs : Owned(n)
  BY Zenon DEF Init, Owned
<1> QED
  BY <1>1, <1>2, <1>3, <1>4, Zenon DEF NexusInv, SlotOK, SlotsApart

LEMMA NexusInvariant == Spec => []NexusInv
<1>1. Init => NexusInv
  BY InitNexusInv, Zenon
<1>2. NexusInv /\ [Next]_vars => NexusInv'
  BY NextNexusInv, Zenon
<1> QED
  BY <1>1, <1>2, PTL DEF Spec

(* "Thread-safe: prevents duplicate construction": for any threads, keys   *)
(* and registrations, the factory of a registration in force that is not   *)
(* Timed has made one instance at most, whatever calls of get() race for   *)
(* it and whatever is registered, reset, cleared or swept meanwhile; and   *)
(* every way out of get() unlocks the construction mutex.                  *)
THEOREM NexusConstructsOnce == Spec => []ConstructedOnce
<1>1. NexusInv => ConstructedOnce
  <2> SUFFICES ASSUME NexusInv PROVE ConstructedOnce
    BY Zenon
  <2>1. ASSUME NEW t \in Threads
        PROVE  Range(stack[t]) \subseteq Frames /\ held[t] \subseteq Instances
    <3>1. stack[t] \in Seq(Frames) /\ held[t] \subseteq Instances
      BY Zenon DEF NexusInv, Typed
    <3> QED
      BY <3>1, ElementOfSeq, LenProperties, Zenon DEF Range
  <2>2. ASSUME NEW n \in 1..MaxRegs, owner[n] # None
        PROVE  \E f \in Locked(owner[n]) : f.node = n
    <3>1. PICK t \in Threads : t = owner[n]
      BY <2>2, Zenon DEF NexusInv, Typed
    <3>2. PICK i \in 1 .. Len(stack[t]) : stack[t][i].node = n /\ stack[t][i].pc \in PastLock
      BY <2>2, <3>1, Zenon DEF NexusInv, Owned
    <3>3. stack[t][i] \in Range(stack[t])
      BY <3>2, LenProperties, Zenon DEF Range, NexusInv, Typed
    <3> QED
      BY <3>1, <3>2, <3>3, Zenon DEF Locked, PastLock
  <2>3. TypeOK
    <3>1. nodes \in 0..MaxRegs
      BY BoundsAssumption DEF NexusInv, Typed
    <3> QED
      BY <2>1, <2>2, <3>1, Zenon DEF NexusInv, Typed, TypeOK
  <2>4. ASSUME NEW k \in Keys, Registered(k), map_[k].lt # "Timed"
        PROVE  made[map_[k].reg] <= 1
    BY <2>4, Zenon DEF NexusInv, SlotOK
  <2> QED
    BY <2>3, <2>4, Zenon DEF ConstructedOnce
<1> QED
  BY <1>1, NexusInvariant, PTL

(* "Later calls to get() return the same instance": while a caller holds   *)
(* the instance of a registration in force that is not Timed, the slot has *)
(* that instance, or a late one of an earlier registration.                *)
THEOREM NexusSameInstance == Spec => []SameInstance
<1>1. NexusInv => SameInstance
  <2> SUFFICES ASSUME NexusInv, NEW t \in Threads, NEW i \in held[t], NEW k \in Keys,
                      Registered(k), map_[k].reg = i.reg, map_[k].lt # "Timed",
                      map_[k].obj # i
               PROVE  map_[k].obj # None /\ map_[k].obj.reg < i.reg
    BY Zenon DEF SameInstance
  <2>1. i \in Instances /\ HeldOK(i) /\ SlotOK(k) /\ map_[k].obj \in Instances \cup {None}
    BY SlotFields, Zenon DEF NexusInv, Typed
  <2>2. InForce(k, i.reg) /\ map_[k].obj # None /\ InstanceSlot(i, k)
    BY <2>1, Zenon DEF InForce, HeldOK
  <2>3. PICK o \in Instances : o = map_[k].obj
    BY <2>1, <2>2, Zenon
  <2>4. /\ o.reg <= i.reg /\ o.n <= made[o.reg] /\ i.n <= made[i.reg]
        /\ InstanceSlot(o, k) /\ made[i.reg] <= 1
    BY <2>1, <2>2, <2>3, Zenon DEF SlotOK, HeldOK
  <2>5. /\ o.reg \in Nat /\ o.n \in Nat /\ i.reg \in 1..MaxRegs /\ i.n \in Nat
        /\ made[i.reg] \in Nat
    BY <2>1, SMTT(30) DEF Instances, NexusInv, Typed
  <2>6. ASSUME o.reg = i.reg PROVE FALSE
    <3>1. o.n = 0 <=> i.n = 0
      BY <2>2, <2>4, <2>6, Zenon DEF InstanceSlot, InForce
    <3>2. o.n <= 1 /\ i.n <= 1
      BY <2>4, <2>5, <2>6, SMTT(30)
    <3>3. o.n = i.n
      BY <2>5, <3>1, <3>2
    <3>4. o = i
      BY <2>1, <2>6, <3>3 DEF Instances
    <3> QED
      BY <2>3, <3>4, Zenon
  <2> QED
    BY <2>2, <2>3, <2>4, <2>5, <2>6
<1> QED
  BY <1>1, NexusInvariant, PTL
=============================================================================
