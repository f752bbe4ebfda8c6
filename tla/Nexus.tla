------------------------------- MODULE Nexus -------------------------------
(***************************************************************************)
(* The service container Nexus (common/nexus).                             *)
(*                                                                         *)
(* A step is a critical section of mtx_, or what a thread does between two *)
(* of them.  A call of get() is a frame; a factory that gets the service it *)
(* depends on pushes another frame.  A registration is numbered, and a     *)
(* factory and the instances it makes carry its number.  The node of the   *)
(* map that holds a slot is numbered too: erasing a slot frees the node    *)
(* and the construction mutex in it, which get() reaches by a pointer.     *)
(* Locking freed memory is undefined; the model lets it succeed at once.   *)
(* expired_flag is never set by the code and is left out.                  *)
(***************************************************************************)
EXTENDS Naturals, Sequences, Functions

CONSTANTS
    Threads,        \* threads that call get()
    Keys,           \* (type, id) pairs
    DependsOn,      \* [Keys -> Keys \cup {None}]: what the factory gets
    Registrations,  \* what the program registers: [key, lt, how]
    MaxRegs,        \* bound: registrations in a behaviour
    MaxGets,        \* bound: outermost calls of get() in a behaviour
    MaxTime,        \* bound: the clock
    Idle,           \* Timed::idle
    None

Lifetimes == {"Resettable", "Immortal", "Scoped", "Timed"}

ASSUME RegistrationsAssumption ==
    Registrations \subseteq [key : Keys, lt : Lifetimes, how : {"factory", "object"}]

(* No service depends on itself: the factories of a cycle would wait for   *)
(* each other's construction mutex.                                        *)
ASSUME AcyclicAssumption ==
    /\ DependsOn \in [Keys -> Keys \cup {None}]
    /\ \A k \in Keys : DependsOn[k] # None => DependsOn[DependsOn[k]] = None

ASSUME BoundsAssumption ==
    MaxRegs \in Nat /\ MaxGets \in Nat /\ MaxTime \in Nat /\ Idle \in Nat

VARIABLES
    map_,      \* [Keys -> slot or None]
    owner,     \* node -> the thread that holds its construction mutex
    nodes,     \* number of nodes allocated
    regs,      \* number of registrations
    made,      \* registration -> instances its factory made
    stack,     \* thread -> frames of get(), innermost last
    held,      \* thread -> instances its callers hold
    gets,      \* outermost calls of get() so far
    time,      \* steady_clock
    jpc, jnow, \* the janitor: where it is, the time its sweep read
    stop       \* stop_ (and with it sweep_interval_): "uninitialized", or
               \* what stop_ holds, "false" or "true"

callVars == <<stack, held, gets>>
registryVars == <<map_, nodes, regs>>
janitorVars == <<jpc, jnow, stop>>
vars == <<map_, owner, nodes, regs, made, stack, held, gets, time, jpc, jnow, stop>>

Instances == [reg : 1..MaxRegs, n : Nat]

Slots ==
    [node : 1..MaxRegs, obj : Instances \cup {None}, factory : 0..MaxRegs,
     lt : Lifetimes, reg : 1..MaxRegs, last_touch : 0..MaxTime]

Frames ==
    [pc : {"fast", "slow", "lock", "check", "construct", "create", "store"},
     key : Keys, node : 0..MaxRegs, factory : 0..MaxRegs,
     new : Instances \cup {None}]

ASSUME NoneAssumption == None \notin (Threads \cup Keys \cup Instances \cup Slots)

(* The innermost call of t, and those that wait for it. *)
Top(t) == stack[t][Len(stack[t])]
Below(t) == SubSeq(stack[t], 1, Len(stack[t]) - 1)

At(t, pc) == stack[t] # <<>> /\ Top(t).pc = pc
SlotOf(t) == map_[Top(t).key]
Registered(k) == map_[k] # None
Alive(n) == \E k \in Keys : Registered(k) /\ map_[k].node = n

(* The frames of t that have locked their construction mutex. *)
Locked(t) == {f \in Range(stack[t]) : f.pc \in {"check", "construct", "create", "store"}}

Init ==
    /\ map_ = [k \in Keys |-> None]
    /\ owner = [n \in 1..MaxRegs |-> None]
    /\ nodes = 0 /\ regs = 0
    /\ made = [r \in 1..MaxRegs |-> 0]
    /\ stack = [t \in Threads |-> <<>>]
    /\ held = [t \in Threads |-> {}]
    /\ gets = 0 /\ time = 0
    /\ jpc = "test" /\ jnow = 0
    /\ stop = "uninitialized"

---------------------------------------------------------------------------
(* Construction and destruction *)

(* The janitor is running by the time stop_ is initialized: the members    *)
(* are initialized in the order of their declarations.                     *)
Constructed ==
    /\ stop = "uninitialized"
    /\ stop' = "false"
    /\ UNCHANGED <<registryVars, owner, made, callVars, time, jpc, jnow>>

InUse == stop = "false"

(* The owner destroys the container when nobody is in a call. *)
Destroy ==
    /\ InUse
    /\ \A t \in Threads : stack[t] = <<>>
    /\ stop' = "true"
    /\ UNCHANGED <<registryVars, owner, made, callVars, time, jpc, jnow>>

---------------------------------------------------------------------------
(* Registration *)

NewSlot == [node |-> nodes + 1, obj |-> None, factory |-> 0, lt |-> "Resettable",
            reg |-> 1, last_touch |-> 0]

(* register_instance and register_singleton.  map_[k] creates the slot     *)
(* when there is none; registering a factory leaves last_touch alone.      *)
Register(r) ==
    /\ InUse
    /\ regs < MaxRegs
    /\ regs' = regs + 1
    /\ LET s == IF Registered(r.key) THEN map_[r.key] ELSE NewSlot
           n == regs + 1
       IN  /\ map_' = [map_ EXCEPT ![r.key] =
                  IF r.how = "factory"
                  THEN [s EXCEPT !.obj = None, !.factory = n, !.lt = r.lt, !.reg = n]
                  ELSE [s EXCEPT !.obj = [reg |-> n, n |-> 0], !.factory = 0,
                                 !.lt = r.lt, !.reg = n, !.last_touch = time]]
           /\ nodes' = IF Registered(r.key) THEN nodes ELSE nodes + 1
    /\ UNCHANGED <<owner, made, callVars, time, janitorVars>>

(* reset<T>(): throws, changing nothing, unless the slot is Resettable. *)
Reset(k) ==
    /\ InUse
    /\ Registered(k) /\ map_[k].lt = "Resettable"
    /\ map_' = [map_ EXCEPT ![k] = None]
    /\ UNCHANGED <<owner, nodes, regs, made, callVars, time, janitorVars>>

Clear ==
    /\ InUse
    /\ \E k \in Keys : Registered(k)
    /\ map_' = [k \in Keys |-> None]
    /\ UNCHANGED <<owner, nodes, regs, made, callVars, time, janitorVars>>

---------------------------------------------------------------------------
(* get() *)

NewFrame(k) == [pc |-> "fast", key |-> k, node |-> 0, factory |-> 0, new |-> None]

Get(t, k) ==
    /\ InUse
    /\ stack[t] = <<>> /\ gets < MaxGets
    /\ gets' = gets + 1
    /\ stack' = [stack EXCEPT ![t] = <<NewFrame(k)>>]
    /\ UNCHANGED <<registryVars, owner, made, held, time, janitorVars>>

GoTo(t, f) == stack' = [stack EXCEPT ![t] = Append(Below(t), f)]

(* build_handle: a Timed slot is touched. *)
Touched(s) == IF s.lt = "Timed" THEN [s EXCEPT !.last_touch = time] ELSE s

(* The innermost get() of t returns a handle to the instance of slot s;    *)
(* lock_guard unlocks.                                                     *)
Return(t, s) ==
    /\ map_' = [map_ EXCEPT ![Top(t).key] = Touched(s)]
    /\ held' = [held EXCEPT ![t] = @ \cup {s.obj}]
    /\ stack' = [stack EXCEPT ![t] = Below(t)]
    /\ owner' = [n \in DOMAIN owner |->
                    IF n = Top(t).node /\ owner[n] = t THEN None ELSE owner[n]]

(* Fault: the exception leaves the construction mutexes locked. *)
ThrowLocked(t) ==
    /\ stack' = [stack EXCEPT ![t] = <<>>]
    /\ UNCHANGED <<map_, held, owner>>

(* An exception leaves get(), and the factories that called it. *)
Throw(t) ==
    /\ stack' = [stack EXCEPT ![t] = <<>>]
    /\ owner' = [n \in DOMAIN owner |-> IF owner[n] = t THEN None ELSE owner[n]]
    /\ UNCHANGED <<map_, held>>

(* The first critical section: the instance is there, or the key is not    *)
(* registered, or it has to be constructed.                                *)
Fast(t) ==
    /\ At(t, "fast")
    /\ \/ SlotOf(t) = None /\ Throw(t)
       \/ SlotOf(t) # None /\ SlotOf(t).obj # None /\ Return(t, SlotOf(t))
       \/ /\ SlotOf(t) # None /\ SlotOf(t).obj = None
          /\ GoTo(t, [Top(t) EXCEPT !.pc = "slow"])
          /\ UNCHANGED <<map_, held, owner>>
    /\ UNCHANGED <<nodes, regs, made, gets, time, janitorVars>>

(* The second: a pointer to the mutex and a copy of the factory. *)
Slow(t) ==
    /\ At(t, "slow")
    /\ \/ SlotOf(t) = None /\ Throw(t)
       \/ /\ SlotOf(t) # None
          /\ GoTo(t, [Top(t) EXCEPT !.pc = "lock", !.node = SlotOf(t).node,
                                    !.factory = SlotOf(t).factory])
          /\ UNCHANGED <<map_, held, owner>>
    /\ UNCHANGED <<nodes, regs, made, gets, time, janitorVars>>

(* Fault: the construction mutex is not taken. *)
LockSkipped(t) ==
    /\ At(t, "lock")
    /\ GoTo(t, [Top(t) EXCEPT !.pc = "check"])
    /\ UNCHANGED <<registryVars, owner, made, held, gets, time, janitorVars>>

Lock(t) ==
    /\ At(t, "lock")
    /\ LET n == Top(t).node
       IN  \/ Alive(n) /\ owner[n] = None /\ owner' = [owner EXCEPT ![n] = t]
           \/ ~Alive(n) /\ UNCHANGED owner
    /\ GoTo(t, [Top(t) EXCEPT !.pc = "check"])
    /\ UNCHANGED <<registryVars, made, held, gets, time, janitorVars>>

(* Fault: the instance is not looked for again with the mutex locked. *)
CheckSkipped(t) ==
    /\ At(t, "check")
    /\ \/ Top(t).factory = 0 /\ Throw(t)
       \/ /\ Top(t).factory # 0
          /\ GoTo(t, [Top(t) EXCEPT !.pc = "construct"])
          /\ UNCHANGED <<map_, held, owner>>
    /\ UNCHANGED <<nodes, regs, made, gets, time, janitorVars>>

(* The double check; a key that has gone is not noticed here.  Without a   *)
(* factory get() throws.                                                   *)
Check(t) ==
    /\ At(t, "check")
    /\ LET found == SlotOf(t) # None /\ SlotOf(t).obj # None
       IN  \/ found /\ Return(t, SlotOf(t))
           \/ ~found /\ Top(t).factory = 0 /\ Throw(t)
           \/ /\ ~found /\ Top(t).factory # 0
              /\ GoTo(t, [Top(t) EXCEPT !.pc = "construct"])
              /\ UNCHANGED <<map_, held, owner>>
    /\ UNCHANGED <<nodes, regs, made, gets, time, janitorVars>>

(* The factory starts, and gets what it depends on.  External. *)
Construct(t) ==
    /\ At(t, "construct")
    /\ LET k == DependsOn[Top(t).key]
           f == [Top(t) EXCEPT !.pc = "create"]
       IN  stack' = [stack EXCEPT ![t] =
               Append(Below(t), f) \o (IF k = None THEN <<>> ELSE <<NewFrame(k)>>)]
    /\ UNCHANGED <<registryVars, owner, made, held, gets, time, janitorVars>>

(* The factory makes an instance, or throws.  External. *)
Create(t) ==
    /\ At(t, "create")
    /\ \/ Throw(t) /\ UNCHANGED made
       \/ LET r == Top(t).factory
          IN  /\ made' = [made EXCEPT ![r] = @ + 1]
              /\ GoTo(t, [Top(t) EXCEPT !.pc = "store",
                              !.new = [reg |-> r, n |-> made[r] + 1]])
              /\ UNCHANGED <<map_, held, owner>>
    /\ UNCHANGED <<nodes, regs, gets, time, janitorVars>>

(* The last critical section stores into whatever slot the key has now. *)
Store(t) ==
    /\ At(t, "store")
    /\ \/ SlotOf(t) = None /\ Throw(t)
       \/ /\ SlotOf(t) # None
          /\ Return(t, [SlotOf(t) EXCEPT !.obj = Top(t).new, !.last_touch = time])
    /\ UNCHANGED <<nodes, regs, made, gets, time, janitorVars>>

(* A caller lets go of its handles to an instance. *)
Drop(t, i) ==
    /\ i \in held[t]
    /\ held' = [held EXCEPT ![t] = @ \ {i}]
    /\ UNCHANGED <<registryVars, owner, made, stack, gets, time, janitorVars>>

---------------------------------------------------------------------------
(* The janitor *)

Tick ==
    /\ InUse
    /\ time < MaxTime
    /\ time' = time + 1
    /\ UNCHANGED <<registryVars, owner, made, callVars, janitorVars>>

(* Where the test of stop_ and the read of sweep_interval_ send the        *)
(* janitor.  Before the two are initialized they may hold anything: the    *)
(* janitor may end at once, or fall asleep for good.                       *)
StopRead ==
    CASE stop = "uninitialized" -> {"exited", "sleep", "asleep"}
      [] stop = "false" -> {"sleep"}
      [] stop = "true" -> {"exited"}

JanitorTest ==
    /\ jpc = "test"
    /\ jpc' \in StopRead
    /\ UNCHANGED <<registryVars, owner, made, callVars, time, jnow, stop>>

(* sweep() reads the clock before it takes mtx_. *)
JanitorWake ==
    /\ jpc = "sleep"
    /\ jpc' = "sweep" /\ jnow' = time
    /\ UNCHANGED <<registryVars, owner, made, callVars, time, stop>>

(* use_count() = 1: neither a caller nor another slot has the instance. *)
Unused(k) ==
    /\ \A t \in Threads : map_[k].obj \notin held[t]
    /\ \A j \in Keys \ {k} : Registered(j) => map_[j].obj # map_[k].obj

(* Fault: the two times are subtracted the wrong way round. *)
ExpiredBackwards(s) == s.lt = "Timed" /\ s.last_touch > jnow + Idle

Expired(s) == s.lt = "Timed" /\ jnow > s.last_touch + Idle

(* What the sweep makes of slot k: a Scoped slot that nobody uses is       *)
(* erased, a Timed slot that was not touched for long loses its instance,  *)
(* whether that is in use or not.                                          *)
Swept(k) ==
    IF map_[k].lt = "Scoped" /\ map_[k].obj # None /\ Unused(k) THEN None
    ELSE IF Expired(map_[k]) THEN [map_[k] EXCEPT !.obj = None]
    ELSE map_[k]

Sweep ==
    /\ jpc = "sweep"
    /\ map_' = [k \in Keys |-> IF Registered(k) THEN Swept(k) ELSE None]
    /\ jpc' = "test" /\ jnow' = 0
    /\ UNCHANGED <<owner, nodes, regs, made, callVars, time, stop>>

Janitor == JanitorTest \/ JanitorWake \/ Sweep

---------------------------------------------------------------------------

Step(t) ==
    \/ Fast(t) \/ Slow(t) \/ Lock(t) \/ Check(t)
    \/ Construct(t) \/ Create(t) \/ Store(t)

Next ==
    \/ Constructed \/ Destroy
    \/ \E r \in Registrations : Register(r)
    \/ \E k \in Keys : Reset(k)
    \/ Clear
    \/ \E t \in Threads : Step(t)
    \/ \E t \in Threads, k \in Keys : Get(t, k)
    \/ \E t \in Threads : \E i \in held[t] : Drop(t, i)
    \/ Tick \/ Janitor

Spec == Init /\ [][Next]_vars

(* Threads inside get() and the janitor keep running; the constructor ends. *)
Fairness ==
    /\ WF_vars(Constructed)
    /\ WF_vars(Janitor)
    /\ \A t \in Threads : WF_vars(Step(t))

FairSpec == Spec /\ Fairness

---------------------------------------------------------------------------
(* Properties *)

(* Types.  A thread that owns a construction mutex is inside the get() that *)
(* locked it: every way out of get() unlocks.                              *)
TypeOK ==
    /\ map_ \in [Keys -> Slots \cup {None}]
    /\ owner \in [1..MaxRegs -> Threads \cup {None}]
    /\ nodes \in 0..MaxRegs /\ regs \in 0..MaxRegs /\ gets \in 0..MaxGets
    /\ made \in [1..MaxRegs -> Nat]
    /\ \A t \in Threads : Range(stack[t]) \subseteq Frames /\ held[t] \subseteq Instances
    /\ time \in 0..MaxTime /\ jnow \in 0..time
    /\ jpc \in {"test", "sleep", "sweep", "exited", "asleep"}
    /\ stop \in {"uninitialized", "false", "true"}
    /\ \A n \in 1..MaxRegs : owner[n] # None =>
           \E f \in Locked(owner[n]) : f.node = n

(* "Thread-safe: prevents duplicate construction": the factory of a        *)
(* registration that is in force runs to its end once, however many calls  *)
(* of get() race for the first instance and whatever was registered before *)
(* or is erased meanwhile.  A Timed instance is made again after it        *)
(* expired.                                                                *)
ConstructedOnce ==
    /\ TypeOK
    /\ \A k \in Keys : Registered(k) /\ map_[k].lt # "Timed" => made[map_[k].reg] <= 1

(* "Later calls to get() return the same instance": while a caller holds   *)
(* the instance of a registration in force, the slot keeps it.  It is only *)
(* displaced by an instance that a construction begun under an earlier     *)
(* registration stores late.                                               *)
SameInstance ==
    \A t \in Threads : \A i \in held[t] : \A k \in Keys :
        Registered(k) /\ map_[k].reg = i.reg /\ map_[k].lt # "Timed"
            => map_[k].obj = i \/ (map_[k].obj # None /\ map_[k].obj.reg < i.reg)

(* "This allows the factory to call spawn() for dependencies without       *)
(* deadlock": every call of get() ends, unless it came upon the mutex of   *)
(* an erased slot.                                                         *)
GetReturns ==
    \A t \in Threads :
        (stack[t] # <<>>) ~> (stack[t] = <<>> \/ \E f \in Range(stack[t]) : ~Alive(f.node))

(* "The janitor thread periodically cleans up expired services": a Timed   *)
(* instance that is "not in use (stored only in registry)" and not asked   *)
(* for any more does not stay.  The exception is a container whose janitor *)
(* read stop_ or sweep_interval_ before the constructor initialized them,  *)
(* and has ended or sleeps for good: it never sweeps.                      *)
TimedSwept ==
    \A k \in Keys :
        (Registered(k) /\ map_[k].lt = "Timed" /\ map_[k].obj # None /\ Unused(k)
            /\ time > map_[k].last_touch + Idle)
        ~> (~InUse \/ jpc \in {"exited", "asleep"}
            \/ ~Registered(k) \/ map_[k].lt # "Timed" \/ map_[k].obj = None
            \/ time <= map_[k].last_touch + Idle)
=============================================================================
