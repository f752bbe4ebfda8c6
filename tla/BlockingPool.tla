--------------------------- MODULE BlockingPool ---------------------------
(***************************************************************************)
(* The PostgreSQL connection pool with FIFO waiters (BlockingPool), used   *)
(* through BlockingSession: callers try, block on a condition variable     *)
(* with or without a timeout, or suspend a coroutine with or without a     *)
(* timer.  A holder owns a connection; the pool owns the holders, callers  *)
(* have weak pointers, and give a holder back with reset().                *)
(*                                                                         *)
(* A critical section of mtx_ is one step.  Connections are created with   *)
(* the mutex released, which splits an acquisition in three.               *)
(***************************************************************************)
EXTENDS Integers, Sequences, FiniteSets, Functions

CONSTANTS Callers,
          ModeChoices,      \* how the callers acquire: functions to Modes
          Holders,          \* names for the holders alive at one time
          capacity, min_connections,
          None              \* no holder, or no caller

Modes == {"try", "timed", "blocking", "async_timed", "async"}

ASSUME ModeAssumption == ModeChoices \subseteq [Callers -> Modes]
(* PoolConfig::validate *)
validate ==
    /\ capacity > 0 /\ \E n \in 0 .. capacity : capacity = 2^n
    /\ min_connections <= capacity

ASSUME ConfigAssumption ==
    capacity \in Nat /\ min_connections \in Nat /\ validate

ASSUME HoldersAssumption == IsFiniteSet(Holders)
ASSUME NoneAssumption == None \notin Holders /\ None \notin Callers

VARIABLES mode,             \* what each caller calls
          shutdown,         \* shutdown_
          holders,          \* holders_
          free,             \* free_
          waiters,          \* waiters_: the callers queued
          created,          \* created_
          pc,               \* where each caller is
          made,             \* the holder it created outside the mutex
          assigned,         \* Waiter::assigned, set together with ready
          claimed, timer,   \* AsyncWaiter::claimed and its timer
          posted,           \* the completions posted to its executor
          mine,             \* the holder it uses or resets
          spc               \* where shutdown() is

poolVars == <<mode, shutdown, holders, free, waiters, created>>
asyncVars == <<claimed, timer, posted>>
vars == <<poolVars, pc, made, assigned, asyncVars, mine, spc>>

IsAsync(c) == mode[c] \in {"async_timed", "async"}

(* The constructor creates min_connections holders, or fewer if it fails. *)
Init ==
    /\ mode \in ModeChoices
    /\ shutdown = FALSE
    /\ \E first \in SUBSET Holders :
        /\ Cardinality(first) <= min_connections
        /\ holders = first
        /\ created = Cardinality(first)
        /\ free \in Bijection(1..Cardinality(first), first)
    /\ waiters = << >>
    /\ pc = [c \in Callers |-> "idle"]
    /\ made = [c \in Callers |-> None]
    /\ assigned = [c \in Callers |-> None]
    /\ claimed = [c \in Callers |-> FALSE]
    /\ timer = [c \in Callers |-> "off"]
    /\ posted = [c \in Callers |-> << >>]
    /\ mine = [c \in Callers |-> None]
    /\ spc = "idle"

(* Holders somebody has a strong pointer to: the pool, a posted completion,
   or a caller inside reset(). *)
Alive(h) ==
    \/ h \in holders
    \/ \E c \in Callers : \/ made[c] = h
                          \/ pc[c] = "reset" /\ mine[c] = h
                          \/ \E i \in 1 .. Len(posted[c]) : posted[c][i] = h

(* A name no pointer, dangling ones included, refers to. *)
Unused(h) ==
    ~Alive(h) /\ \A c \in Callers : mine[c] # h /\ assigned[c] # h

-----------------------------------------------------------------------------
(* Ends of an acquisition. *)

(* A holder: an executor around a weak pointer, or a posted completion. *)
Deliver(c, h) ==
    IF IsAsync(c)
    THEN /\ posted' = [posted EXCEPT ![c] = Append(@, h)]
         /\ pc' = [pc EXCEPT ![c] = "posted"]
         /\ UNCHANGED mine
    ELSE /\ mine' = [mine EXCEPT ![c] = h]
         /\ pc' = [pc EXCEPT ![c] = "using"]
         /\ UNCHANGED posted

(* No holder: an empty weak pointer, or a completion with an error. *)
Fail(c) ==
    /\ pc' = [pc EXCEPT ![c] = IF IsAsync(c) THEN "posted" ELSE "idle"]
    /\ posted' = IF IsAsync(c) THEN [posted EXCEPT ![c] = Append(@, None)] ELSE posted
    /\ UNCHANGED mine

(* Fault: the timer of a bounded wait is never armed. *)
GiveUpOrQueueUnarmed(c) ==
    IF mode[c] = "try"
    THEN pc' = [pc EXCEPT ![c] = "idle"] /\ UNCHANGED <<waiters, claimed, timer>>
    ELSE /\ waiters' = Append(waiters, c)
         /\ pc' = [pc EXCEPT ![c] = "waiting"]
         /\ claimed' = [claimed EXCEPT ![c] = FALSE]
         /\ UNCHANGED timer

(* Nothing free and nothing created: try_acquire gives up, acquire queues a
   Waiter, initiate_async_acquire an AsyncWaiter and its timer. *)
GiveUpOrQueue(c) ==
    IF mode[c] = "try"
    THEN pc' = [pc EXCEPT ![c] = "idle"] /\ UNCHANGED <<waiters, claimed, timer>>
    ELSE /\ waiters' = Append(waiters, c)
         /\ pc' = [pc EXCEPT ![c] = "waiting"]
         /\ claimed' = [claimed EXCEPT ![c] = FALSE]
         /\ timer' = [timer EXCEPT ![c] = IF mode[c] = "async_timed" THEN "armed" ELSE "off"]

-----------------------------------------------------------------------------
(* try_acquire, acquire and initiate_async_acquire.  A timer callback left
   over from an earlier acquisition finds its waiter claimed or gone, so it
   is enough to look at acquisitions that start without one. *)

Start(c) == pc[c] = "idle" /\ timer[c] # "fired"

Refuse(c) ==
    /\ Start(c) /\ shutdown
    /\ Fail(c)
    /\ UNCHANGED <<poolVars, made, assigned, claimed, timer, spc>>

TakeFree(c) ==
    /\ Start(c) /\ ~shutdown /\ free # << >>
    /\ free' = Tail(free)
    /\ Deliver(c, Head(free))
    /\ UNCHANGED <<mode, shutdown, holders, waiters, created, made, assigned, claimed, timer, spc>>

StartCreate(c) ==
    /\ Start(c) /\ ~shutdown /\ free = << >> /\ created < capacity
    /\ pc' = [pc EXCEPT ![c] = "creating"]
    /\ UNCHANGED <<poolVars, made, assigned, asyncVars, mine, spc>>

Exhausted(c) ==
    /\ Start(c) /\ ~shutdown /\ free = << >> /\ created >= capacity
    /\ GiveUpOrQueue(c)
    /\ UNCHANGED <<mode, shutdown, holders, free, created, made, assigned, posted, mine, spc>>

(* try_create_holder() without the mutex; the server may refuse. *)
Create(c) ==
    /\ pc[c] = "creating"
    /\ \E h \in {x \in Holders : Unused(x)} \cup {None} : made' = [made EXCEPT ![c] = h]
    /\ pc' = [pc EXCEPT ![c] = "created"]
    /\ UNCHANGED <<poolVars, assigned, asyncVars, mine, spc>>

(* With the mutex again; only the asynchronous path looks at shutdown_. *)
Register(c) ==
    /\ pc[c] = "created" /\ made[c] # None /\ ~(IsAsync(c) /\ shutdown)
    /\ holders' = holders \cup {made[c]}
    /\ created' = created + 1
    /\ made' = [made EXCEPT ![c] = None]
    /\ Deliver(c, made[c])
    /\ UNCHANGED <<mode, shutdown, free, waiters, assigned, claimed, timer, spc>>

AbortCreated(c) ==
    /\ pc[c] = "created" /\ IsAsync(c) /\ shutdown
    /\ made' = [made EXCEPT ![c] = None]
    /\ Fail(c)
    /\ UNCHANGED <<poolVars, assigned, claimed, timer, spc>>

CreationFailed(c) ==
    /\ pc[c] = "created" /\ made[c] = None /\ ~(IsAsync(c) /\ shutdown)
    /\ GiveUpOrQueue(c)
    /\ UNCHANGED <<mode, shutdown, holders, free, created, made, assigned, posted, mine, spc>>

Acquiring(c) == Create(c) \/ Register(c) \/ AbortCreated(c) \/ CreationFailed(c)

-----------------------------------------------------------------------------
(* The end of a wait. *)

Without(i) == SubSeq(waiters, 1, i - 1) \o SubSeq(waiters, i + 1, Len(waiters))

(* std::erase_if of c's entry, if it is there: nobody is queued twice. *)
Others(c) ==
    IF c \in Range(waiters)
    THEN Without(CHOOSE i \in 1..Len(waiters) : waiters[i] = c)
    ELSE waiters

(* The condition variable wakes a waiter that is ready. *)
WakeReady(c) ==
    /\ pc[c] = "waiting" /\ ~IsAsync(c)
    /\ assigned[c] # None
    /\ assigned' = [assigned EXCEPT ![c] = None]
    /\ Deliver(c, assigned[c])
    /\ UNCHANGED <<poolVars, made, claimed, timer, spc>>

(* Fault: a timeout returns empty without another look at ready. *)
WakeEmptyBlindly(c) ==
    /\ pc[c] = "waiting" /\ ~IsAsync(c)
    /\ shutdown \/ mode[c] = "timed"
    /\ waiters' = Others(c)
    /\ assigned' = [assigned EXCEPT ![c] = None]
    /\ Fail(c)
    /\ UNCHANGED <<mode, shutdown, holders, free, created, made, claimed, timer, spc>>

(* It wakes on shutdown or after its timeout and takes itself off. *)
WakeEmpty(c) ==
    /\ pc[c] = "waiting" /\ ~IsAsync(c) /\ assigned[c] = None
    /\ shutdown \/ mode[c] = "timed"
    /\ waiters' = Others(c)
    /\ Fail(c)
    /\ UNCHANGED <<mode, shutdown, holders, free, created, made, assigned, claimed, timer, spc>>

(* The timer expires: its callback is on the way and cannot be cancelled. *)
Expire(c) ==
    /\ timer[c] = "armed"
    /\ timer' = [timer EXCEPT ![c] = "fired"]
    /\ UNCHANGED <<poolVars, pc, made, assigned, claimed, posted, mine, spc>>

(* Fault: the callback completes without claiming the waiter. *)
OnAsyncWaiterTimeoutUnclaimed(c) ==
    /\ timer[c] = "fired"
    /\ timer' = [timer EXCEPT ![c] = "off"]
    /\ waiters' = Others(c)
    /\ posted' = [posted EXCEPT ![c] = Append(@, None)]
    /\ pc' = [pc EXCEPT ![c] = "posted"]
    /\ UNCHANGED <<mode, shutdown, holders, free, created, made, assigned, claimed, mine, spc>>

(* on_async_waiter_timeout: nothing if the waiter was claimed meanwhile. *)
OnAsyncWaiterTimeout(c) ==
    /\ timer[c] = "fired"
    /\ timer' = [timer EXCEPT ![c] = "off"]
    /\ IF claimed[c]
       THEN UNCHANGED <<waiters, claimed, posted, pc>>
       ELSE /\ claimed' = [claimed EXCEPT ![c] = TRUE]
            /\ waiters' = Others(c)
            /\ posted' = [posted EXCEPT ![c] = Append(@, None)]
            /\ pc' = [pc EXCEPT ![c] = "posted"]
    /\ UNCHANGED <<mode, shutdown, holders, free, created, made, assigned, mine, spc>>

(* The completion runs: an executor with a weak pointer, or an error. *)
Complete(c) ==
    /\ posted[c] # << >>
    /\ posted' = [posted EXCEPT ![c] = Tail(@)]
    /\ mine' = [mine EXCEPT ![c] = Head(posted[c])]
    /\ pc' = [pc EXCEPT ![c] = IF Head(posted[c]) = None THEN "idle" ELSE "using"]
    /\ UNCHANGED <<poolVars, made, assigned, claimed, timer, spc>>

Waiting(c) == WakeReady(c) \/ WakeEmpty(c) \/ OnAsyncWaiterTimeout(c) \/ Complete(c)

-----------------------------------------------------------------------------
(* Giving a holder back. *)

(* The capability is destroyed: it locks the weak pointer and calls reset(),
   or has nothing to do if the holder is gone. *)
Release(c) ==
    /\ pc[c] = "using"
    /\ IF Alive(mine[c])
       THEN pc' = [pc EXCEPT ![c] = "reset"] /\ UNCHANGED mine
       ELSE pc' = [pc EXCEPT ![c] = "idle"] /\ mine' = [mine EXCEPT ![c] = None]
    /\ UNCHANGED <<poolVars, made, assigned, asyncVars, spc>>

(* The first waiter of the queue that a release can claim, if any: all that
   come before it are AsyncWaiters claimed by their timers. *)
Claimable(i) == ~IsAsync(waiters[i]) \/ ~claimed[waiters[i]]

ReturnAfterShutdown(c) ==
    /\ pc[c] = "reset" /\ shutdown
    /\ pc' = [pc EXCEPT ![c] = "idle"]
    /\ mine' = [mine EXCEPT ![c] = None]
    /\ UNCHANGED <<poolVars, made, assigned, asyncVars, spc>>

(* return_holder: to the first waiter, by a completion or a notification ... *)
HandOver(c) ==
    /\ pc[c] = "reset" /\ ~shutdown
    /\ \E i \in 1 .. Len(waiters) :
        /\ Claimable(i) /\ \A j \in 1 .. i - 1 : ~Claimable(j)
        /\ waiters' = SubSeq(waiters, i + 1, Len(waiters))
        /\ LET w == waiters[i]
           IN  IF IsAsync(w)
               THEN /\ claimed' = [claimed EXCEPT ![w] = TRUE]
                    /\ timer' = [timer EXCEPT ![w] = IF @ = "armed" THEN "off" ELSE @]
                    /\ posted' = [posted EXCEPT ![w] = Append(@, mine[c])]
                    /\ pc' = [pc EXCEPT ![w] = "posted", ![c] = "idle"]
                    /\ UNCHANGED assigned
               ELSE /\ assigned' = [assigned EXCEPT ![w] = mine[c]]
                    /\ pc' = [pc EXCEPT ![c] = "idle"]
                    /\ UNCHANGED <<claimed, timer, posted>>
    /\ mine' = [mine EXCEPT ![c] = None]
    /\ UNCHANGED <<mode, shutdown, holders, free, created, made, spc>>

(* ... or to the free list. *)
ReturnFree(c) ==
    /\ pc[c] = "reset" /\ ~shutdown
    /\ \A i \in 1 .. Len(waiters) : ~Claimable(i)
    /\ waiters' = << >>
    /\ free' = Append(free, mine[c])
    /\ pc' = [pc EXCEPT ![c] = "idle"]
    /\ mine' = [mine EXCEPT ![c] = None]
    /\ UNCHANGED <<mode, shutdown, holders, created, made, assigned, asyncVars, spc>>

(* drop_dead: the cleanup failed or the connection is bad. *)
DropDead(c) ==
    /\ pc[c] = "reset" /\ ~shutdown
    /\ holders' = holders \ {mine[c]}
    /\ created' = IF mine[c] \in holders THEN created - 1 ELSE created
    /\ pc' = [pc EXCEPT ![c] = "idle"]
    /\ mine' = [mine EXCEPT ![c] = None]
    /\ UNCHANGED <<mode, shutdown, free, waiters, made, assigned, asyncVars, spc>>

-----------------------------------------------------------------------------
(* shutdown(): the flag, then the waiters and the holders. *)

SetShutdown ==
    /\ spc = "idle"
    /\ shutdown' = TRUE
    /\ spc' = "clear"
    /\ UNCHANGED <<mode, holders, free, waiters, created, pc, made, assigned, asyncVars, mine>>

Clear ==
    /\ spc = "clear"
    /\ LET aborted == {c \in Range(waiters) : IsAsync(c) /\ ~claimed[c]}
       IN  /\ claimed' = [c \in Callers |-> claimed[c] \/ c \in aborted]
           /\ timer' = [c \in Callers |->
                            IF c \in aborted /\ timer[c] = "armed" THEN "off" ELSE timer[c]]
           /\ posted' = [c \in Callers |->
                            IF c \in aborted THEN Append(posted[c], None) ELSE posted[c]]
           /\ pc' = [c \in Callers |-> IF c \in aborted THEN "posted" ELSE pc[c]]
    /\ waiters' = << >> /\ free' = << >> /\ holders' = {}
    /\ spc' = "done"
    /\ UNCHANGED <<mode, shutdown, created, made, assigned, mine>>

-----------------------------------------------------------------------------
Next ==
    \/ \E c \in Callers :
        \/ Refuse(c) \/ TakeFree(c) \/ StartCreate(c) \/ Exhausted(c)
        \/ Acquiring(c) \/ Waiting(c) \/ Expire(c)
        \/ Release(c) \/ ReturnAfterShutdown(c) \/ HandOver(c)
        \/ ReturnFree(c) \/ DropDead(c)
    \/ SetShutdown \/ Clear

Spec == Init /\ [][Next]_vars

(* Calls that run go on running, timers expire, completions are executed,
   and a shutdown that started goes on.  Nobody has to acquire or release. *)
Fairness ==
    /\ \A c \in Callers :
        /\ WF_vars(Acquiring(c)) /\ WF_vars(Waiting(c)) /\ WF_vars(Expire(c))
        /\ WF_vars(ReturnAfterShutdown(c) \/ HandOver(c) \/ ReturnFree(c) \/ DropDead(c))
    /\ WF_vars(Clear)

FairSpec == Spec /\ Fairness

-----------------------------------------------------------------------------
(* Properties. *)

(* Callers, timers and shutdown() are at known places, and every pointer is *)
(* a holder or null; a caller waits for at most one completion.             *)
TypeOK ==
    /\ mode \in ModeChoices
    /\ shutdown \in BOOLEAN /\ holders \subseteq Holders
    /\ free \in Seq(Holders) /\ waiters \in Seq(Callers) /\ created \in Nat
    /\ pc \in [Callers -> {"idle", "creating", "created", "waiting", "posted",
                           "using", "reset"}]
    /\ made \in [Callers -> Holders \cup {None}]
    /\ assigned \in [Callers -> Holders \cup {None}]
    /\ claimed \in [Callers -> BOOLEAN] /\ timer \in [Callers -> {"off", "armed", "fired"}]
    /\ posted \in [Callers -> Seq(Holders \cup {None})]
    /\ mine \in [Callers -> Holders \cup {None}]
    /\ spc \in {"idle", "clear", "done"}

(* The caller a holder is with: in use, in reset(), handed over or posted. *)
With(c, h) ==
    \/ pc[c] \in {"using", "reset"} /\ mine[c] = h
    \/ assigned[c] = h
    \/ \E i \in 1 .. Len(posted[c]) : posted[c][i] = h

(* A holder of the pool is never in two places, free or with a caller: no   *)
(* two callers share a connection.  Until the pool is shut down it is in    *)
(* one: none leaks when a timeout races with a release.  created_, by which *)
(* the capacity is checked, is the number of holders.                       *)
HoldersAccounted ==
    /\ TypeOK
    /\ \A h \in holders :
           LET places == Cardinality({i \in 1 .. Len(free) : free[i] = h})
                           + Cardinality({c \in Callers : With(c, h)})
           IN  places <= 1 /\ (~shutdown => places = 1)
    /\ spc # "done" => created = Cardinality(holders)

(* The race between a release, the timer and the shutdown for an async      *)
(* waiter has one winner: its handler is posted once.                       *)
CompletedOnce ==
    \A c \in Callers : /\ Len(posted[c]) <= 1
                       /\ posted[c] # << >> => pc[c] = "posted"

(* A bounded wait ends, whoever wins; shutdown() ends every wait, also an   *)
(* unbounded one, and also one that starts while it runs.                   *)
WaitsEnd ==
    \A c \in Callers :
        pc[c] = "waiting" /\ (shutdown \/ mode[c] \in {"timed", "async_timed"})
            ~> pc[c] # "waiting"
=============================================================================
