------------------------- MODULE ThreadPoolProofs -------------------------
(* Proofs about ThreadPool. *)
EXTENDS ThreadPool, FiniteSetTheorems, TLAPS

(* TypeOK without the bounds on counters, which follow from the others. *)
Typed ==
    /\ config \in Configs
    /\ queue \subseteq Tasks /\ done \subseteq Tasks
    /\ todo \subseteq Tasks /\ rejected \subseteq Tasks
    /\ list \subseteq WorkerIds /\ valid \in [WorkerIds -> BOOLEAN]
    /\ wpc \in [WorkerIds -> {"none", "loop", "activate", "run", "deactivate", "leave", "dead"}]
    /\ wtask \in [WorkerIds -> Tasks \cup {None}]
    /\ stop \in BOOLEAN /\ mutex \in Clients \cup {None}
    /\ cpc \in [Clients -> {"idle", "cleanup", "full", "free"}]
    /\ ctask \in [Clients -> Tasks \cup {None}] /\ csize \in [Clients -> Nat]
    /\ spc \in {"idle", "join", "returned"}

(* A node is in the list from its creation to its removal, is invalid once  *)
(* its thread is over, and has a task between taking and executing it.      *)
Places ==
    \A w \in WorkerIds : /\ w \in list <=> wpc[w] # "none"
                         /\ valid[w] <=> wpc[w] # "dead"
                         /\ wtask[w] # None <=> wpc[w] \in {"activate", "run"}

(* enqueue() is a critical section, and shutdown() never starts inside it. *)
Locked ==
    /\ \A c \in Clients : cpc[c] # "idle" <=> mutex = c
    /\ mutex # None => ~stop
    /\ stop <=> spc # "idle"

(* active_threads_ counts the workers that run a task. *)
Running == {w \in WorkerIds : wpc[w] \in {"run", "deactivate"}}
Counted == active = Cardinality(Running)

(* The list only shrinks while enqueue() relies on a size that it read. *)
Bounded ==
    /\ size <= max_threads
    /\ \A c \in Clients : /\ csize[c] <= max_threads
                          /\ cpc[c] = "free" => size <= csize[c] /\ csize[c] < max_threads

(* A task is in one place at a time. *)
Placed ==
    /\ todo \cap rejected = {} /\ todo \cap queue = {} /\ todo \cap done = {}
    /\ rejected \cap queue = {} /\ rejected \cap done = {} /\ queue \cap done = {}
    /\ \A w \in WorkerIds : wtask[w] \notin todo \cup rejected \cup queue \cup done
    /\ \A w, v \in WorkerIds : wtask[w] = wtask[v] /\ wtask[w] # None => w = v
    /\ \A t \in Tasks :
           t \in todo \cup rejected \cup queue \cup done \/ \E w \in WorkerIds : wtask[w] = t

(* In a pool of fixed size workers leave only when a shutdown has drained   *)
(* the queue, so that one of them is there until shutdown() joins it.       *)
Drained ==
    /\ spc = "returned" => list = {}
    /\ min_threads = max_threads =>
           /\ \A w \in WorkerIds : wpc[w] \in {"leave", "dead"} => stop /\ queue = {}
           /\ IF spc = "returned" THEN queue = {} ELSE list # {}

PoolInv == Typed /\ Places /\ Locked /\ Counted /\ Bounded /\ Placed /\ Drained

LEMMA ConfigType ==
    ASSUME config \in Configs
    PROVE  /\ min_threads \in Nat /\ max_threads \in Nat
           /\ 0 < min_threads /\ min_threads <= max_threads
BY OkAssumption DEF ok, min_threads, max_threads

(* The sizes of the list and of the set of running workers. *)
LEMMA SizeType ==
    ASSUME NEW S \in SUBSET WorkerIds
    PROVE  IsFiniteSet(S) /\ Cardinality(S) \in Nat
BY WorkersAssumption, FS_Subset, FS_CardinalityType

LEMMA InitPoolInv == Init => PoolInv
<1> SUFFICES ASSUME Init PROVE PoolInv
  OBVIOUS
<1>1. PICK first \in SUBSET WorkerIds :
          /\ Cardinality(first) = min_threads /\ list = first
          /\ wpc = [w \in WorkerIds |-> IF w \in first THEN "loop" ELSE "none"]
  BY DEF Init
<1>2. /\ config \in Configs /\ queue = {} /\ active = 0 /\ stop = FALSE /\ mutex = None
      /\ valid = [w \in WorkerIds |-> TRUE] /\ wtask = [w \in WorkerIds |-> None]
      /\ cpc = [c \in Clients |-> "idle"] /\ ctask = [c \in Clients |-> None]
      /\ csize = [c \in Clients |-> 0]
      /\ spc = "idle" /\ todo = Tasks /\ rejected = {} /\ done = {}
  BY DEF Init
<1>3. /\ min_threads \in Nat /\ max_threads \in Nat
      /\ 0 < min_threads /\ min_threads <= max_threads
  BY <1>2, ConfigType
<1>4. Typed
  BY <1>1, <1>2, Zenon DEF Typed
<1>5. Places
  BY <1>1, <1>2 DEF Places
<1>6. Locked
  BY <1>2, NoneAssumption DEF Locked
<1>7. Counted
  <2>1. Running = {}
    BY <1>1 DEF Running
  <2> QED
    BY <1>2, <2>1, FS_EmptySet DEF Counted
<1>8. Bounded
  BY <1>1, <1>2, <1>3 DEF Bounded, size
<1>9. Placed
  BY <1>2, NoneAssumption DEF Placed
<1>10. Drained
  <2>1. list # {}
    BY <1>1, <1>3, FS_EmptySet
  <2> QED
    BY <1>1, <1>2, <2>1 DEF Drained
<1> QED
  BY <1>4, <1>5, <1>6, <1>7, <1>8, <1>9, <1>10 DEF PoolInv

-----------------------------------------------------------------------------
(* Workers. *)

(* A step of a worker moves no other worker. *)
LEMMA StepTo ==
    ASSUME Typed, NEW w \in WorkerIds, NEW to, wpc' = [wpc EXCEPT ![w] = to]
    PROVE  wpc'[w] = to /\ \A v \in WorkerIds : v # w => wpc'[v] = wpc[v]
BY DEF Typed

(* A step that leaves a worker's part in active_threads_ as it is. *)
LEMMA RunningSame ==
    ASSUME Typed, NEW w \in WorkerIds, NEW to, wpc' = [wpc EXCEPT ![w] = to],
           wpc[w] \in {"run", "deactivate"} <=> to \in {"run", "deactivate"}
    PROVE  Running' = Running
BY StepTo DEF Running

LEMMA WorkerTakes ==
    ASSUME PoolInv, NEW w \in WorkerIds, TakeTask(w)
    PROVE  PoolInv'
<1>1. PICK t \in queue : queue' = queue \ {t} /\ wtask' = [wtask EXCEPT ![w] = t]
  BY Zenon DEF TakeTask
<1>2. /\ wpc[w] = "loop" /\ wpc' = [wpc EXCEPT ![w] = "activate"]
      /\ UNCHANGED <<config, list, valid, active, stop, mutex, clientVars, spc, done>>
  BY DEF TakeTask
<1>3. Typed /\ Places /\ Placed /\ t \in Tasks /\ t # None /\ wtask[w] = None
  BY <1>1, <1>2, NoneAssumption DEF PoolInv, Typed, Places
<1>4. wpc'[w] = "activate" /\ \A v \in WorkerIds : v # w => wpc'[v] = wpc[v]
  BY <1>2, <1>3, StepTo, Zenon
<1>5. wtask'[w] = t /\ \A v \in WorkerIds : v # w => wtask'[v] = wtask[v]
  BY <1>1, <1>3 DEF Typed
<1>6. Typed'
  BY <1>1, <1>2, <1>3 DEF Typed, clientVars
<1>7. Places'
  BY <1>2, <1>3, <1>4, <1>5 DEF Places
<1>8. Locked' /\ Bounded'
  BY <1>2 DEF PoolInv, Locked, Bounded, clientVars, size, max_threads
<1>9. Counted'
  <2>1. Running' = Running
    BY <1>2, <1>3, RunningSame, Zenon
  <2> QED
    BY <1>2, <2>1 DEF PoolInv, Counted
<1>10. Placed'
  <2>1. /\ todo' = todo /\ rejected' = rejected /\ done' = done
        /\ t \notin todo /\ t \notin rejected /\ t \notin done
    BY <1>1, <1>2, <1>3 DEF Placed, clientVars
  <2>2. \A v \in WorkerIds : wtask[v] # t
    BY <1>1, <1>3 DEF Placed
  <2>3. \A v \in WorkerIds : wtask'[v] \notin todo' \cup rejected' \cup queue' \cup done'
    BY <1>1, <1>3, <1>5, <2>1 DEF Placed
  <2>4. \A v, x \in WorkerIds : wtask'[v] = wtask'[x] /\ wtask'[v] # None => v = x
    BY <1>3, <1>5, <2>2 DEF Placed
  <2>5. ASSUME NEW u \in Tasks, u \notin todo \cup rejected \cup queue' \cup done
        PROVE  \E v \in WorkerIds : wtask'[v] = u
    <3>1. CASE u = t
      BY <1>5, <3>1
    <3>2. CASE u # t
      <4>1. PICK v \in WorkerIds : wtask[v] = u
        BY <1>1, <1>3, <2>5, <3>2 DEF Placed
      <4> QED
        BY <1>3, <1>5, <2>5, <4>1, NoneAssumption
    <3> QED
      BY <3>1, <3>2
  <2> QED
    BY <1>1, <1>3, <2>1, <2>3, <2>4, <2>5 DEF Placed
<1>11. Drained'
  BY <1>1, <1>2, <1>4 DEF PoolInv, Drained, min_threads, max_threads
<1> QED
  BY <1>6, <1>7, <1>8, <1>9, <1>10, <1>11 DEF PoolInv

(* A worker that leaves, because of a shutdown or because it was idle: in a *)
(* pool of fixed size the list is never longer than the minimum.            *)
LEMMA WorkerStops ==
    ASSUME PoolInv, NEW w \in WorkerIds, StopWorker(w) \/ IdleTimeout(w)
    PROVE  PoolInv'
<1>1. /\ wpc[w] = "loop" /\ wpc' = [wpc EXCEPT ![w] = "leave"]
      /\ UNCHANGED <<config, queue, list, valid, wtask, active, stop, mutex, clientVars, spc, done>>
      /\ queue = {} /\ (stop \/ size > min_threads)
  BY DEF StopWorker, IdleTimeout
<1>2. Typed /\ Places
  BY DEF PoolInv
<1>3. wpc'[w] = "leave" /\ \A v \in WorkerIds : v # w => wpc'[v] = wpc[v]
  BY <1>1, <1>2, StepTo, Zenon
<1>4. Typed'
  BY <1>1, <1>2 DEF Typed, clientVars
<1>5. Places'
  BY <1>1, <1>2, <1>3 DEF Places
<1>6. Locked' /\ Bounded' /\ Placed'
  BY <1>1 DEF PoolInv, Locked, Bounded, Placed, clientVars, size, max_threads
<1>7. Counted'
  <2>1. Running' = Running
    BY <1>1, <1>2, RunningSame, Zenon
  <2> QED
    BY <1>1, <2>1 DEF PoolInv, Counted
<1>8. Drained'
  <2>1. min_threads = max_threads => stop
    <3>1. size <= max_threads /\ size \in Nat /\ max_threads \in Nat
      BY SizeType, ConfigType DEF PoolInv, Typed, Bounded, size
    <3> QED
      BY <1>1, <3>1
  <2> QED
    BY <1>1, <1>3, <2>1 DEF PoolInv, Drained, min_threads, max_threads
<1> QED
  BY <1>4, <1>5, <1>6, <1>7, <1>8 DEF PoolInv

(* ++active_threads_ and --active_threads_, outside the mutex *)
LEMMA WorkerCounts ==
    ASSUME PoolInv, NEW w \in WorkerIds, Activate(w) \/ Deactivate(w)
    PROVE  PoolInv'
<1>1. UNCHANGED <<config, queue, list, valid, wtask, stop, mutex, clientVars, spc, done>>
  BY DEF Activate, Deactivate
<1>2. Typed /\ Places /\ Running \in SUBSET WorkerIds /\ active = Cardinality(Running)
  BY DEF PoolInv, Running, Counted
<1>3. \/ /\ wpc[w] = "activate" /\ wpc' = [wpc EXCEPT ![w] = "run"] /\ active' = active + 1
      \/ /\ wpc[w] = "deactivate" /\ wpc' = [wpc EXCEPT ![w] = "loop"] /\ active' = active - 1
  BY DEF Activate, Deactivate
<1>4. \A v \in WorkerIds : v # w => wpc'[v] = wpc[v]
  BY <1>2, <1>3, StepTo
<1>5. \/ wpc[w] = "activate" /\ wpc'[w] = "run"
      \/ wpc[w] = "deactivate" /\ wpc'[w] = "loop"
  BY <1>2, <1>3 DEF Typed
<1>6. Typed'
  BY <1>1, <1>2, <1>3 DEF Typed, clientVars
<1>7. Places'
  BY <1>1, <1>2, <1>4, <1>5 DEF Places
<1>8. Locked' /\ Bounded' /\ Placed'
  BY <1>1 DEF PoolInv, Locked, Bounded, Placed, clientVars, size, max_threads
<1>9. Counted'
  <2>1. CASE wpc[w] = "activate"
    <3>1. wpc'[w] = "run" /\ active' = active + 1
      BY <1>3, <1>5, <2>1
    <3>2. Running' = Running \cup {w} /\ w \notin Running
      BY <1>4, <2>1, <3>1 DEF Running
    <3> QED
      BY <1>2, <3>1, <3>2, SizeType, FS_AddElement DEF Counted
  <2>2. CASE wpc[w] = "deactivate"
    <3>1. wpc'[w] = "loop" /\ active' = active - 1
      BY <1>3, <1>5, <2>2
    <3>2. Running' = Running \ {w} /\ w \in Running
      BY <1>4, <2>2, <3>1 DEF Running
    <3> QED
      BY <1>2, <3>1, <3>2, SizeType, FS_RemoveElement DEF Counted
  <2> QED
    BY <1>3, <2>1, <2>2
<1>10. Drained'
  BY <1>1, <1>4, <1>5 DEF PoolInv, Drained, min_threads, max_threads
<1> QED
  BY <1>6, <1>7, <1>8, <1>9, <1>10 DEF PoolInv

LEMMA WorkerExecutes ==
    ASSUME PoolInv, NEW w \in WorkerIds, Execute(w)
    PROVE  PoolInv'
<1> DEFINE t == wtask[w]
<1>1. /\ wpc[w] = "run" /\ wpc' = [wpc EXCEPT ![w] = "deactivate"]
      /\ done' = done \cup {t} /\ wtask' = [wtask EXCEPT ![w] = None]
      /\ UNCHANGED <<config, queue, list, valid, active, stop, mutex, clientVars, spc>>
  BY DEF Execute
<1>2. Typed /\ Places /\ Placed
  BY DEF PoolInv
<1>3. t \in Tasks /\ t # None
  BY <1>1, <1>2 DEF Typed, Places
<1>4. wpc'[w] = "deactivate" /\ \A v \in WorkerIds : v # w => wpc'[v] = wpc[v]
  BY <1>1, <1>2, StepTo, Zenon
<1>5. wtask'[w] = None /\ \A v \in WorkerIds : v # w => wtask'[v] = wtask[v]
  BY <1>1, <1>2 DEF Typed
<1>6. Typed'
  BY <1>1, <1>2, <1>3 DEF Typed, clientVars
<1>7. Places'
  BY <1>1, <1>2, <1>4, <1>5 DEF Places
<1>8. Locked' /\ Bounded'
  BY <1>1 DEF PoolInv, Locked, Bounded, clientVars, size, max_threads
<1>9. Counted'
  <2>1. Running' = Running
    BY <1>1, <1>2, RunningSame, Zenon
  <2> QED
    BY <1>1, <2>1 DEF PoolInv, Counted
<1>10. Placed'
  <2>1. /\ todo' = todo /\ rejected' = rejected /\ queue' = queue
        /\ t \notin todo /\ t \notin rejected /\ t \notin queue
    BY <1>1, <1>2, <1>3 DEF Placed, clientVars
  <2>2. \A v \in WorkerIds : v # w => wtask[v] # t
    BY <1>2, <1>3 DEF Placed
  <2>3. \A v \in WorkerIds : wtask'[v] \notin todo' \cup rejected' \cup queue' \cup done'
    BY <1>1, <1>2, <1>3, <1>5, <2>1, <2>2, NoneAssumption DEF Placed, Typed
  <2>4. \A v, x \in WorkerIds : wtask'[v] = wtask'[x] /\ wtask'[v] # None => v = x
    BY <1>2, <1>5 DEF Placed
  <2>5. ASSUME NEW u \in Tasks, u \notin todo \cup rejected \cup queue \cup done'
        PROVE  \E v \in WorkerIds : wtask'[v] = u
    BY <1>1, <1>2, <1>5, <2>5 DEF Placed
  <2> HIDE DEF t
  <2>6. /\ todo' \cap done' = {} /\ rejected' \cap done' = {} /\ queue' \cap done' = {}
        /\ todo' \cap rejected' = {} /\ todo' \cap queue' = {} /\ rejected' \cap queue' = {}
    BY <1>1, <1>2, <2>1 DEF Placed
  <2> QED
    BY <2>1, <2>3, <2>4, <2>5, <2>6 DEF Placed
<1>11. Drained'
  BY <1>1, <1>4 DEF PoolInv, Drained, min_threads, max_threads
<1> QED
  BY <1>6, <1>7, <1>8, <1>9, <1>10, <1>11 DEF PoolInv

LEMMA WorkerLeaves ==
    ASSUME PoolInv, NEW w \in WorkerIds, Leave(w)
    PROVE  PoolInv'
<1>1. /\ wpc[w] = "leave" /\ wpc' = [wpc EXCEPT ![w] = "dead"]
      /\ valid' = [valid EXCEPT ![w] = FALSE]
      /\ UNCHANGED <<config, queue, list, wtask, active, stop, mutex, clientVars, spc, done>>
  BY DEF Leave
<1>2. Typed /\ Places
  BY DEF PoolInv
<1>3. wpc'[w] = "dead" /\ \A v \in WorkerIds : v # w => wpc'[v] = wpc[v]
  BY <1>1, <1>2, StepTo, Zenon
<1>4. ~valid'[w] /\ \A v \in WorkerIds : v # w => valid'[v] = valid[v]
  BY <1>1, <1>2 DEF Typed
<1>5. Typed'
  BY <1>1, <1>2 DEF Typed, clientVars
<1>6. Places'
  BY <1>1, <1>2, <1>3, <1>4 DEF Places
<1>7. Locked' /\ Bounded' /\ Placed'
  BY <1>1 DEF PoolInv, Locked, Bounded, Placed, clientVars, size, max_threads
<1>8. Counted'
  <2>1. Running' = Running
    BY <1>1, <1>2, RunningSame, Zenon
  <2> QED
    BY <1>1, <2>1 DEF PoolInv, Counted
<1>9. Drained'
  BY <1>1, <1>3 DEF PoolInv, Drained, min_threads, max_threads
<1> QED
  BY <1>5, <1>6, <1>7, <1>8, <1>9 DEF PoolInv

-----------------------------------------------------------------------------
(* Removing workers. *)

(* cleanup_invalid_workers() removes workers whose thread is over. *)
LEMMA CleanedDead ==
    ASSUME PoolInv
    PROVE  Cleaned \subseteq list /\ \A w \in Cleaned : wpc[w] = "dead"
<1>1. Cleaned \subseteq Invalid
  BY DEF Cleaned
<1> QED
  BY <1>1 DEF Invalid, PoolInv, Places, Typed

LEMMA Erased ==
    ASSUME PoolInv, NEW ws \in SUBSET list, \A w \in ws : wpc[w] = "dead", Erase(ws),
           UNCHANGED <<config, queue, wtask, active, todo, rejected, done>>
    PROVE  /\ list' \subseteq WorkerIds /\ valid' \in [WorkerIds -> BOOLEAN]
           /\ wpc' \in [WorkerIds -> {"none", "loop", "activate", "run", "deactivate", "leave", "dead"}]
           /\ \A w \in WorkerIds : wpc'[w] = IF w \in ws THEN "none" ELSE wpc[w]
           /\ Places' /\ Counted' /\ Placed' /\ size' <= size /\ size' \in Nat
<1>1. Typed /\ Places /\ Counted /\ Placed
  BY DEF PoolInv
<1>2. /\ list' = list \ ws
      /\ \A w \in WorkerIds : wpc'[w] = IF w \in ws THEN "none" ELSE wpc[w]
      /\ \A w \in WorkerIds : valid'[w] = (valid[w] \/ w \in ws)
  BY DEF Erase
<1>3. /\ list' \subseteq WorkerIds /\ valid' \in [WorkerIds -> BOOLEAN]
      /\ wpc' \in [WorkerIds -> {"none", "loop", "activate", "run", "deactivate", "leave", "dead"}]
  BY <1>1 DEF Erase, Typed
<1>4. Places'
  <2> SUFFICES ASSUME NEW w \in WorkerIds
               PROVE  /\ w \in list' <=> wpc'[w] # "none"
                      /\ valid'[w] <=> wpc'[w] # "dead"
                      /\ wtask'[w] # None <=> wpc'[w] \in {"activate", "run"}
    BY DEF Places
  <2>1. CASE w \in ws
    BY <1>1, <1>2, <2>1, Zenon DEF Places
  <2>2. CASE w \notin ws
    BY <1>1, <1>2, <2>2, Zenon DEF Places
  <2> QED
    BY <2>1, <2>2
<1>5. Counted'
  <2>1. Running' = Running
    BY <1>2 DEF Running
  <2> QED
    BY <1>1, <2>1 DEF Counted
<1>6. Placed'
  BY <1>1 DEF Placed
<1>7. size' <= size /\ size' \in Nat
  <2>1. list' \in SUBSET list /\ IsFiniteSet(list) /\ list' \in SUBSET WorkerIds
    BY <1>1, <1>2, SizeType DEF Typed
  <2> QED
    BY <2>1, FS_Subset, SizeType DEF size
<1> QED
  BY <1>2, <1>3, <1>4, <1>5, <1>6, <1>7

(* A round of cleanup, by its thread or inside enqueue(): in a pool of      *)
(* fixed size there is nothing to remove before the shutdown.               *)
LEMMA CleanupInv ==
    ASSUME PoolInv, Erase(Cleaned), ~stop,
           UNCHANGED <<config, queue, wtask, active, stop, mutex, ctask, csize, todo,
                       rejected, spc, done>>,
           \/ UNCHANGED cpc
           \/ \E c \in Clients : cpc[c] = "cleanup" /\ cpc' = [cpc EXCEPT ![c] = "full"]
    PROVE  PoolInv'
<1>1. /\ list' \subseteq WorkerIds /\ valid' \in [WorkerIds -> BOOLEAN]
      /\ wpc' \in [WorkerIds -> {"none", "loop", "activate", "run", "deactivate", "leave", "dead"}]
      /\ \A w \in WorkerIds : wpc'[w] = IF w \in Cleaned THEN "none" ELSE wpc[w]
      /\ Places' /\ Counted' /\ Placed' /\ size' <= size /\ size' \in Nat
  BY CleanedDead, Erased
<1>2. Typed
  BY DEF PoolInv
<1>3. /\ cpc' \in [Clients -> {"idle", "cleanup", "full", "free"}]
      /\ \A c \in Clients : /\ cpc'[c] = "idle" <=> cpc[c] = "idle"
                            /\ cpc'[c] = "free" <=> cpc[c] = "free"
  BY <1>2 DEF Typed
<1>4. Typed'
  BY <1>1, <1>2, <1>3 DEF Typed
<1>5. Locked'
  BY <1>3 DEF PoolInv, Locked
<1>6. Bounded'
  <2>1. size \in Nat /\ max_threads \in Nat /\ max_threads' = max_threads
    BY <1>2, SizeType, ConfigType DEF Typed, size, max_threads
  <2>2. csize \in [Clients -> Nat]
    BY <1>2 DEF Typed
  <2> QED
    BY <1>1, <1>3, <2>1, <2>2 DEF PoolInv, Bounded
<1>7. Drained'
  <2>1. spc = "idle"
    BY DEF PoolInv, Locked
  <2>2. ASSUME min_threads = max_threads
        PROVE  /\ list' # {}
               /\ \A w \in WorkerIds : wpc'[w] \notin {"leave", "dead"}
    <3>1. Cleaned = {}
      BY <2>2, CleanedDead DEF PoolInv, Drained, Typed
    <3>2. list' = list
      BY <3>1 DEF Erase
    <3> QED
      BY <1>1, <2>1, <2>2, <3>1, <3>2 DEF PoolInv, Drained
  <2> QED
    BY <2>1, <2>2 DEF Drained, min_threads, max_threads
<1> QED
  BY <1>1, <1>4, <1>5, <1>6, <1>7 DEF PoolInv

LEMMA ShutdownInv ==
    ASSUME PoolInv, SetStop \/ Clear
    PROVE  PoolInv'
<1>1. Typed /\ Places
  BY DEF PoolInv
<1>2. CASE SetStop
  <2>1. /\ stop' = TRUE /\ spc' = "join" /\ mutex = None /\ spc = "idle"
        /\ UNCHANGED <<config, queue, list, valid, workerVars, active, mutex, clientVars, done>>
    BY <1>2 DEF SetStop
  <2>2. Typed'
    BY <1>1, <2>1 DEF Typed, clientVars, workerVars
  <2>3. Places' /\ Counted' /\ Bounded' /\ Placed'
    BY <2>1 DEF PoolInv, Places, Counted, Running, Bounded, Placed, clientVars, workerVars,
                size, max_threads
  <2>4. Locked'
    BY <2>1 DEF PoolInv, Locked, clientVars
  <2>5. Drained'
    BY <2>1 DEF PoolInv, Drained, workerVars, min_threads, max_threads
  <2> QED
    BY <2>2, <2>3, <2>4, <2>5 DEF PoolInv
<1>3. CASE Clear
  <2>1. /\ spc = "join" /\ spc' = "returned" /\ Erase(list)
        /\ \A w \in list : wpc[w] = "dead"
        /\ UNCHANGED <<config, queue, wtask, active, stop, mutex, cpc, ctask, csize, todo,
                       rejected, done>>
    BY <1>3 DEF Clear, clientVars
  <2>2. /\ list' \subseteq WorkerIds /\ valid' \in [WorkerIds -> BOOLEAN]
        /\ wpc' \in [WorkerIds -> {"none", "loop", "activate", "run", "deactivate", "leave", "dead"}]
        /\ \A w \in WorkerIds : wpc'[w] = IF w \in list THEN "none" ELSE wpc[w]
        /\ Places' /\ Counted' /\ Placed' /\ size' <= size /\ size' \in Nat
    BY <2>1, Erased
  <2>3. Typed'
    BY <1>1, <2>1, <2>2 DEF Typed
  <2>4. Locked'
    BY <2>1 DEF PoolInv, Locked
  <2>5. Bounded'
    <3>1. size \in Nat /\ max_threads \in Nat /\ max_threads' = max_threads
      BY <1>1, <2>1, SizeType, ConfigType DEF Typed, size, max_threads
    <3>2. csize \in [Clients -> Nat]
      BY <1>1 DEF Typed
    <3> QED
      BY <2>1, <2>2, <3>1, <3>2 DEF PoolInv, Bounded
  <2>6. Drained'
    <3>1. list' = {} /\ \A w \in WorkerIds : wpc'[w] = "none"
      BY <1>1, <2>1, <2>2, Zenon DEF Erase, Places
    <3>2. min_threads = max_threads => queue = {}
      <4>1. ASSUME min_threads = max_threads PROVE queue = {}
        <5>1. PICK w \in list : wpc[w] = "dead" /\ w \in WorkerIds
          BY <1>1, <2>1, <4>1 DEF PoolInv, Drained, Typed
        <5> QED
          BY <4>1, <5>1 DEF PoolInv, Drained
      <4> QED
        BY <4>1
    <3> QED
      BY <2>1, <3>1, <3>2 DEF Drained, min_threads, max_threads
  <2> QED
    BY <2>2, <2>3, <2>4, <2>5, <2>6 DEF PoolInv
<1> QED
  BY <1>2, <1>3

-----------------------------------------------------------------------------
(* enqueue() *)

(* A client that enters with the mutex, moves on with it, or gives it up. *)
LEMMA LockedStep ==
    ASSUME Typed, Locked, NEW c \in Clients, mutex = c \/ mutex = None,
           NEW at \in {"idle", "cleanup", "full", "free"},
           cpc' = [cpc EXCEPT ![c] = at], mutex' = IF at = "idle" THEN None ELSE c,
           ~stop, UNCHANGED <<stop, spc>>
    PROVE  Locked' /\ mutex' \in Clients \cup {None}
<1>1. cpc'[c] = at /\ \A d \in Clients : d # c => cpc'[d] = cpc[d] /\ mutex # d
  BY NoneAssumption DEF Typed
<1> QED
  BY <1>1, NoneAssumption DEF Locked

LEMMA PushInv ==
    ASSUME PoolInv, NEW c \in Clients, Push(c)
    PROVE  PoolInv'
<1>1. PICK t \in todo :
          /\ todo' = todo \ {t} /\ ctask' = [ctask EXCEPT ![c] = t]
          /\ IF stop
             THEN rejected' = rejected \cup {t} /\ UNCHANGED <<queue, cpc, mutex>>
             ELSE /\ queue' = queue \cup {t} /\ cpc' = [cpc EXCEPT ![c] = "cleanup"]
                  /\ mutex' = c /\ UNCHANGED rejected
  BY Zenon DEF Push
<1>2. /\ mutex = None
      /\ UNCHANGED <<config, list, valid, wpc, wtask, active, stop, csize, spc, done>>
  BY DEF Push, workerVars
<1>3. Typed /\ Locked /\ Placed /\ t \in Tasks
  BY <1>1 DEF PoolInv, Typed
<1>4. Locked' /\ mutex' \in Clients \cup {None}
  <2>1. CASE stop
    BY <1>1, <1>2, <1>3, <2>1 DEF Locked
  <2>2. CASE ~stop
    BY <1>1, <1>2, <1>3, <2>2, LockedStep
  <2> QED
    BY <2>1, <2>2
<1>5. Typed'
  BY <1>1, <1>2, <1>3, <1>4 DEF Typed
<1>6. Places' /\ Counted'
  BY <1>2 DEF PoolInv, Places, Counted, Running
<1>7. Bounded'
  <2>1. \A d \in Clients : cpc'[d] = "free" => cpc[d] = "free"
    BY <1>1, <1>3 DEF Typed
  <2> QED
    BY <1>2, <2>1 DEF PoolInv, Bounded, size, max_threads
<1>8. Placed'
  <2>1. t \notin rejected /\ t \notin queue /\ t \notin done
    BY <1>1, <1>3 DEF Placed
  <2>2. \A w \in WorkerIds : wtask[w] # t
    BY <1>1, <1>3 DEF Placed
  <2>3. CASE stop
    BY <1>1, <1>2, <1>3, <2>1, <2>2, <2>3 DEF Placed
  <2>4. CASE ~stop
    BY <1>1, <1>2, <1>3, <2>1, <2>2, <2>4 DEF Placed
  <2> QED
    BY <2>3, <2>4
<1>9. Drained'
  <2>1. CASE stop
    BY <1>1, <1>2, <2>1 DEF PoolInv, Drained, min_threads, max_threads
  <2>2. CASE ~stop
    BY <1>2, <1>3, <2>2 DEF PoolInv, Drained, Locked, min_threads, max_threads
  <2> QED
    BY <2>1, <2>2
<1> QED
  BY <1>4, <1>5, <1>6, <1>7, <1>8, <1>9 DEF PoolInv

LEMMA CheckFullInv ==
    ASSUME PoolInv, NEW c \in Clients, CheckFull(c)
    PROVE  PoolInv'
<1> DEFINE at == IF size = max_threads THEN "idle" ELSE "free"
<1>1. /\ cpc[c] = "full" /\ cpc' = [cpc EXCEPT ![c] = at]
      /\ csize' = [csize EXCEPT ![c] = size]
      /\ mutex' = IF size = max_threads THEN None ELSE mutex
      /\ UNCHANGED <<config, queue, list, valid, wpc, wtask, active, stop, ctask, todo,
                     rejected, spc, done>>
  BY DEF CheckFull, workerVars
<1>2. Typed /\ Locked /\ Bounded /\ mutex = c /\ mutex # None /\ ~stop
  BY <1>1, NoneAssumption DEF PoolInv, Locked
<1>3. size \in Nat /\ max_threads \in Nat /\ csize \in [Clients -> Nat]
  BY <1>2, SizeType, ConfigType DEF Typed, size
<1>4. Locked' /\ mutex' \in Clients \cup {None}
  <2>1. at \in {"idle", "cleanup", "full", "free"} /\ mutex' = IF at = "idle" THEN None ELSE c
    BY <1>1, <1>2
  <2> HIDE DEF at
  <2> QED
    BY <1>1, <1>2, <2>1, LockedStep, Zenon
<1>5. Typed'
  BY <1>1, <1>2, <1>3, <1>4 DEF Typed
<1>6. Bounded'
  <2>1. size' = size /\ max_threads' = max_threads
    BY <1>1 DEF size, max_threads
  <2>2. /\ csize'[c] = size /\ cpc'[c] = at
        /\ \A d \in Clients : d # c => csize'[d] = csize[d] /\ cpc'[d] = cpc[d]
    BY <1>1, <1>2 DEF Typed
  <2>3. size <= max_threads /\ (at = "free" => size < max_threads)
    BY <1>2, <1>3 DEF Bounded
  <2> QED
    BY <1>2, <1>3, <2>1, <2>2, <2>3 DEF Bounded
<1>7. Places' /\ Counted' /\ Placed' /\ Drained'
  BY <1>1 DEF PoolInv, Places, Counted, Running, Placed, Drained, min_threads, max_threads
<1> QED
  BY <1>4, <1>5, <1>6, <1>7 DEF PoolInv

(* Only the holder of the mutex adds a worker, when the list has been      *)
(* shorter than the maximum since it was measured.                         *)
LEMMA CheckFreeInv ==
    ASSUME PoolInv, NEW c \in Clients, CheckFree(c)
    PROVE  PoolInv'
<1>1. /\ cpc[c] = "free" /\ cpc' = [cpc EXCEPT ![c] = "idle"] /\ mutex' = None
      /\ UNCHANGED <<config, queue, valid, wtask, active, stop, ctask, csize, todo,
                     rejected, spc, done>>
  BY DEF CheckFree
<1>2. Typed /\ Locked /\ Bounded /\ mutex = c /\ mutex # None /\ ~stop /\ spc = "idle"
  BY <1>1, NoneAssumption DEF PoolInv, Locked
<1>3. size \in Nat /\ max_threads \in Nat /\ csize \in [Clients -> Nat]
  BY <1>2, SizeType, ConfigType DEF Typed, size
<1>4. Locked' /\ mutex' \in Clients \cup {None}
  BY <1>1, <1>2, LockedStep, Zenon
<1>5. cpc'[c] = "idle" /\ \A d \in Clients : d # c => cpc'[d] = cpc[d] /\ cpc[d] = "idle"
  BY <1>1, <1>2 DEF Typed, Locked
<1>6. max_threads' = max_threads /\ min_threads' = min_threads
  BY <1>1 DEF max_threads, min_threads
<1>7. Placed'
  BY <1>1 DEF PoolInv, Placed
<1>8. CASE UNCHANGED <<list, wpc>>
  <2>1. Typed'
    BY <1>1, <1>2, <1>4, <1>8 DEF Typed
  <2>2. Places' /\ Counted' /\ Drained'
    BY <1>1, <1>6, <1>8, Zenon DEF PoolInv, Places, Counted, Running, Drained
  <2>3. Bounded'
    BY <1>1, <1>2, <1>5, <1>6, <1>8 DEF Bounded, size
  <2> QED
    BY <1>4, <1>7, <2>1, <2>2, <2>3 DEF PoolInv
<1>9. ASSUME NEW w \in WorkerIds \ list, list' = list \cup {w}, wpc' = [wpc EXCEPT ![w] = "loop"]
      PROVE  PoolInv'
  <2>1. wpc'[w] = "loop" /\ \A v \in WorkerIds : v # w => wpc'[v] = wpc[v]
    BY <1>2, <1>9, StepTo, Zenon
  <2>2. wpc[w] = "none" /\ wtask[w] = None /\ valid[w]
    BY <1>9 DEF PoolInv, Places
  <2>3. Typed'
    BY <1>1, <1>2, <1>4, <1>9 DEF Typed
  <2>4. Places'
    BY <1>1, <1>9, <2>1, <2>2 DEF PoolInv, Places
  <2>5. Counted'
    <3>1. Running' = Running
      BY <1>2, <1>9, <2>2, RunningSame, Zenon
    <3> QED
      BY <1>1, <3>1 DEF PoolInv, Counted
  <2>6. Bounded'
    <3>1. size' = size + 1
      BY <1>2, <1>9, SizeType, FS_AddElement DEF Typed, size
    <3>2. size < max_threads
      BY <1>1, <1>2, <1>3 DEF Bounded
    <3> QED
      BY <1>1, <1>2, <1>3, <1>5, <1>6, <3>1, <3>2 DEF Bounded
  <2>7. Drained'
    BY <1>1, <1>2, <1>6, <1>9, <2>1 DEF PoolInv, Drained
  <2> QED
    BY <1>4, <1>7, <2>3, <2>4, <2>5, <2>6, <2>7 DEF PoolInv
<1> QED
  BY <1>8, <1>9 DEF CheckFree

-----------------------------------------------------------------------------
LEMMA NextPoolInv == PoolInv /\ [Next]_vars => PoolInv'
<1> SUFFICES ASSUME PoolInv, [Next]_vars PROVE PoolInv'
  OBVIOUS
<1>1. ASSUME NEW w \in WorkerIds, Worker(w) \/ IdleTimeout(w)
      PROVE  PoolInv'
  BY <1>1, WorkerTakes, WorkerStops, WorkerCounts, WorkerExecutes, WorkerLeaves DEF Worker
<1>2. ASSUME NEW c \in Clients, CleanupBeforeScaling(c)
      PROVE  PoolInv'
  <2>1. ~stop
    BY <1>2, NoneAssumption DEF CleanupBeforeScaling, PoolInv, Locked
  <2> QED
    BY <1>2, <2>1, CleanupInv, Zenon DEF CleanupBeforeScaling
<1>3. ASSUME NEW c \in Clients, Push(c) \/ Client(c)
      PROVE  PoolInv'
  BY <1>2, <1>3, PushInv, CheckFullInv, CheckFreeInv DEF Client
<1>4. CASE CleanupRound
  BY <1>4, CleanupInv DEF CleanupRound, clientVars
<1>5. CASE SetStop \/ Clear
  BY <1>5, ShutdownInv
<1>6. CASE UNCHANGED vars
  BY <1>6, Zenon DEF vars, workerVars, clientVars, PoolInv, Typed, Places, Locked, Counted, Running,
              Bounded, Placed, Drained, size, min_threads, max_threads
<1> QED
  BY <1>1, <1>3, <1>4, <1>5, <1>6 DEF Next

LEMMA PoolInvariant == Spec => []PoolInv
BY InitPoolInv, NextPoolInv, PTL DEF Spec

(* enqueue() reads the size of the list and the number of active workers    *)
(* one after the other: the list never gets longer than max_threads, and    *)
(* free_threads() never wraps around, with any number of clients, workers   *)
(* and tasks and whatever the width of the cleanup counter.                 *)
THEOREM PoolCountsSound == Spec => []CountsSound
<1>1. PoolInv => CountsSound
  <2> SUFFICES ASSUME PoolInv PROVE CountsSound
    OBVIOUS
  <2>1. Typed /\ Bounded /\ active = Cardinality(Running) /\ size = Cardinality(list)
    BY DEF PoolInv, Counted, size
  <2>2. /\ size \in Nat /\ max_threads \in Nat /\ csize \in [Clients -> Nat]
        /\ IsFiniteSet(list)
    BY <2>1, SizeType, ConfigType DEF Typed
  <2>3. active \in Nat /\ active <= size
    <3>1. Running \in SUBSET list
      BY DEF Running, PoolInv, Places
    <3>2. Running \in SUBSET WorkerIds
      BY DEF Running
    <3> QED
      BY <2>1, <2>2, <3>1, <3>2, FS_Subset, SizeType
  <2>4. \A c \in Clients : csize[c] \in Nat /\ csize[c] <= max_threads
    BY <2>1, <2>2 DEF Bounded
  <2>5. csize \in [Clients -> 0 .. max_threads]
    BY <2>2, <2>4
  <2>6. active \in 0 .. Cardinality(list)
    BY <2>1, <2>2, <2>3
  <2>7. TypeOK
    BY <2>1, <2>5, <2>6 DEF Typed, TypeOK
  <2>8. \A c \in Clients : cpc[c] = "free" => active <= csize[c]
    BY <2>1, <2>2, <2>3, <2>4 DEF Bounded
  <2> QED
    BY <2>1, <2>7, <2>8 DEF CountsSound, Bounded
<1> QED
  BY <1>1, PoolInvariant, PTL

(* Every task is not enqueued, refused, queued, with one worker or executed *)
(* and in one place only; and shutdown() of a pool of fixed size returns    *)
(* with every accepted task executed.                                       *)
THEOREM PoolLosesNoTask == Spec => []NoTaskLost
<1>1. PoolInv => NoTaskLost
  <2> SUFFICES ASSUME PoolInv PROVE NoTaskLost
    OBVIOUS
  <2>1. Placed /\ Places
    BY DEF PoolInv
  <2>2. ASSUME NEW t \in Tasks
        PROVE  Cardinality({i \in 1 .. 4 : t \in <<todo, rejected, queue, done>>[i]})
                   + Cardinality({w \in WorkerIds : wtask[w] = t}) = 1
    <3> DEFINE at == {i \in 1 .. 4 : t \in <<todo, rejected, queue, done>>[i]}
               with == {w \in WorkerIds : wtask[w] = t}
    <3>1. t # None
      BY NoneAssumption
    <3>2. CASE \E w \in WorkerIds : wtask[w] = t
      <4>1. PICK w \in WorkerIds : wtask[w] = t
        BY <3>2
      <4>2. with = {w}
        BY <2>1, <3>1, <4>1 DEF Placed
      <4>3. t \notin todo /\ t \notin rejected /\ t \notin queue /\ t \notin done
        BY <2>1, <4>1 DEF Placed
      <4>4. at = {}
        BY <4>3
      <4> HIDE DEF at, with
      <4>5. Cardinality(at) = 0 /\ Cardinality(with) = 1
        BY <4>2, <4>4, FS_EmptySet, FS_Singleton, Zenon
      <4> QED
        BY <4>5 DEF at, with
    <3>3. CASE ~\E w \in WorkerIds : wtask[w] = t
      <4>1. with = {}
        BY <3>3
      <4>2. \E k \in 1 .. 4 : at = {k}
        <5>1. \/ t \in todo /\ t \notin rejected /\ t \notin queue /\ t \notin done
              \/ t \in rejected /\ t \notin todo /\ t \notin queue /\ t \notin done
              \/ t \in queue /\ t \notin todo /\ t \notin rejected /\ t \notin done
              \/ t \in done /\ t \notin todo /\ t \notin rejected /\ t \notin queue
          BY <2>1, <3>3 DEF Placed
        <5>2. t \in todo /\ t \notin rejected /\ t \notin queue /\ t \notin done => at = {1}
          OBVIOUS
        <5>3. t \in rejected /\ t \notin todo /\ t \notin queue /\ t \notin done => at = {2}
          OBVIOUS
        <5>4. t \in queue /\ t \notin todo /\ t \notin rejected /\ t \notin done => at = {3}
          OBVIOUS
        <5>5. t \in done /\ t \notin todo /\ t \notin rejected /\ t \notin queue => at = {4}
          OBVIOUS
        <5> HIDE DEF at
        <5> QED
          BY <5>1, <5>2, <5>3, <5>4, <5>5
      <4> HIDE DEF at, with
      <4>3. Cardinality(at) = 1 /\ Cardinality(with) = 0
        BY <4>1, <4>2, FS_EmptySet, FS_Singleton, Zenon
      <4> QED
        BY <4>3 DEF at, with
    <3> QED
      BY <3>2, <3>3
  <2>3. min_threads = max_threads /\ spc = "returned" => Tasks \ (todo \cup rejected) \subseteq done
    <3> SUFFICES ASSUME min_threads = max_threads, spc = "returned",
                        NEW t \in Tasks, t \notin todo, t \notin rejected
                 PROVE  t \in done
      OBVIOUS
    <3>1. queue = {} /\ list = {}
      BY DEF PoolInv, Drained
    <3>2. \A w \in WorkerIds : wtask[w] = None
      BY <2>1, <3>1 DEF Places
    <3> QED
      BY <2>1, <3>1, <3>2, NoneAssumption DEF Placed
  <2> QED
    BY <2>2, <2>3 DEF NoTaskLost
<1> QED
  BY <1>1, PoolInvariant, PTL
=============================================================================
