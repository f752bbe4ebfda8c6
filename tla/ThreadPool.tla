---------------------------- MODULE ThreadPool ----------------------------
(***************************************************************************)
(* multithread::ThreadPool: enqueue() pushes a task and may add a worker,  *)
(* workers run tasks by priority and leave after an idle timeout, a        *)
(* cleanup thread removes the workers that left, shutdown() drains the     *)
(* queue and joins everybody.                                              *)
(*                                                                         *)
(* What happens under task_queue_mutex_ is one step, except enqueue(),     *)
(* which reads the size of the list and the number of active workers one   *)
(* after the other while workers and cleanup change them.  A wait on the   *)
(* condition variable ends when there is work, on stop, or by its timeout; *)
(* since it always times out, no notification is needed for progress.      *)
(***************************************************************************)
EXTENDS Integers, FiniteSets

CONSTANTS Clients,          \* the threads that call enqueue()
          Tasks,            \* what they enqueue, each task once
          Priority,         \* the priority of each task
          WorkerIds,        \* the nodes of the list workers_
          Configs,          \* ThreadPoolConfig: records with min_threads and max_threads
          CounterValues,    \* the values of needs_cleanup, a uint8_t
          None              \* nobody, or no task

(* ThreadPoolConfig::ok *)
ok(cfg) ==
    cfg.min_threads > 0 /\ cfg.max_threads > 0 /\ cfg.min_threads <= cfg.max_threads

ASSUME OkAssumption ==
    \A cfg \in Configs : cfg.min_threads \in Nat /\ cfg.max_threads \in Nat /\ ok(cfg)
ASSUME CounterAssumption == CounterValues \in Nat \ {0}
ASSUME WorkersAssumption == IsFiniteSet(WorkerIds)
ASSUME NoneAssumption == None \notin Clients /\ None \notin Tasks

VARIABLES config,           \* config_
          queue,            \* tasks_
          list,             \* workers_: the nodes in the list
          valid,            \* safe_thread::valid
          wpc, wtask,       \* where each worker is, and its task
          active,           \* active_threads_
          stop,             \* stop_
          mutex,            \* the client that holds task_queue_mutex_
          cpc, ctask, csize,\* where each client is, its task, the size it read
          spc,              \* where shutdown() is
          todo,             \* tasks nobody has enqueued yet
          rejected,         \* tasks enqueue() refused
          done              \* tasks that were executed, in order of completion

workerVars == <<wpc, wtask>>
clientVars == <<cpc, ctask, csize, todo, rejected>>
vars == <<config, queue, list, valid, workerVars, active, stop, mutex, clientVars, spc, done>>

min_threads == config.min_threads
max_threads == config.max_threads

Init ==
    /\ config \in Configs
    /\ queue = {}
    /\ \E first \in SUBSET WorkerIds :
        /\ Cardinality(first) = min_threads
        /\ list = first
        /\ wpc = [w \in WorkerIds |-> IF w \in first THEN "loop" ELSE "none"]
    /\ valid = [w \in WorkerIds |-> TRUE]
    /\ wtask = [w \in WorkerIds |-> None]
    /\ active = 0
    /\ stop = FALSE
    /\ mutex = None
    /\ cpc = [c \in Clients |-> "idle"]
    /\ ctask = [c \in Clients |-> None]
    /\ csize = [c \in Clients |-> 0]
    /\ spc = "idle"
    /\ todo = Tasks
    /\ rejected = {}
    /\ done = {}

size == Cardinality(list)

-----------------------------------------------------------------------------
(* Workers. *)

(* top() of the priority queue: operator< orders by the value. *)
Top(t) == \A u \in queue : Priority[t] >= Priority[u]

(* Fault: the task is copied and not popped. *)
TakeWithoutPop(w) ==
    /\ wpc[w] = "loop" /\ mutex = None
    /\ \E t \in queue : Top(t) /\ wtask' = [wtask EXCEPT ![w] = t]
    /\ wpc' = [wpc EXCEPT ![w] = "activate"]
    /\ UNCHANGED <<config, queue, list, valid, active, stop, mutex, clientVars, spc, done>>

TakeTask(w) ==
    /\ wpc[w] = "loop" /\ mutex = None
    /\ \E t \in queue :
        /\ Top(t)
        /\ queue' = queue \ {t}
        /\ wtask' = [wtask EXCEPT ![w] = t]
    /\ wpc' = [wpc EXCEPT ![w] = "activate"]
    /\ UNCHANGED <<config, list, valid, active, stop, mutex, clientVars, spc, done>>

(* Fault: the minimum is kept on shutdown, too. *)
StopKeepsMinimum(w) ==
    /\ wpc[w] = "loop" /\ mutex = None
    /\ stop /\ queue = {} /\ size > min_threads
    /\ wpc' = [wpc EXCEPT ![w] = "leave"]
    /\ UNCHANGED <<config, queue, list, valid, wtask, active, stop, mutex, clientVars, spc, done>>

(* stop_ with an empty queue ends the worker's loop. *)
StopWorker(w) ==
    /\ wpc[w] = "loop" /\ mutex = None
    /\ stop /\ queue = {}
    /\ wpc' = [wpc EXCEPT ![w] = "leave"]
    /\ UNCHANGED <<config, queue, list, valid, wtask, active, stop, mutex, clientVars, spc, done>>

(* The idle timeout: the worker leaves if the list is long enough. *)
IdleTimeout(w) ==
    /\ wpc[w] = "loop" /\ mutex = None
    /\ ~stop /\ queue = {}
    /\ size > min_threads
    /\ wpc' = [wpc EXCEPT ![w] = "leave"]
    /\ UNCHANGED <<config, queue, list, valid, wtask, active, stop, mutex, clientVars, spc, done>>

(* ++active_threads_, outside the mutex *)
Activate(w) ==
    /\ wpc[w] = "activate"
    /\ active' = active + 1
    /\ wpc' = [wpc EXCEPT ![w] = "run"]
    /\ UNCHANGED <<config, queue, list, valid, wtask, stop, mutex, clientVars, spc, done>>

(* task.execute(): its future becomes ready. *)
Execute(w) ==
    /\ wpc[w] = "run"
    /\ done' = done \cup {wtask[w]}
    /\ wtask' = [wtask EXCEPT ![w] = None]
    /\ wpc' = [wpc EXCEPT ![w] = "deactivate"]
    /\ UNCHANGED <<config, queue, list, valid, active, stop, mutex, clientVars, spc>>

Deactivate(w) ==
    /\ wpc[w] = "deactivate"
    /\ active' = active - 1
    /\ wpc' = [wpc EXCEPT ![w] = "loop"]
    /\ UNCHANGED <<config, queue, list, valid, wtask, stop, mutex, clientVars, spc, done>>

(* worker.valid = false, the last thing the thread does *)
Leave(w) ==
    /\ wpc[w] = "leave"
    /\ valid' = [valid EXCEPT ![w] = FALSE]
    /\ wpc' = [wpc EXCEPT ![w] = "dead"]
    /\ UNCHANGED <<config, queue, list, wtask, active, stop, mutex, clientVars, spc, done>>

Worker(w) ==
    TakeTask(w) \/ StopWorker(w) \/ Activate(w) \/ Execute(w) \/ Deactivate(w) \/ Leave(w)

-----------------------------------------------------------------------------
(* cleanup_invalid_workers(): nothing if the counter of invalid workers,
   which is eight bits wide, is zero; else they are joined and erased. *)
Invalid == {w \in list : ~valid[w]}

Cleaned == IF Cardinality(Invalid) % CounterValues = 0 THEN {} ELSE Invalid

Erase(ws) ==
    /\ list' = list \ ws
    /\ valid' = [w \in WorkerIds |-> valid[w] \/ w \in ws]
    /\ wpc' = [w \in WorkerIds |-> IF w \in ws THEN "none" ELSE wpc[w]]

(* A round of the cleanup thread; shutdown() holds the list while it joins. *)
CleanupRound ==
    /\ ~stop /\ spc # "join"
    /\ Cleaned # {}
    /\ Erase(Cleaned)
    /\ UNCHANGED <<config, queue, wtask, active, stop, mutex, clientVars, spc, done>>

-----------------------------------------------------------------------------
(* enqueue(): holds task_queue_mutex_ from Push to the end. *)

Push(c) ==
    /\ cpc[c] = "idle" /\ mutex = None
    /\ \E t \in todo :
        /\ todo' = todo \ {t}
        /\ ctask' = [ctask EXCEPT ![c] = t]
        /\ IF stop
           THEN rejected' = rejected \cup {t} /\ UNCHANGED <<queue, cpc, mutex>>
           ELSE /\ queue' = queue \cup {t}
                /\ cpc' = [cpc EXCEPT ![c] = "cleanup"]
                /\ mutex' = c
                /\ UNCHANGED rejected
    /\ UNCHANGED <<config, list, valid, workerVars, active, stop, csize, spc, done>>

CleanupBeforeScaling(c) ==
    /\ cpc[c] = "cleanup"
    /\ Erase(Cleaned)
    /\ cpc' = [cpc EXCEPT ![c] = "full"]
    /\ UNCHANGED <<config, queue, wtask, active, stop, mutex, ctask, csize, todo, rejected, spc, done>>

(* Fault: the mutex is given up between the check and the new worker. *)
CheckFullUnlocked(c) ==
    /\ cpc[c] = "full"
    /\ cpc' = [cpc EXCEPT ![c] = IF size = max_threads THEN "idle" ELSE "free"]
    /\ csize' = [csize EXCEPT ![c] = size]
    /\ mutex' = None
    /\ UNCHANGED <<config, queue, list, valid, workerVars, active, stop, ctask, todo, rejected, spc, done>>

(* is_full(), and the size that free_threads() reads *)
CheckFull(c) ==
    /\ cpc[c] = "full"
    /\ cpc' = [cpc EXCEPT ![c] = IF size = max_threads THEN "idle" ELSE "free"]
    /\ csize' = [csize EXCEPT ![c] = size]
    /\ mutex' = IF size = max_threads THEN None ELSE mutex
    /\ UNCHANGED <<config, queue, list, valid, workerVars, active, stop, ctask, todo, rejected, spc, done>>

(* free_threads() reads active_threads_; without a free worker, create_worker *)
CheckFree(c) ==
    /\ cpc[c] = "free"
    /\ IF csize[c] - active = 0
       THEN \E w \in WorkerIds \ list :
                /\ list' = list \cup {w}
                /\ wpc' = [wpc EXCEPT ![w] = "loop"]
       ELSE UNCHANGED <<list, wpc>>
    /\ cpc' = [cpc EXCEPT ![c] = "idle"]
    /\ mutex' = None
    /\ UNCHANGED <<config, queue, valid, wtask, active, stop, ctask, csize, todo, rejected, spc, done>>

Client(c) == CleanupBeforeScaling(c) \/ CheckFull(c) \/ CheckFree(c)

-----------------------------------------------------------------------------
(* shutdown() *)

SetStop ==
    /\ spc = "idle" /\ mutex = None
    /\ stop' = TRUE
    /\ spc' = "join"
    /\ UNCHANGED <<config, queue, list, valid, workerVars, active, mutex, clientVars, done>>

(* workers_.write()->clear() joins all workers; the cleanup thread is
   joined next, and has nothing left to do. *)
Clear ==
    /\ spc = "join"
    /\ \A w \in list : wpc[w] = "dead"
    /\ Erase(list)
    /\ spc' = "returned"
    /\ UNCHANGED <<config, queue, wtask, active, stop, mutex, clientVars, done>>

-----------------------------------------------------------------------------
Next ==
    \/ \E w \in WorkerIds : Worker(w) \/ IdleTimeout(w)
    \/ \E c \in Clients : Push(c) \/ Client(c)
    \/ CleanupRound \/ SetStop \/ Clear

Spec == Init /\ [][Next]_vars

(* Workers and clients inside enqueue() keep running (a worker's wait times
   out, a task ends), and the workers get the mutex in the end; a shutdown
   that started goes on. *)
Fairness ==
    /\ \A w \in WorkerIds : WF_vars(Worker(w) /\ wpc[w] # "loop") /\ SF_vars(Worker(w))
    /\ \A c \in Clients : WF_vars(Client(c))
    /\ WF_vars(Clear)

FairSpec == Spec /\ Fairness

-----------------------------------------------------------------------------
(* Properties. *)

(* Workers, clients and shutdown() are at known places, tasks are tasks,    *)
(* and the mutex belongs to the client that is inside enqueue().            *)
TypeOK ==
    /\ config \in Configs
    /\ queue \subseteq Tasks /\ done \subseteq Tasks
    /\ todo \subseteq Tasks /\ rejected \subseteq Tasks
    /\ list \subseteq WorkerIds /\ valid \in [WorkerIds -> BOOLEAN]
    /\ wpc \in [WorkerIds -> {"none", "loop", "activate", "run", "deactivate", "leave", "dead"}]
    /\ wtask \in [WorkerIds -> Tasks \cup {None}]
    /\ active \in 0 .. Cardinality(list) /\ stop \in BOOLEAN
    /\ mutex \in Clients \cup {None}
    /\ cpc \in [Clients -> {"idle", "cleanup", "full", "free"}]
    /\ ctask \in [Clients -> Tasks \cup {None}] /\ csize \in [Clients -> 0 .. max_threads]
    /\ spc \in {"idle", "join", "returned"}

(* The counts by which enqueue() decides are sound, although it reads them  *)
(* one after the other and creates in a separate step: the list never gets  *)
(* longer than max_threads, and free_threads() does not wrap around, as the *)
(* active workers never exceed the size that was read a moment earlier.     *)
CountsSound ==
    /\ TypeOK
    /\ size <= max_threads
    /\ \A c \in Clients : cpc[c] = "free" => active <= csize[c]

(* Every task is in exactly one place: not enqueued, refused, queued, with  *)
(* one worker, or executed; none is lost and none runs twice.  In a pool of *)
(* fixed size, when shutdown() returns every task that enqueue() accepted   *)
(* was executed: the workers leave only when the queue is empty.            *)
NoTaskLost ==
    /\ \A t \in Tasks :
           Cardinality({i \in 1 .. 4 : t \in <<todo, rejected, queue, done>>[i]})
               + Cardinality({w \in WorkerIds : wtask[w] = t}) = 1
    /\ min_threads = max_threads /\ spc = "returned"
           => Tasks \ (todo \cup rejected) \subseteq done

(* shutdown() returns, also while workers come and go; and in a pool of     *)
(* fixed size, where no worker leaves before the shutdown, every accepted   *)
(* task is executed in the end.                                             *)
TasksAndShutdownEnd ==
    /\ spc = "join" ~> spc = "returned"
    /\ min_threads = max_threads => \A t \in Tasks : t \in queue ~> t \in done
=============================================================================
