-------------------------- MODULE ConnectionPool --------------------------
(***************************************************************************)
(* The lock-free PostgreSQL pool: ConnectionPool, its SlotHolders and the  *)
(* PoolJanitor, as LockFreeSession puts them together.  Users scan the     *)
(* slots with compare-and-set, the janitor replaces bad connections, and   *)
(* shutdown() stops the janitor and then retires the slots one by one.     *)
(*                                                                         *)
(* A step is one access to a slot's status.  Connecting, and the cleanup   *)
(* SQL, happen while the slot belongs to the thread that does it.          *)
(***************************************************************************)
EXTENDS Integers, FiniteSets

CONSTANTS Users,            \* the threads that acquire and release
          Capacity,         \* PoolConfig::capacity
          MinConnections,   \* PoolConfig::min_connections
          Attempts          \* the retries of acquire_slot_wait (10)

(* PoolConfig::validate *)
validate ==
    /\ Capacity > 0 /\ \E n \in 0 .. Capacity : Capacity = 2^n
    /\ MinConnections <= Capacity

ASSUME ConfigAssumption ==
    Capacity \in Nat /\ MinConnections \in Nat /\ validate
ASSUME AttemptsAssumption == Attempts \in Nat

VARIABLES status,           \* SlotHolder::status
          conn,             \* SlotHolder::conn_: "none", "good", "lost" when the
                            \* server is gone and PQstatus, which is cached, does
                            \* not say so yet, and "bad" when it does
          hint,             \* hint_cursor_
          shutdown,         \* shutdown_
          upc, start, i,    \* where each user is, and its scan
          left,             \* the retries it has left
          jpc, j,           \* where the janitor is, and its slot
          stop,             \* the janitor's stop_token
          spc, k, seen      \* where shutdown() is, its slot, the status it read

userVars == <<upc, start, i, left>>
janitorVars == <<jpc, j, stop>>
shutdownVars == <<spc, k, seen>>
vars == <<status, conn, hint, shutdown, userVars, janitorVars, shutdownVars>>

Slots == 0 .. Capacity - 1

(* (start + i) & mask_ *)
Slot(u) == (start[u] + i[u]) % Capacity

(* The constructor connects the first slots, as far as the server lets it. *)
Init ==
    /\ \E up \in SUBSET (0 .. MinConnections - 1) :
        /\ status = [s \in Slots |-> IF s >= MinConnections THEN "INACTIVE"
                                     ELSE IF s \in up THEN "FREE" ELSE "DEAD"]
        /\ conn = [s \in Slots |-> IF s \in up THEN "good" ELSE "none"]
    /\ hint = 0
    /\ shutdown = FALSE
    /\ upc = [u \in Users |-> "idle"]
    /\ start = [u \in Users |-> 0]
    /\ i = [u \in Users |-> 0]
    /\ left = [u \in Users |-> 0]
    /\ jpc = "sleep" /\ j = 0 /\ stop = FALSE
    /\ spc = "idle" /\ k = 0 /\ seen = "INACTIVE"

(* The server or the network drops a connection; libpq learns of it when it
   is used next, and only its user uses it. *)
Lose(s) ==
    /\ conn[s] = "good"
    /\ conn' = [conn EXCEPT ![s] = "lost"]
    /\ UNCHANGED <<status, hint, shutdown, userVars, janitorVars, shutdownVars>>

Notice(u) ==
    /\ upc[u] = "using" /\ conn[Slot(u)] = "lost"
    /\ conn' = [conn EXCEPT ![Slot(u)] = "bad"]
    /\ UNCHANGED <<status, hint, shutdown, userVars, janitorVars, shutdownVars>>

-----------------------------------------------------------------------------
(* acquire_slot and acquire_slot_wait *)

Acquire(u) ==
    /\ upc[u] = "idle" /\ ~shutdown
    /\ \E n \in {0, Attempts} : left' = [left EXCEPT ![u] = n]
    /\ start' = [start EXCEPT ![u] = hint]
    /\ i' = [i EXCEPT ![u] = 0]
    /\ upc' = [upc EXCEPT ![u] = "free"]
    /\ UNCHANGED <<status, conn, hint, shutdown, janitorVars, shutdownVars>>

(* The first pass: FREE becomes USED. *)
TakeFree(u) ==
    /\ upc[u] = "free" /\ status[Slot(u)] = "FREE"
    /\ status' = [status EXCEPT ![Slot(u)] = "USED"]
    /\ hint' = (Slot(u) + 1) % Capacity
    /\ upc' = [upc EXCEPT ![u] = "using"]
    /\ UNCHANGED <<conn, shutdown, start, i, left, janitorVars, shutdownVars>>

(* The second pass: INACTIVE becomes USED, and a connection is created. *)
TakeInactive(u) ==
    /\ upc[u] = "inactive" /\ status[Slot(u)] = "INACTIVE"
    /\ status' = [status EXCEPT ![Slot(u)] = "USED"]
    /\ upc' = [upc EXCEPT ![u] = "create"]
    /\ UNCHANGED <<conn, hint, shutdown, start, i, left, janitorVars, shutdownVars>>

(* On to the next slot, the next pass, or the end of the scan. *)
Advance(u) ==
    IF i[u] + 1 < Capacity
    THEN /\ i' = [i EXCEPT ![u] = @ + 1]
         /\ upc' = [upc EXCEPT ![u] = IF @ = "create" THEN "inactive" ELSE @]
    ELSE /\ i' = [i EXCEPT ![u] = 0]
         /\ upc' = [upc EXCEPT ![u] = IF @ = "free" THEN "inactive" ELSE "missed"]

Skip(u) ==
    /\ \/ upc[u] = "free" /\ status[Slot(u)] # "FREE"
       \/ upc[u] = "inactive" /\ status[Slot(u)] # "INACTIVE"
    /\ Advance(u)
    /\ UNCHANGED <<status, conn, hint, shutdown, start, left, janitorVars, shutdownVars>>

Connected(u) ==
    /\ upc[u] = "create"
    /\ conn' = [conn EXCEPT ![Slot(u)] = "good"]
    /\ hint' = (Slot(u) + 1) % Capacity
    /\ upc' = [upc EXCEPT ![u] = "using"]
    /\ UNCHANGED <<status, shutdown, start, i, left, janitorVars, shutdownVars>>

NotConnected(u) ==
    /\ upc[u] = "create"
    /\ status' = [status EXCEPT ![Slot(u)] = "DEAD"]
    /\ Advance(u)
    /\ UNCHANGED <<conn, hint, shutdown, start, left, janitorVars, shutdownVars>>

(* Back to the caller, whose scan is forgotten. *)
Done(u) ==
    /\ upc' = [upc EXCEPT ![u] = "idle"]
    /\ start' = [start EXCEPT ![u] = 0]
    /\ i' = [i EXCEPT ![u] = 0]
    /\ left' = [left EXCEPT ![u] = 0]

(* The scan found nothing: sleep and scan again, or return an expired weak. *)
Missed(u) ==
    /\ upc[u] = "missed"
    /\ IF left[u] > 0 /\ ~shutdown
       THEN /\ left' = [left EXCEPT ![u] = @ - 1]
            /\ start' = [start EXCEPT ![u] = hint]
            /\ upc' = [upc EXCEPT ![u] = "free"]
            /\ UNCHANGED i
       ELSE Done(u)
    /\ UNCHANGED <<status, conn, hint, shutdown, janitorVars, shutdownVars>>

(* reset(), when the executor or transaction is destroyed.  run_cleanup_sql
   fails on a connection known to be bad; on any other the cleanup SQL, which
   is optional, may fail. *)
Reset(u) ==
    /\ upc[u] = "using"
    /\ \/ status' = [status EXCEPT ![Slot(u)] = "DEAD"]
       \/ conn[Slot(u)] # "bad" /\ status' = [status EXCEPT ![Slot(u)] = "FREE"]
    /\ Done(u)
    /\ UNCHANGED <<conn, hint, shutdown, janitorVars, shutdownVars>>

Scanning(u) ==
    \/ TakeFree(u) \/ TakeInactive(u) \/ Skip(u)
    \/ Connected(u) \/ NotConnected(u) \/ Missed(u)

-----------------------------------------------------------------------------
(* PoolJanitor::run and sweep *)

Wake ==
    /\ jpc = "sleep"
    /\ jpc' = IF stop THEN "stopped" ELSE "look"
    /\ UNCHANGED <<status, conn, hint, shutdown, userVars, j, stop, shutdownVars>>

NextSlot ==
    IF j + 1 < Capacity THEN j' = j + 1 /\ jpc' = "look" ELSE j' = 0 /\ jpc' = "sleep"

(* Fault: a sweep does not look at DEAD slots. *)
LookOnlyAtFree ==
    /\ jpc = "look"
    /\ IF stop
       THEN jpc' = "sleep" /\ j' = 0
       ELSE IF status[j] = "FREE" THEN jpc' = "check" /\ UNCHANGED j
       ELSE NextSlot
    /\ UNCHANGED <<status, conn, hint, shutdown, userVars, stop, shutdownVars>>

(* The stop token, then the status of one slot. *)
Look ==
    /\ jpc = "look"
    /\ IF stop
       THEN jpc' = "sleep" /\ j' = 0
       ELSE IF status[j] = "DEAD" THEN jpc' = "replace" /\ UNCHANGED j
       ELSE IF status[j] = "FREE" THEN jpc' = "check" /\ UNCHANGED j
       ELSE NextSlot
    /\ UNCHANGED <<status, conn, hint, shutdown, userVars, stop, shutdownVars>>

(* check_connection, on a slot that was FREE a moment ago, asks PQstatus. *)
Check ==
    /\ jpc = "check"
    /\ IF conn[j] \in {"good", "lost"} THEN NextSlot ELSE jpc' = "cas" /\ UNCHANGED j
    /\ UNCHANGED <<status, conn, hint, shutdown, userVars, stop, shutdownVars>>

(* Fault: the janitor stores DEAD without comparing. *)
MarkDeadByStore ==
    /\ jpc = "cas"
    /\ status' = [status EXCEPT ![j] = "DEAD"]
    /\ jpc' = "replace"
    /\ UNCHANGED <<conn, hint, shutdown, userVars, j, stop, shutdownVars>>

(* FREE becomes DEAD, unless somebody took the slot meanwhile. *)
MarkDead ==
    /\ jpc = "cas"
    /\ IF status[j] = "FREE"
       THEN status' = [status EXCEPT ![j] = "DEAD"] /\ jpc' = "replace" /\ UNCHANGED j
       ELSE NextSlot /\ UNCHANGED status
    /\ UNCHANGED <<conn, hint, shutdown, userVars, stop, shutdownVars>>

(* The replacement works and the slot is FREE, or not and it is INACTIVE. *)
Replace ==
    /\ jpc = "replace"
    /\ \/ /\ conn' = [conn EXCEPT ![j] = "good"]
          /\ status' = [status EXCEPT ![j] = "FREE"]
       \/ /\ conn' = [conn EXCEPT ![j] = "none"]
          /\ status' = [status EXCEPT ![j] = "INACTIVE"]
    /\ NextSlot
    /\ UNCHANGED <<hint, shutdown, userVars, stop, shutdownVars>>

Janitor == Wake \/ Look \/ Check \/ MarkDead \/ Replace

-----------------------------------------------------------------------------
(* LockFreeSession::shutdown: PoolJanitor::stop, then ConnectionPool's. *)

(* Fault: the janitor is joined without having been told to stop. *)
StopJanitorSilently ==
    /\ spc = "idle"
    /\ spc' = "join"
    /\ UNCHANGED <<status, conn, hint, shutdown, userVars, janitorVars, k, seen>>

StopJanitor ==
    /\ spc = "idle"
    /\ stop' = TRUE
    /\ spc' = "join"
    /\ UNCHANGED <<status, conn, hint, shutdown, userVars, jpc, j, k, seen>>

SetShutdown ==
    /\ spc = "join" /\ jpc = "stopped"
    /\ shutdown' = TRUE
    /\ spc' = "load"
    /\ UNCHANGED <<status, conn, hint, userVars, janitorVars, k, seen>>

LoadStatus ==
    /\ spc = "load"
    /\ seen' = status[k]
    /\ spc' = "store"
    /\ UNCHANGED <<status, conn, hint, shutdown, userVars, janitorVars, k>>

(* A slot that was not borrowed when its status was read becomes INACTIVE. *)
Retire ==
    /\ spc = "store"
    /\ status' = IF seen = "USED" THEN status ELSE [status EXCEPT ![k] = "INACTIVE"]
    /\ k' = IF k + 1 < Capacity THEN k + 1 ELSE 0
    /\ seen' = "INACTIVE"
    /\ spc' = IF k + 1 < Capacity THEN "load" ELSE "done"
    /\ UNCHANGED <<conn, hint, shutdown, userVars, janitorVars>>

Shutdown == SetShutdown \/ LoadStatus \/ Retire

-----------------------------------------------------------------------------
Next ==
    \/ \E u \in Users : Acquire(u) \/ Scanning(u) \/ Notice(u) \/ Reset(u)
    \/ \E s \in Slots : Lose(s)
    \/ Janitor \/ StopJanitor \/ Shutdown

Spec == Init /\ [][Next]_vars

(* The janitor's sleep ends after its interval, scans and a shutdown go on.
   Nobody has to acquire, to release or to shut down. *)
Fairness ==
    /\ WF_vars(Janitor) /\ WF_vars(Shutdown)
    /\ \A u \in Users : WF_vars(Scanning(u))

FairSpec == Spec /\ Fairness

-----------------------------------------------------------------------------
(* Properties. *)

(* Statuses and places are known ones, and every index is one of a slot.    *)
TypeOK ==
    /\ status \in [Slots -> {"FREE", "USED", "DEAD", "INACTIVE"}]
    /\ conn \in [Slots -> {"none", "good", "lost", "bad"}]
    /\ hint \in Slots /\ shutdown \in BOOLEAN
    /\ upc \in [Users -> {"idle", "free", "inactive", "create", "missed", "using"}]
    /\ start \in [Users -> Slots] /\ i \in [Users -> Slots]
    /\ left \in [Users -> 0 .. Attempts]
    /\ jpc \in {"sleep", "look", "check", "cas", "replace", "stopped"}
    /\ j \in Slots /\ stop \in BOOLEAN
    /\ spc \in {"idle", "join", "load", "store", "done"} /\ k \in Slots
    /\ seen \in {"FREE", "USED", "DEAD", "INACTIVE"}

Holds(u, s) == upc[u] \in {"create", "using"} /\ Slot(u) = s

(* Until the pool is shut down, a slot is USED exactly while one user holds *)
(* it, and DEAD while the janitor replaces its connection: nobody shares a  *)
(* connection, none is closed under its user, and no slot is lost.  Whoever *)
(* is given a slot finds a connection in it, a live or a broken one, also   *)
(* when the janitor failed to replace it and when the pool is shut down     *)
(* meanwhile.                                                               *)
SlotExclusive ==
    /\ TypeOK
    /\ ~shutdown =>
           /\ \A s \in Slots : status[s] = "USED" <=> \E u \in Users : Holds(u, s)
           /\ \A u, v \in Users : \A s \in Slots : Holds(u, s) /\ Holds(v, s) => u = v
           /\ jpc = "replace" => status[j] = "DEAD"
    /\ \A u \in Users : upc[u] = "using" => conn[Slot(u)] # "none"

(* Unless the janitor is stopped, a slot does not stay DEAD.                *)
DeadRecovered ==
    \A s \in Slots : status[s] = "DEAD" ~> status[s] # "DEAD" \/ stop

(* shutdown() returns: the janitor stops in the middle of a sweep.          *)
ShutdownReturns == spc = "join" ~> spc = "done"
=============================================================================
