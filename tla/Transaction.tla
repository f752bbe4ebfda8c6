---------------------------- MODULE Transaction ----------------------------
(***************************************************************************)
(* Transaction, AutoTransaction and Savepoint objects over pooled          *)
(* PostgreSQL connections.  The objects are C++ values: they are created,  *)
(* moved, assigned and destroyed, and each keeps its own idea of what the  *)
(* server session of its connection is doing.  The server is modelled by   *)
(* its replies to the control statements the code sends; the pool by what  *)
(* reset() does with a returned connection.                                *)
(***************************************************************************)
EXTENDS Naturals, Sequences, FiniteSets

CONSTANTS Txs,              \* places where a transaction object can live
          Sps,              \* places where a savepoint object can live
          Conns,            \* the connections of the pool
          Names,            \* savepoint names that are valid identifiers
          NoConn,           \* the null PGconn*
          MaxDepth          \* bound on the server's stack of savepoints

Statuses == {"IDLE", "ACTIVE", "COMMITTED", "ROLLED_BACK", "FAILED"}

ASSUME NoConnAssumption == NoConn \notin Conns
ASSUME MaxDepthAssumption == MaxDepth \in Nat
ASSUME NamesAssumption == Names # {}

VARIABLES tx,       \* status_, conn_ and kind of each object; status "none": no object
          sp,       \* conn_, name_ and active_ of each savepoint; live: it exists
          srv,      \* the server session: "idle", "open" or "failed", its savepoints, and
                    \* left: its transaction was left open by an object assigned over
          link,     \* "good", "lost" when libpq does not know yet, "bad" when it does
          pool      \* "free", "used", or "dead" until the pool replaces it

vars == <<tx, sp, srv, link, pool>>

NoTx == [status |-> "none", conn |-> NoConn, auto |-> FALSE]
MovedFrom(t) == [tx[t] EXCEPT !.status = "FAILED", !.conn = NoConn]
NoSp == [live |-> FALSE, conn |-> NoConn, name |-> CHOOSE n \in Names : TRUE, active |-> FALSE]
SpMovedFrom(p) == [sp[p] EXCEPT !.conn = NoConn, !.active = FALSE]
Idle == [state |-> "idle", stack |-> <<>>, left |-> FALSE]

Init ==
    /\ tx = [t \in Txs |-> NoTx]
    /\ sp = [p \in Sps |-> NoSp]
    /\ srv = [c \in Conns |-> Idle]
    /\ link = [c \in Conns |-> "good"]
    /\ pool = [c \in Conns |-> "free"]

-----------------------------------------------------------------------------
(* The server: the possible replies to a statement, and the session after it *)

Reply(ok, session) == [ok |-> ok, session |-> session]
Aborted(s) == IF s.state = "idle" THEN s ELSE [s EXCEPT !.state = "failed"]

OnBegin(s) ==
    IF s.state = "failed" THEN {Reply(FALSE, s)}
    ELSE {Reply(TRUE, [s EXCEPT !.state = "open"]), Reply(FALSE, Aborted(s))}

(* COMMIT of an aborted transaction succeeds, and rolls it back; a deferred
   constraint fails the COMMIT of an open one. *)
OnCommit(s) == {Reply(TRUE, Idle)} \cup IF s.state = "open" THEN {Reply(FALSE, Idle)} ELSE {}

OnRollback(s) == {Reply(TRUE, Idle)}

OnQuery(s) == {Reply(FALSE, Aborted(s))} \cup IF s.state = "failed" THEN {} ELSE {Reply(TRUE, s)}

OnSavepoint(s, n) ==
    IF s.state = "open" THEN {Reply(TRUE, [s EXCEPT !.stack = Append(@, n)])}
    ELSE {Reply(FALSE, s)}

Has(s, n) == \E k \in DOMAIN s.stack : s.stack[k] = n
Newest(s, n) ==
    CHOOSE k \in DOMAIN s.stack :
        s.stack[k] = n /\ \A m \in k + 1 .. Len(s.stack) : s.stack[m] # n

OnRollbackTo(s, n) ==
    IF s.state # "idle" /\ Has(s, n)
    THEN {Reply(TRUE, [s EXCEPT !.state = "open", !.stack = SubSeq(@, 1, Newest(s, n))])}
    ELSE {Reply(FALSE, Aborted(s))}

OnRelease(s, n) ==
    IF s.state = "open" /\ Has(s, n)
    THEN {Reply(TRUE, [s EXCEPT !.stack = SubSeq(@, 1, Newest(s, n) - 1)])}
    ELSE {Reply(FALSE, Aborted(s))}

(* SyncExecutor::execute on a raw connection: it fails when there is none or
   it is bad; libpq learns here that the server is gone. *)
Replies(c, replies) ==
    IF c # NoConn /\ link[c] = "good" THEN replies
    ELSE {Reply(FALSE, Idle)}

Sent(c, r) ==
    IF c = NoConn THEN UNCHANGED <<srv, link>>
    ELSE /\ srv' = [srv EXCEPT ![c] = r.session]
         /\ link' = [link EXCEPT ![c] = IF @ = "lost" THEN "bad" ELSE @]

Session(c) == IF c = NoConn THEN Idle ELSE srv[c]

Lose(c) ==
    /\ link[c] = "good"
    /\ link' = [link EXCEPT ![c] = "lost"]
    /\ srv' = [srv EXCEPT ![c] = Idle]
    /\ UNCHANGED <<tx, sp, pool>>

-----------------------------------------------------------------------------
(* The pool *)

(* reset() on a connection libpq knows as l: it is free again, or dead when
   the connection is bad or its optional cleanup statement fails. *)
Returned(l) == IF l = "bad" THEN {"dead"} ELSE {"free", "dead"}

Replace(c) ==
    /\ pool[c] = "dead"
    /\ pool' = [pool EXCEPT ![c] = "free"]
    /\ srv' = [srv EXCEPT ![c] = Idle]
    /\ link' = [link EXCEPT ![c] = "good"]
    /\ UNCHANGED <<tx, sp>>

-----------------------------------------------------------------------------
(* Transaction and AutoTransaction *)

BeginTransaction(t) ==
    /\ tx[t].status = "none"
    /\ \E c \in Conns :
        /\ pool[c] = "free"
        /\ pool' = [pool EXCEPT ![c] = "used"]
        /\ tx' = [tx EXCEPT ![t] = [status |-> "IDLE", conn |-> c, auto |-> FALSE]]
    /\ UNCHANGED <<sp, srv, link>>

(* Acquire, BEGIN, and give the connection back when BEGIN fails. *)
BeginAutoTransaction(t) ==
    /\ tx[t].status = "none"
    /\ \E c \in Conns : pool[c] = "free" /\
        \E r \in Replies(c, OnBegin(srv[c])) :
            /\ Sent(c, r)
            /\ IF r.ok
               THEN /\ pool' = [pool EXCEPT ![c] = "used"]
                    /\ tx' = [tx EXCEPT ![t] = [status |-> "ACTIVE", conn |-> c, auto |-> TRUE]]
               ELSE /\ \E to \in Returned(link'[c]) : pool' = [pool EXCEPT ![c] = to]
                    /\ UNCHANGED tx
    /\ UNCHANGED sp

Control(t, replies, done) ==
    \E r \in Replies(tx[t].conn, replies) :
        /\ Sent(tx[t].conn, r)
        /\ tx' = [tx EXCEPT ![t].status = IF r.ok THEN done ELSE "FAILED"]
        /\ UNCHANGED <<sp, pool>>

Begin(t) ==
    /\ tx[t].status = "IDLE"
    /\ Control(t, OnBegin(Session(tx[t].conn)), "ACTIVE")

(* Fault: whatever the server answers, the transaction is over. *)
CommitForgotten(t) ==
    /\ tx[t].status = "ACTIVE"
    /\ tx' = [tx EXCEPT ![t].status = "COMMITTED"]
    /\ UNCHANGED <<sp, srv, link, pool>>

Commit(t) ==
    /\ tx[t].status = "ACTIVE"
    /\ Control(t, OnCommit(Session(tx[t].conn)), "COMMITTED")

(* An AutoTransaction has no rollback(). *)
Rollback(t) ==
    /\ tx[t].status = "ACTIVE" /\ ~tx[t].auto
    /\ Control(t, OnRollback(Session(tx[t].conn)), "ROLLED_BACK")

(* A statement through with_sync() or with_async() *)
Query(t) ==
    /\ tx[t].status = "ACTIVE"
    /\ \E r \in Replies(tx[t].conn, OnQuery(Session(tx[t].conn))) : Sent(tx[t].conn, r)
    /\ UNCHANGED <<tx, sp, pool>>

(* A savepoint that is still active does not outlive its transaction. *)
Scoped(t) == \A p \in Sps : sp[p].live /\ sp[p].active => sp[p].conn # tx[t].conn

(* Fault: the destructor does not roll back. *)
DestroyQuietly(t) ==
    /\ tx[t].status # "none" /\ Scoped(t)
    /\ tx' = [tx EXCEPT ![t] = NoTx]
    /\ LET c == tx[t].conn IN
       IF c = NoConn THEN UNCHANGED pool
       ELSE \E to \in Returned(link[c]) : pool' = [pool EXCEPT ![c] = to]
    /\ UNCHANGED <<sp, srv, link>>

(* The destructor: ROLLBACK if still active, then reset(). *)
Destroy(t) ==
    /\ tx[t].status # "none" /\ Scoped(t)
    /\ tx' = [tx EXCEPT ![t] = NoTx]
    /\ LET c == tx[t].conn IN
       IF c = NoConn THEN UNCHANGED <<srv, link, pool>>
       ELSE /\ IF tx[t].status = "ACTIVE"
               THEN \E r \in Replies(c, OnRollback(srv[c])) : Sent(c, r)
               ELSE UNCHANGED <<srv, link>>
            /\ \E to \in Returned(link'[c]) : pool' = [pool EXCEPT ![c] = to]
    /\ UNCHANGED sp

(* Fault: the moved-from object keeps its connection. *)
MoveCopies(t, u) ==
    /\ tx[t].status # "none" /\ tx[u].status = "none"
    /\ tx' = [tx EXCEPT ![u] = tx[t]]
    /\ UNCHANGED <<sp, srv, link, pool>>

Move(t, u) ==
    /\ tx[t].status # "none" /\ tx[u].status = "none"
    /\ tx' = [tx EXCEPT ![u] = tx[t], ![t] = MovedFrom(t)]
    /\ UNCHANGED <<sp, srv, link, pool>>

(* u = std::move(t): reset() for u's connection, without a ROLLBACK, in     *)
(* whatever status u is.                                                    *)
MoveAssign(t, u) ==
    /\ t # u /\ tx[t].status # "none" /\ tx[u].status # "none"
    /\ tx[t].auto = tx[u].auto /\ Scoped(u)
    /\ tx' = [tx EXCEPT ![u] = tx[t], ![t] = MovedFrom(t)]
    /\ LET c == tx[u].conn IN
       IF c = NoConn THEN UNCHANGED <<srv, pool>>
       ELSE /\ srv' = [srv EXCEPT ![c].left = (srv[c].state # "idle")]
            /\ \E to \in Returned(link[c]) : pool' = [pool EXCEPT ![c] = to]
    /\ UNCHANGED <<sp, link>>

-----------------------------------------------------------------------------
(* Savepoint *)

Savepoint(t, p, n) ==
    /\ tx[t].status = "ACTIVE" /\ ~sp[p].live
    /\ Len(Session(tx[t].conn).stack) < MaxDepth
    /\ \E r \in Replies(tx[t].conn, OnSavepoint(Session(tx[t].conn), n)) :
        /\ Sent(tx[t].conn, r)
        /\ sp' = IF r.ok
                 THEN [sp EXCEPT ![p] = [live |-> TRUE, conn |-> tx[t].conn,
                                         name |-> n, active |-> TRUE]]
                 ELSE sp
    /\ UNCHANGED <<tx, pool>>

SavepointRollback(p) ==
    /\ sp[p].live /\ sp[p].active
    /\ \E r \in Replies(sp[p].conn, OnRollbackTo(Session(sp[p].conn), sp[p].name)) :
        Sent(sp[p].conn, r)
    /\ UNCHANGED <<tx, sp, pool>>

SavepointRelease(p) ==
    /\ sp[p].live /\ sp[p].active
    /\ \E r \in Replies(sp[p].conn, OnRelease(Session(sp[p].conn), sp[p].name)) :
        /\ Sent(sp[p].conn, r)
        /\ sp' = [sp EXCEPT ![p].active = ~r.ok]
    /\ UNCHANGED <<tx, pool>>

(* What the destructor and the assignment do first: a savepoint that is     *)
(* still active is released, whatever comes of it.                          *)
ReleaseActive(p) ==
    IF sp[p].active
    THEN \E r \in Replies(sp[p].conn, OnRelease(Session(sp[p].conn), sp[p].name)) :
             Sent(sp[p].conn, r)
    ELSE UNCHANGED <<srv, link>>

SavepointDestroy(p) ==
    /\ sp[p].live
    /\ ReleaseActive(p)
    /\ sp' = [sp EXCEPT ![p] = NoSp]
    /\ UNCHANGED <<tx, pool>>

SavepointMove(p, q) ==
    /\ sp[p].live /\ ~sp[q].live
    /\ sp' = [sp EXCEPT ![q] = sp[p], ![p] = SpMovedFrom(p)]
    /\ UNCHANGED <<tx, srv, link, pool>>

(* q = std::move(p) *)
SavepointMoveAssign(p, q) ==
    /\ p # q /\ sp[p].live /\ sp[q].live
    /\ ReleaseActive(q)
    /\ sp' = [sp EXCEPT ![q] = sp[p], ![p] = SpMovedFrom(p)]
    /\ UNCHANGED <<tx, pool>>

-----------------------------------------------------------------------------
Next ==
    \/ \E t \in Txs :
        \/ BeginTransaction(t) \/ BeginAutoTransaction(t) \/ Begin(t) \/ Commit(t)
        \/ Rollback(t) \/ Query(t) \/ Destroy(t)
        \/ \E u \in Txs : Move(t, u) \/ MoveAssign(t, u)
        \/ \E p \in Sps, n \in Names : Savepoint(t, p, n)
    \/ \E p \in Sps : SavepointRollback(p) \/ SavepointRelease(p) \/ SavepointDestroy(p)
    \/ \E p, q \in Sps : SavepointMove(p, q) \/ SavepointMoveAssign(p, q)
    \/ \E c \in Conns : Lose(c) \/ Replace(c)

Spec == Init /\ [][Next]_vars

-----------------------------------------------------------------------------
(* Properties. *)

(* Objects, sessions and connections are in known states, and a connection  *)
(* of an object is one of the pool.  An AutoTransaction was begun, and only *)
(* its destructor rolls it back.                                            *)
TypeOK ==
    /\ tx \in [Txs -> [status : Statuses \cup {"none"}, conn : Conns \cup {NoConn},
                       auto : BOOLEAN]]
    /\ \A t \in Txs : tx[t].auto => tx[t].status \notin {"IDLE", "ROLLED_BACK"}
    /\ sp \in [Sps -> [live : BOOLEAN, conn : Conns \cup {NoConn}, name : Names,
                       active : BOOLEAN]]
    /\ \A c \in Conns : /\ srv[c].state \in {"idle", "open", "failed"}
                        /\ srv[c].stack \in Seq(Names) /\ Len(srv[c].stack) <= MaxDepth
                        /\ srv[c].left \in BOOLEAN /\ (srv[c].left => srv[c].state # "idle")
    /\ link \in [Conns -> {"good", "lost", "bad"}]
    /\ pool \in [Conns -> {"free", "used", "dead"}]

(* Through any sequence of moves, assignments and destructions a borrowed   *)
(* connection belongs to exactly one transaction object, and one that was   *)
(* returned to none: no connection leaks and none is returned twice.        *)
ConnectionOwned ==
    /\ TypeOK
    /\ \A c \in Conns :
           LET owners == {t \in Txs : tx[t].conn = c}
           IN  Cardinality(owners) = IF pool[c] = "used" THEN 1 ELSE 0

(* A transaction knows its session: ACTIVE only while the server has a      *)
(* transaction, also after errors, savepoint statements and moves; in any   *)
(* other status the server has none, except one that was left open on the   *)
(* connection when an ACTIVE object was assigned over (operator= returns    *)
(* the connection and sends no ROLLBACK).                                   *)
StatusHonest ==
    \A t \in Txs :
        LET c == tx[t].conn IN
        c # NoConn /\ link[c] = "good" =>
            /\ tx[t].status = "ACTIVE" => srv[c].state # "idle"
            /\ srv[c].state # "idle" => tx[t].status = "ACTIVE" \/ srv[c].left

(* The pool itself rolls nothing back (run_cleanup_sql sends the optional   *)
(* cleanup statement only), so a connection is as clean as its last object  *)
(* leaves it: one that is free to be borrowed has no transaction open,      *)
(* unless an ACTIVE object was assigned over and nobody has ended its       *)
(* transaction since.                                                       *)
ReturnedClean ==
    \A c \in Conns : pool[c] = "free" => srv[c].state = "idle" \/ srv[c].left
=============================================================================
