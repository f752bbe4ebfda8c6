----------------------------- MODULE Executor -----------------------------
(***************************************************************************)
(* The synchronous and the asynchronous executor of the PostgreSQL         *)
(* provider (postgresql/capabilities/executors) on one pooled connection,  *)
(* and a client that runs queries through them, one owner of the           *)
(* connection after the other, and chains their outcomes.                  *)
(*                                                                         *)
(* libpq and the server are external, modelled as far as the executors     *)
(* see them: the server answers a query with one result per statement,     *)
(* stops at the first that fails, and ends with "ready"; a result may      *)
(* arrive in two parts; the connection may break at any time and is found  *)
(* broken when it is read or written.                                      *)
(***************************************************************************)
EXTENDS Integers, Outcome, PgErrors

CONSTANTS
    SyncObjects,   \* variables of the client of type SyncExecutor
    AsyncObjects,  \* and of type AsyncExecutor
    Queries,       \* Queries[q]: [stmts, args, bound, provider]
    Sqlstates,     \* the errors a statement may raise
    MaxExecutes,   \* bound on the calls of execute
    MaxBlocks,     \* bound on how often the socket takes or brings only a part
    MaxCombines,   \* bound on the steps of the client's chain without a query
    MaxMoves,      \* bound on moves of executors
    MaxFaults,     \* bound on broken and on reset connections
    MaxEvents      \* bound on all of these together

\* A variable has one type, statements are words here, and no error has a
\* SQLSTATE of class 00, "successful completion".
ASSUME ObjectsAssumption == SyncObjects \cap AsyncObjects = {}
ASSUME QueriesAssumption == \A q \in DOMAIN Queries : Queries[q].stmts \in Seq(STRING)
ASSUME SqlstatesAssumption == \A s \in Sqlstates : s[1] # "00"

VARIABLES
    holder,        \* ConnectionHolder: its status and cleanup_sql_
    conn,          \* PGconn: what libpq knows of the connection
    server,        \* the server process at the other end, and the network
    obj,           \* obj[x]: the executor in x
    call,          \* the call of execute, or of the cleanup, in progress
    issued,        \* history: the calls of execute so far
    made,          \* history: the results the server made for them
    pipe,          \* the outcome of the client's chain of calls
    last,          \* history: what the last function run in it returned
    terminated,    \* the constructor of an executor threw
    count          \* how often the bounded steps were taken

vars == <<holder, conn, server, obj, call, issued, made, pipe, last, terminated, count>>
linkVars == <<conn, server, made>>
chainVars == <<issued, pipe, last>>
ownVars == <<holder, obj, terminated>>

Objects == SyncObjects \cup AsyncObjects

\* An executor: conn_ and holder_ are set or cleared together; cached_socket_fd_;
\* and whether socket_ watches the connection as it is now, or one that was
\* closed since.
Empty == [holds |-> FALSE, fd |-> 0, watching |-> FALSE]
NoCall == [pc |-> "none"]
Nil == [serial |-> 0]

\* A connection as PQconnectdb leaves it.
Fresh(fd) == [status |-> "OK", fd |-> fd, async |-> "idle", unsent |-> Nil, inbuf |-> <<>>]

FreshServer == [up |-> TRUE, todo |-> Nil, wire |-> <<>>]

Counted(k, max) ==
    /\ count[k] < max
    /\ count.block + count.combine + count.move + count.fault < MaxEvents
    /\ count' = [count EXCEPT ![k] = @ + 1]

Init ==
    /\ holder = [status |-> "FREE", cleanup |-> ""]
    /\ conn = Fresh(1)
    /\ server = FreshServer
    /\ obj = [x \in Objects |-> Empty]
    /\ call = NoCall
    /\ issued = <<>>
    /\ made = {}
    /\ pipe = success_void({})
    /\ last = pipe
    /\ terminated = FALSE
    /\ count = [block |-> 0, combine |-> 0, move |-> 0, fault |-> 0]

----------------------------------------------------------------------------
(* The server and the network *)

ResultMsg(r) == [k |-> "result", r |-> r]
Part  == [k |-> "part"]
Ready == [k |-> "ready"]

Result(serial, stmt, status, sqlstate) ==
    [serial |-> serial, stmt |-> stmt, status |-> status, sqlstate |-> sqlstate]

Lost == Result(0, 0, "FATAL_ERROR", NoSqlstate)
Null == Result(0, 0, "null", NoSqlstate)

\* A query on its way: statement next is to run.
Sent(serial, stmts) == [serial |-> serial, stmts |-> stmts, next |-> 1]

Succeeds(t) ==
    LET stmt == t.stmts[t.next]
    IN  Result(t.serial, t.next,
               CASE stmt = "copy" -> "COPY_IN" [] stmt = "select" -> "TUPLES_OK" [] OTHER -> "COMMAND_OK",
               NoSqlstate)

Fails(t, sqlstate) == Result(t.serial, t.next, "FATAL_ERROR", sqlstate)

\* After COPY the server waits for data from the client.
ServerRuns ==
    LET t == server.todo
    IN  /\ server.up
        /\ t # Nil
        /\ t.next <= Len(t.stmts)
        /\ \E r \in {Succeeds(t)} \cup {Fails(t, s) : s \in Sqlstates} :
              LET copy == r.status = "COPY_IN"
                  over == ~copy /\ (r.status = "FATAL_ERROR" \/ t.next = Len(t.stmts))
              IN  /\ made' = IF r.serial = 0 THEN made ELSE made \cup {r}
                  /\ server' = [server EXCEPT
                        !.todo = IF over THEN Nil
                                 ELSE [t EXCEPT !.next = IF copy THEN Len(t.stmts) + 1 ELSE @ + 1],
                        !.wire = @ \o IF over THEN <<ResultMsg(r), Ready>> ELSE <<ResultMsg(r)>>]
        /\ UNCHANGED <<conn, call, count>>
        /\ UNCHANGED chainVars
        /\ UNCHANGED ownVars

\* The first part of the next result arrives by itself.
ServerSendsPart ==
    /\ server.up
    /\ server.todo # Nil
    /\ server.todo.next <= Len(server.todo.stmts)
    /\ server.wire = <<>>
    /\ Counted("block", MaxBlocks)
    /\ server' = [server EXCEPT !.wire = <<Part>>]
    /\ UNCHANGED <<conn, made, call>>
    /\ UNCHANGED chainVars
    /\ UNCHANGED ownVars

\* What is on its way to the client may be lost in part or altogether, and
\* with it the answer to a query that was carried out.
ConnectionBreaks ==
    /\ server.up
    /\ Counted("fault", MaxFaults)
    /\ \E n \in 0 .. Len(server.wire) :
          server' = [server EXCEPT !.up = FALSE, !.todo = Nil, !.wire = SubSeq(@, 1, n)]
    /\ UNCHANGED <<conn, made, call>>
    /\ UNCHANGED chainVars
    /\ UNCHANGED ownVars

----------------------------------------------------------------------------
(* libpq *)

\* What is written to a broken connection is lost; the next read notices.
Deliver(sent) == IF server.up THEN [server EXCEPT !.todo = sent] ELSE server

\* There is no whole message in s.
AllParts(s) == \A i \in DOMAIN s : s[i] = Part

\* A call of PQgetResult that returns r.  It blocks until there is a result,
\* the end of the query or the end of the connection.  (In the middle of a
\* COPY it would return COPY_IN again, see Drain and Discard.)
PQgetResult(r) ==
    LET input == conn.inbuf \o server.wire
        held  == Len(conn.inbuf)
    IN  /\ conn.async = "busy"
        /\ conn.unsent = Nil
        /\ UNCHANGED made
        /\ \/ /\ ~server.up
              /\ AllParts(input)
              /\ r = Lost
              /\ conn' = [conn EXCEPT !.status = "BAD", !.inbuf = <<Ready>>]
              /\ server' = [server EXCEPT !.wire = <<>>]
           \/ \E n \in DOMAIN input :
                 /\ input[n] # Part
                 /\ \A m \in 1 .. n - 1 : input[m] = Part
                 /\ r = IF input[n] = Ready THEN Null ELSE input[n].r
                 /\ conn' = [conn EXCEPT !.inbuf = SubSeq(@, n + 1, held),
                                         !.async = IF r = Null THEN "idle"
                                                   ELSE IF r.status = "COPY_IN" THEN "copy" ELSE "busy"]
                 /\ server' = [server EXCEPT !.wire = SubSeq(@, IF n > held THEN n - held + 1 ELSE 1, Len(@))]

\* All PQgetResult can return now.
Results ==
    LET input == conn.inbuf \o server.wire
    IN  {Lost, Null} \cup {input[i].r : i \in {i \in DOMAIN input : input[i].k = "result"}}

----------------------------------------------------------------------------
(* Owning the connection: constructors, destructors and moves *)

Status(x) == IF obj[x].holds THEN conn.status ELSE "null"

\* libpq has closed the socket of a bad connection.
PQsocket == IF conn.status = "BAD" THEN -1 ELSE conn.fd

\* It refuses a bad connection.  Its flush has nothing to write: what a
\* connection in the blocking mode is given to send, it sends at once.
PQsetnonblocking == IF conn.status = "BAD" THEN -1 ELSE 0

\* setup_connection gives the executor the descriptor, or throws.
setup_connection == [holds |-> TRUE, fd |-> PQsocket, watching |-> TRUE]
setup_connection_throws ==
    \/ ~is_success_code(check_connection(conn.status))
    \/ PQsetnonblocking # 0
    \/ PQsocket < 0

\* BlockingSession::try_with_async, which constructs an AsyncExecutor, is
\* noexcept.  (From the functions that are not, an exception of the constructor
\* leaves a slot that is USED and that nobody returns.)
Construct(x) ==
    /\ call = NoCall
    /\ holder.status = "FREE"
    /\ ~obj[x].holds
    /\ holder' = [holder EXCEPT !.status = "USED"]
    /\ IF x \in AsyncObjects /\ setup_connection_throws
       THEN terminated' = TRUE /\ UNCHANGED obj
       ELSE obj' = [obj EXCEPT ![x] = setup_connection] /\ UNCHANGED terminated
    /\ UNCHANGED <<call, count>>
    /\ UNCHANGED linkVars
    /\ UNCHANGED chainVars

to_sql(query) == IF query = "None" THEN "" ELSE query

do_cleanup(x, query) ==
    /\ call = NoCall
    /\ obj[x].holds
    /\ holder' = [holder EXCEPT !.cleanup = to_sql(query)]
    /\ UNCHANGED <<obj, terminated, call, count>>
    /\ UNCHANGED linkVars
    /\ UNCHANGED chainVars

(* Fault: the state of the connection is not looked at first. *)
run_cleanup_sql_unchecked ==
    IF holder.cleanup = ""
    THEN holder' = [holder EXCEPT !.status = "FREE"] /\ UNCHANGED call
    ELSE /\ call' = [pc |-> "discard", kind |-> "cleanup", stmts |-> <<holder.cleanup>>, serial |-> 0,
                     result |-> Null]
         /\ UNCHANGED holder

\* ConnectionHolder::run_cleanup_sql in SlotHolder::reset, up to PQexec.  A
\* cleanup that could not be tried stays asked for.
run_cleanup_sql ==
    IF conn.status # "OK"
    THEN holder' = [holder EXCEPT !.status = "DEAD"] /\ UNCHANGED call
    ELSE IF holder.cleanup = ""
    THEN holder' = [holder EXCEPT !.status = "FREE"] /\ UNCHANGED call
    ELSE /\ call' = [pc |-> "discard", kind |-> "cleanup", stmts |-> <<holder.cleanup>>, serial |-> 0,
                     result |-> Null]
         /\ UNCHANGED holder

Destroy(x) ==
    /\ call = NoCall
    /\ obj[x].holds
    /\ obj' = [obj EXCEPT ![x] = Empty]
    /\ run_cleanup_sql
    /\ UNCHANGED <<terminated, count>>
    /\ UNCHANGED linkVars
    /\ UNCHANGED chainVars

\* Move construction of x, or assignment to an x that holds nothing.
Move(x, y) ==
    /\ call = NoCall
    /\ obj[y].holds
    /\ ~obj[x].holds
    /\ Counted("move", MaxMoves)
    /\ obj' = [obj EXCEPT ![x] = obj[y], ![y] = Empty]
    /\ UNCHANGED <<holder, terminated, call>>
    /\ UNCHANGED linkVars
    /\ UNCHANGED chainVars

\* x = std::move(y) gives up what x holds; y was moved from before.
MoveAssign(x, y) ==
    /\ call = NoCall
    /\ obj[x].holds
    /\ ~obj[y].holds
    /\ Counted("move", MaxMoves)
    /\ obj' = [obj EXCEPT ![x] = obj[y], ![y] = Empty]
    /\ run_cleanup_sql
    /\ UNCHANGED terminated
    /\ UNCHANGED linkVars
    /\ UNCHANGED chainVars

\* The janitor of the pool gives a dead slot a new connection.
replace_conn ==
    /\ call = NoCall
    /\ holder.status = "DEAD"
    /\ holder' = [holder EXCEPT !.status = "FREE"]
    /\ conn' = Fresh(1)
    /\ server' = FreshServer
    /\ UNCHANGED <<made, obj, terminated, call, count>>
    /\ UNCHANGED chainVars

\* The owner calls PQreset on native_handle(): a new connection, whose
\* descriptor may have the number of the old one.
NativeReset(x) ==
    /\ call = NoCall
    /\ obj[x].holds
    /\ Counted("fault", MaxFaults)
    /\ \E fd \in {1, 2} : conn' = Fresh(fd)
    /\ server' = FreshServer
    /\ obj' = [obj EXCEPT ![x].watching = FALSE]
    /\ UNCHANGED <<holder, made, terminated, call>>
    /\ UNCHANGED chainVars

----------------------------------------------------------------------------
(* execute, and what the client does with the outcome *)

Errors == {"ErrorContext"}

\* The chain is an Outcome<void> before the first query and after a
\* transform to void.
Then(o, errors, out) ==
    IF is_success(o) /\ o.value = Void THEN and_then_void(o, errors, out)
                                       ELSE and_then(o, errors, out)

OrElse(o, errors, out) ==
    IF is_success(o) /\ o.value = Void THEN or_else_void(o, errors, out)
                                       ELSE or_else(o, errors, out)

\* The call c returns out.
Returns(c, out) ==
    /\ call' = NoCall
    /\ issued' = [issued EXCEPT ![c.serial].out = out]
    /\ last' = out
    /\ pipe' = IF c.why = "and_then" THEN Then(pipe, Errors, out) ELSE OrElse(pipe, Errors, out)

Fail(c, e) == Returns(c, failure(Errors, e))

process_result(r) ==
    LET e == extract_error(r)
    IN  IF e = NoError THEN success(Errors, r) ELSE failure(Errors, e)

Pending == [k |-> "pending"]

\* execute(CompiledDynamicQuery); the other overloads go straight to
\* execute_impl, as a query for this provider does.
execute(x, q, why) ==
    /\ call = NoCall
    /\ ~terminated
    /\ Len(issued) < MaxExecutes
    /\ IF why = "and_then" THEN is_success(pipe) ELSE is_error(pipe)
    /\ issued' = Append(issued, [q |-> q, sync |-> x \in SyncObjects, out |-> Pending])
    /\ call' = [pc |-> "start", kind |-> "execute", x |-> x, stmts |-> Queries[q].stmts,
                serial |-> Len(issued) + 1, why |-> why, result |-> Null]
    /\ UNCHANGED <<pipe, last, count>>
    /\ UNCHANGED linkVars
    /\ UNCHANGED ownVars

WrongProvider ==
    /\ call.pc = "start"
    /\ Queries[issued[call.serial].q].provider # "PostgreSQL"
    /\ Fail(call, ErrorContext(Client("SyntaxError"), NoSqlstate))
    /\ UNCHANGED count
    /\ UNCHANGED linkVars
    /\ UNCHANGED ownVars

AtStart(objects) ==
    /\ call.pc = "start"
    /\ Queries[issued[call.serial].q].provider = "PostgreSQL"
    /\ call.x \in objects

----------------------------------------------------------------------------
(* SyncExecutor, and PQexec *)

SyncStart ==
    /\ AtStart(SyncObjects)
    /\ LET code == check_connection(Status(call.x))
       IN  IF ~is_success_code(code)
           THEN Fail(call, ErrorContext(code, NoSqlstate))
           ELSE call' = [call EXCEPT !.pc = "discard"] /\ UNCHANGED chainVars
    /\ UNCHANGED count
    /\ UNCHANGED linkVars
    /\ UNCHANGED ownVars

\* What becomes of the result of PQexec, Null if there is none.
Executed(r) ==
    IF call.kind = "cleanup"
    THEN /\ call' = NoCall
         /\ holder' = [status |-> IF r.status = "COMMAND_OK" THEN "FREE" ELSE "DEAD", cleanup |-> ""]
         /\ UNCHANGED chainVars
    ELSE /\ Returns(call, IF r = Null THEN failure(Errors, extract_connection_error(conn'.status))
                                      ELSE process_result(r))
         /\ UNCHANGED holder

\* PQexec first reads what is left of an earlier query, whose last part it
\* may have to write, and ends an unfinished COPY.
Discard ==
    /\ call.pc = "discard"
    /\ \/ /\ conn.async = "idle"
          /\ server' = Deliver(Sent(call.serial, call.stmts))
          /\ conn' = [conn EXCEPT !.async = "busy"]
          /\ call' = [call EXCEPT !.pc = "exec"]
          /\ UNCHANGED <<made, holder>>
          /\ UNCHANGED chainVars
       \/ /\ conn.async = "busy"
          /\ conn.unsent # Nil
          /\ server' = Deliver(conn.unsent)
          /\ conn' = [conn EXCEPT !.unsent = Nil]
          /\ UNCHANGED <<made, holder, call>>
          /\ UNCHANGED chainVars
       \/ /\ conn.async = "copy"
          /\ server' = IF server.up
                       THEN [server EXCEPT !.todo = Nil,
                                           !.wire = @ \o <<ResultMsg(Fails(server.todo, <<"57", "014">>)), Ready>>]
                       ELSE server
          /\ conn' = [conn EXCEPT !.async = "busy"]
          /\ UNCHANGED <<made, holder, call>>
          /\ UNCHANGED chainVars
       \/ \E r \in Results :
             /\ PQgetResult(r)
             /\ IF r = Lost THEN Executed(Null)
                ELSE UNCHANGED <<holder, call>> /\ UNCHANGED chainVars
    /\ UNCHANGED <<obj, terminated, count>>

\* The last result counts; a COPY or a lost connection ends the loop.
Exec ==
    /\ call.pc = "exec"
    /\ \E r \in Results :
          /\ PQgetResult(r)
          /\ IF r = Null THEN Executed(call.result)
             ELSE IF r = Lost \/ r.status = "COPY_IN" THEN Executed(r)
             ELSE call' = [call EXCEPT !.result = r] /\ UNCHANGED holder /\ UNCHANGED chainVars
    /\ UNCHANGED <<obj, terminated, count>>

----------------------------------------------------------------------------
(* AsyncExecutor *)

\* An executor that holds no connection has no socket_ either.
validate_state(x) ==
    IF ~is_success_code(check_connection(Status(x))) THEN extract_connection_error(Status(x))
    ELSE IF PQsocket # obj[x].fd THEN ErrorContext(Client("InvalidState"), NoSqlstate)
    ELSE NoError

AsyncSends ==
    /\ conn' = [conn EXCEPT !.async = "busy", !.unsent = Sent(call.serial, call.stmts)]
    /\ call' = [call EXCEPT !.pc = "flush"]
    /\ UNCHANGED <<server, made>>
    /\ UNCHANGED chainVars

(* Fault: the result of PQsendQuery is not looked at. *)
AsyncStartSendUnchecked ==
    /\ AtStart(AsyncObjects)
    /\ IF validate_state(call.x) # NoError
       THEN Fail(call, validate_state(call.x)) /\ UNCHANGED linkVars
       ELSE IF conn.async # "idle"
       THEN call' = [call EXCEPT !.pc = "flush"] /\ UNCHANGED chainVars /\ UNCHANGED linkVars
       ELSE AsyncSends
    /\ UNCHANGED count
    /\ UNCHANGED ownVars

\* PQsendQuery refuses while an earlier query is not read to its end.
AsyncStart ==
    /\ AtStart(AsyncObjects)
    /\ IF validate_state(call.x) # NoError
       THEN Fail(call, validate_state(call.x)) /\ UNCHANGED linkVars
       ELSE IF conn.async # "idle"
       THEN Fail(call, extract_connection_error(conn.status)) /\ UNCHANGED linkVars
       ELSE AsyncSends
    /\ UNCHANGED count
    /\ UNCHANGED ownVars

\* PQflush in async_flush: all is written, the socket takes no more, or it
\* is broken.
async_flush ==
    /\ call.pc = "flush"
    /\ \/ /\ server' = IF conn.unsent = Nil THEN server ELSE Deliver(conn.unsent)
          /\ conn' = [conn EXCEPT !.unsent = Nil]
          /\ call' = [call EXCEPT !.pc = "read"]
          /\ UNCHANGED count
          /\ UNCHANGED chainVars
       \/ /\ Counted("block", MaxBlocks)
          /\ call' = [call EXCEPT !.pc = "write"]
          /\ UNCHANGED <<conn, server>>
          /\ UNCHANGED chainVars
       \/ /\ ~server.up
          /\ conn' = [conn EXCEPT !.status = "BAD"]
          /\ Fail(call, extract_connection_error("BAD"))
          /\ UNCHANGED <<server, count>>
    /\ UNCHANGED made
    /\ UNCHANGED ownVars

WriteReady ==
    /\ call.pc = "write"
    /\ obj[call.x].watching
    /\ call' = [call EXCEPT !.pc = "flush"]
    /\ UNCHANGED count
    /\ UNCHANGED linkVars
    /\ UNCHANGED chainVars
    /\ UNCHANGED ownVars

\* The wait is cancelled or fails.  The query is left where it is.
WaitFails ==
    /\ call.pc \in {"write", "read"}
    /\ Fail(call, ErrorContext(Server("RuntimeError"), NoSqlstate))
    /\ UNCHANGED count
    /\ UNCHANGED linkVars
    /\ UNCHANGED ownVars

\* PQisBusy: is there more to wait for?
NextAfterRead(inbuf) == IF AllParts(inbuf) THEN "read" ELSE "collect"

(* Fault: what PQconsumeInput fails with is reported as an executor without *)
(* a connection.                                                            *)
async_consume_not_connected ==
    /\ call.pc = "read"
    /\ obj[call.x].watching
    /\ IF server.wire = <<>>
       THEN /\ ~server.up
            /\ conn' = [conn EXCEPT !.status = "BAD"]
            /\ Fail(call, extract_connection_error("null"))
            /\ UNCHANGED server
       ELSE \E n \in DOMAIN server.wire :
               /\ conn' = [conn EXCEPT !.inbuf = @ \o SubSeq(server.wire, 1, n)]
               /\ server' = [server EXCEPT !.wire = SubSeq(@, n + 1, Len(@))]
               /\ call' = [call EXCEPT !.pc = NextAfterRead(conn'.inbuf)]
               /\ UNCHANGED chainVars
    /\ UNCHANGED <<made, count>>
    /\ UNCHANGED ownVars

(* Fault: a connection closed by the other side is read again. *)
async_consume_ignores_end ==
    /\ call.pc = "read"
    /\ obj[call.x].watching
    /\ IF server.wire = <<>>
       THEN /\ ~server.up
            /\ UNCHANGED <<server, conn, call>>
            /\ UNCHANGED chainVars
       ELSE \E n \in DOMAIN server.wire :
               /\ conn' = [conn EXCEPT !.inbuf = @ \o SubSeq(server.wire, 1, n)]
               /\ server' = [server EXCEPT !.wire = SubSeq(@, n + 1, Len(@))]
               /\ call' = [call EXCEPT !.pc = NextAfterRead(conn'.inbuf)]
               /\ UNCHANGED chainVars
    /\ UNCHANGED <<made, count>>
    /\ UNCHANGED ownVars

\* The wait for input ends when there is some or the connection is closed.
async_consume_until_ready ==
    /\ call.pc = "read"
    /\ obj[call.x].watching
    /\ IF server.wire = <<>>
       THEN /\ ~server.up
            /\ conn' = [conn EXCEPT !.status = "BAD"]
            /\ Fail(call, extract_connection_error("BAD"))
            /\ UNCHANGED server
       ELSE \E n \in DOMAIN server.wire :
               /\ conn' = [conn EXCEPT !.inbuf = @ \o SubSeq(server.wire, 1, n)]
               /\ server' = [server EXCEPT !.wire = SubSeq(@, n + 1, Len(@))]
               /\ call' = [call EXCEPT !.pc = NextAfterRead(conn'.inbuf)]
               /\ UNCHANGED chainVars
    /\ UNCHANGED <<made, count>>
    /\ UNCHANGED ownVars

\* collect_single_result: the first result, which is there ...
Collect ==
    /\ call.pc = "collect"
    /\ \E r \in Results :
          /\ PQgetResult(r)
          /\ IF r = Null
             THEN Fail(call, ErrorContext(Client("InvalidArgument"), NoSqlstate))
             ELSE call' = [call EXCEPT !.pc = "drain", !.result = r] /\ UNCHANGED chainVars
    /\ UNCHANGED count
    /\ UNCHANGED ownVars

\* ... and then all others, which are dropped, errors too.  The calls block;
\* in a COPY they return COPY_IN each time.
Drain ==
    /\ call.pc = "drain"
    /\ \/ conn.async = "copy" /\ UNCHANGED linkVars /\ UNCHANGED chainVars /\ UNCHANGED call
       \/ \E r \in Results :
             /\ PQgetResult(r)
             /\ IF r = Null THEN Returns(call, process_result(call.result))
                            ELSE UNCHANGED call /\ UNCHANGED chainVars
    /\ UNCHANGED count
    /\ UNCHANGED ownVars

----------------------------------------------------------------------------
(* Other steps of the client's chain *)

Combine(o, returned) ==
    /\ call = NoCall
    /\ Counted("combine", MaxCombines)
    /\ pipe' = o
    /\ last' = returned
    /\ UNCHANGED <<issued, call>>
    /\ UNCHANGED linkVars
    /\ UNCHANGED ownVars

\* Functions that fail themselves, or make a value of a value.
Validate ==
    /\ is_success(pipe)
    /\ \E out \in {failure({"UserError"}, [type |-> "UserError"]), success({"UserError"}, [k |-> "checked"])} :
          Combine(Then(pipe, {"UserError"}, out), out)

Transform ==
    /\ is_success(pipe)
    /\ \E v \in {Void, [k |-> "rows"]} :
          Combine(IF pipe.value = Void THEN transform_void(pipe, v) ELSE transform(pipe, v),
                  success(pipe.errors, v))

\* A step whose function must not run.
NotRun == success(Errors, [k |-> "not run"])

Skip ==
    \/ is_error(pipe) /\ Combine(Then(pipe, Errors, NotRun), last)
    \/ is_error(pipe) /\ Combine(transform(pipe, NotRun.value), last)
    \/ is_success(pipe) /\ Combine(OrElse(pipe, Errors, NotRun), last)

----------------------------------------------------------------------------

ExecutorStep ==
    \/ WrongProvider \/ SyncStart \/ Discard \/ Exec
    \/ AsyncStart \/ async_flush \/ WriteReady \/ async_consume_until_ready \/ Collect \/ Drain

Next ==
    \/ ServerRuns \/ ServerSendsPart \/ ConnectionBreaks
    \/ \E x \in Objects :
          \/ Construct(x) \/ Destroy(x) \/ NativeReset(x)
          \/ \E query \in {"None", "DiscardAll"} : do_cleanup(x, query)
          \/ \E q \in DOMAIN Queries, why \in {"and_then", "or_else"} : execute(x, q, why)
    \/ \E xs \in {SyncObjects, AsyncObjects} : \E x, y \in xs : Move(x, y) \/ MoveAssign(x, y)
    \/ replace_conn
    \/ ExecutorStep \/ WaitFails
    \/ Validate \/ Transform \/ Skip

\* The thread or coroutine in execute goes on when it can, and the server
\* works on what it is sent.
Spec == Init /\ [][Next]_vars /\ WF_vars(ExecutorStep) /\ WF_vars(ServerRuns)

----------------------------------------------------------------------------
(* Properties *)

Done == {i \in DOMAIN issued : issued[i].out # Pending}

\* No outcome is made up or belongs to another call, however calls before
\* it were cancelled, cut off or abandoned: a success is a result the server
\* made for this very call, an error with a SQLSTATE was raised by it, and
\* a success of the synchronous executor means that every statement of the
\* query succeeded.
OutcomeHonest ==
    \A i \in Done :
        LET out == issued[i].out
            own == {r \in made : r.serial = i}
        IN  IF is_success(out)
            THEN /\ out.value \in own
                 /\ is_success_status(out.value.status)
                 /\ issued[i].sync =>
                       /\ \A r \in own : is_success_status(r.status)
                       /\ out.value.stmt = Len(Queries[issued[i].q].stmts) \/ out.value.status = "COPY_IN"
            ELSE out.error.sqlstate # NoSqlstate =>
                    \E r \in own : r.status = "FATAL_ERROR" /\ r.sqlstate = out.error.sqlstate

\* An error that is_retryable() rules out for a retry is definite: the last
\* statement of the query was not, and will not be, carried out.  All errors
\* that leave it open whether the server did the work are retryable.
DefiniteErrors ==
    \A i \in Done :
        is_error(issued[i].out) /\ ~is_retryable(issued[i].out.error.code) =>
            /\ \A r \in made : r.serial = i /\ r.stmt = Len(Queries[issued[i].q].stmts) => ~is_success_status(r.status)
            /\ i \notin {server.todo.serial, conn.unsent.serial}

\* A connection that is free to be handed out is in order as far as libpq
\* knows, and nobody holds it; one that is in use has one holder, or is being
\* cleaned up; and so setup_connection never throws.
HolderReturned ==
    LET holding  == {x \in Objects : obj[x].holds}
        cleaning == call # NoCall /\ call.kind = "cleanup"
    IN  /\ holder.status = "FREE" => conn.status = "OK"
        /\ IF holder.status = "USED" /\ ~cleaning THEN \E x \in Objects : holding = {x} ELSE holding = {}
        /\ cleaning => holder.status = "USED"
        /\ ~terminated

\* execute returns: always from the synchronous executor and from cleanups,
\* and from the asynchronous one unless the query is a COPY or the owner reset
\* the connection and got a descriptor with the number of the old one.
ExecuteReturns ==
    LET mayWait == /\ call.kind = "execute"
                   /\ call.x \in AsyncObjects
                   /\ \/ \E i \in DOMAIN call.stmts : call.stmts[i] = "copy"
                      \/ obj[call.x].holds /\ ~obj[call.x].watching
    IN  (call # NoCall /\ ~mayWait) ~> (call = NoCall)
============================================================================
