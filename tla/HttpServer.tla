---------------------------- MODULE HttpServer ----------------------------
(***************************************************************************)
(* The HTTP server (components/http/http_server: server.hpp, server.cpp,   *)
(* controller.hpp, controller.cpp): its configuration, listen(), run() and *)
(* stop(), the accept loop and one session per connection, on the threads  *)
(* that run the io_context.                                                *)
(*                                                                         *)
(* A coroutine runs on a thread from one suspension to the next.  Such a   *)
(* segment is one action, except that the call of a handler, which is user *)
(* code, has a beginning and an end, so that stop() and the return of      *)
(* run() can fall into it.  After ioc_.stop() a thread finishes the        *)
(* segment it is in and starts no other.                                   *)
(*                                                                         *)
(* A callback or a handler may throw: "std" is an exception derived from   *)
(* std::exception, "other" is any other.  A detached coroutine that ends   *)
(* with an exception ends silently.                                        *)
(***************************************************************************)
EXTENDS RouteRegistry, RequestContext, Integers

CONSTANTS
    thread_count,   \* the threads of run(), the caller's among them
    Conns,          \* the connections of the clients
    Requests,       \* the requests a client sends
    Controllers,
    RoutesOf,       \* RoutesOf[c]: the routes configure_routes() of c adds
    Registrations,  \* the registrations of callbacks considered
    MaxAdds,        \* bound on the calls of add_controller
    MaxRequests,    \* bound on the requests of one connection
    MaxAwaits,      \* bound on the suspensions of one handler
    MaxStarts       \* bound on the calls of listen and on those of run

ASSUME ThreadAssumption == thread_count \in Nat \ {0}

\* bind_sync_method and bind_async_method bind a handler to the controller
\* that registers it.
ASSUME RoutesAssumption ==
    \A c \in Controllers :
        /\ RoutesOf[c] \in Seq(Range(RoutesOf[c]))
        /\ \A x \in Range(RoutesOf[c]) :
              /\ x.handler.controller = c
              /\ x.path \in Seq([names : Seq(STRING), text : STRING])

ASSUME RequestsAssumption ==
    \A r \in Requests :
        /\ r.path \in Seq(STRING)
        /\ r.fields \in Seq(Range(r.fields))
        /\ r.query \in Seq(Range(r.query))
        /\ r.body.form \in Seq(Range(r.body.form))

\* The groups of a std::smatch are texts.
ASSUME CapturesAssumption ==
    \A c \in Controllers, r \in Requests : \A x \in Range(RoutesOf[c]) :
        \A segment \in Range(x.path), text \in Range(r.path) :
            Captures(segment.text, text) \in Seq(STRING)

VARIABLES
    registry,      \* Server::registry_
    own,           \* own[c]: HttpController::registry_
    controllers,   \* Server::controllers_
    initialized,   \* the controllers whose initialize() has returned
    ended,         \* the controllers whose shutdown() has been called
    callbacks,     \* callbacks[k]: how many callbacks of kind k are registered
    running,       \* running_
    stopped,       \* the io_context is stopped; nothing restarts it
    halt,          \* a call of stop() is between its two statements
    main,          \* where the thread is that configures the server and calls run()
    listens,       \* calls of listen so far
    runs,          \* calls of run so far
    signals,       \* the signal set of run() waits
    accept,        \* the accept loop
    idle,          \* the threads inside ioc_.run() that run no handler
    sess,          \* sess[n]: the session of connection n
    jobs,          \* jobs[k]: asynchronous callbacks spawned and not yet run
    seen,          \* history: what the session of n has done so far
    routes         \* history: the calls of add_route behind registry_ and own

vars == <<registry, own, controllers, initialized, ended, callbacks, running,
          stopped, halt, main, listens, runs, signals, accept, idle, sess, jobs,
          seen, routes>>

configVars == <<registry, own, controllers, initialized, callbacks, routes>>
lifeVars   == <<running, stopped, halt, main, listens, runs, signals, ended>>

SyncKinds  == {"start", "stop", "request", "response", "error"}
AsyncKinds == {"start_async", "stop_async", "request_async", "response_async",
               "error_async"}
Kinds == SyncKinds \cup AsyncKinds \cup {"middleware"}

Async(k) == CASE k = "start" -> "start_async" [] k = "stop" -> "stop_async"
              [] k = "request" -> "request_async"
              [] k = "response" -> "response_async" [] k = "error" -> "error_async"

\* on_server_start ... on_error_async and use_middleware append a callback.
\* They commute with everything else that happens before listen(), so the
\* behaviours start with their result.
OnCallback(registered, k) == [registered EXCEPT ![k] = @ + 1]

NoCallbacks == [k \in Kinds |-> 0]

ASSUME RegistrationsAssumption == Registrations \subseteq [Kinds -> Nat]

NoSession == [st |-> "none"]
NothingSeen == [read |-> 0, request |-> 0, response |-> 0, error |-> 0, written |-> 0]

Init ==
    /\ registry = EmptyRegistry
    /\ own = [c \in Controllers |-> EmptyRegistry]
    /\ controllers = <<>>
    /\ initialized = {}
    /\ ended = {}
    /\ callbacks \in Registrations
    /\ running = FALSE
    /\ stopped = FALSE
    /\ halt = FALSE
    /\ main = "config"
    /\ listens = 0
    /\ runs = 0
    /\ signals = FALSE
    /\ accept = "none"
    /\ idle = 0
    /\ sess = [n \in Conns |-> NoSession]
    /\ jobs = [k \in AsyncKinds |-> 0]
    /\ seen = [n \in Conns |-> NothingSeen]
    /\ routes = [merged |-> <<>>, own |-> [c \in Controllers |-> <<>>]]

----------------------------------------------------------------------------
(* Configuration, on MainThread before listen() *)

Registering == main = "config" /\ listens = 0 /\ runs = 0

\* The calls Get(...), Post(...), Put(...), Delete(...) of configure_routes.
AddRoutes(reg, rs) ==
    LET upTo[n \in 0 .. Len(rs)] ==
            IF n = 0 THEN reg
            ELSE add_route(upTo[n - 1], rs[n].method, rs[n].path, rs[n].handler)
    IN  upTo[Len(rs)]

\* add_controller pushes the controller, then configure_routes() (which may
\* throw after any of its routes) and initialize() run, and then the routes
\* move to the server.  A controller that threw may be added again.
AddController(c) ==
    /\ Registering
    /\ Len(controllers) < MaxAdds
    /\ controllers' = Append(controllers, c)
    /\ \E throws \in {"no", "configure_routes", "initialize"}, done \in 0..Len(RoutesOf[c]) :
          LET added == SubSeq(RoutesOf[c], 1, done)
              reg   == AddRoutes(own[c], added)
              mine  == routes.own[c] \o added
          IN  /\ throws # "configure_routes" => done = Len(RoutesOf[c])
              /\ IF throws = "no"
                 THEN /\ registry' = merge(registry, reg)
                      /\ own' = [own EXCEPT ![c] = EmptyRegistry]
                      /\ initialized' = initialized \cup {c}
                      /\ routes' = [merged |-> routes.merged \o mine,
                                    own |-> [routes.own EXCEPT ![c] = <<>>]]
                 ELSE /\ own' = [own EXCEPT ![c] = reg]
                      /\ routes' = [routes EXCEPT !.own[c] = mine]
                      /\ UNCHANGED <<registry, initialized>>
    /\ UNCHANGED callbacks
    /\ UNCHANGED lifeVars
    /\ UNCHANGED <<accept, idle, sess, jobs, seen>>

----------------------------------------------------------------------------
(* Callbacks *)

\* How the loop over the synchronous callbacks of kind k can go: errs of them
\* throw a std::exception, which goes to the error callbacks; any other
\* exception leaves the loop, after "called" calls.
TriggerOutcomes(k) ==
    {[called |-> callbacks[k], errs |-> e, escaped |-> FALSE] : e \in 0..callbacks[k]}
        \cup {o \in [called : 1..callbacks[k], errs : 0..callbacks[k], escaped : {TRUE}] :
                  o.errs < o.called}

\* trigger_error_callbacks swallows what its synchronous callbacks throw and
\* spawns the asynchronous ones.
ErrorJobs(js, times) ==
    [js EXCEPT !["error_async"] = @ + times * callbacks["error_async"]]

\* The spawned coroutines after a trigger that went like o.
TriggerJobs(js, k, o) ==
    LET after == ErrorJobs(js, o.errs)
    IN  IF o.escaped THEN after
        ELSE [after EXCEPT ![Async(k)] = @ + callbacks[Async(k)]]

\* A thread can take up a coroutine that is ready.
Free == ~stopped /\ idle > 0

\* A thread runs a spawned callback.  An exception derived from std::exception
\* goes to the error callbacks, except for one of an error callback.
RunJob(k) ==
    /\ Free
    /\ jobs[k] > 0
    /\ \E threw \in {0, IF k = "error_async" THEN 0 ELSE 1} :
          jobs' = ErrorJobs([jobs EXCEPT ![k] = @ - 1], threw)
    /\ UNCHANGED configVars
    /\ UNCHANGED lifeVars
    /\ UNCHANGED <<accept, idle, sess, seen>>

----------------------------------------------------------------------------
(* Lifecycle *)

AtApp == main \in {"config", "returned"}

\* The start callbacks run on the caller; one that throws no std::exception
\* leaves listen() with running_ set and no accept loop.  A second listen() on
\* another port is not modelled; one after a stop is.
listen ==
    /\ AtApp
    /\ listens < MaxStarts
    /\ accept = "none" \/ stopped
    /\ listens' = listens + 1
    /\ running' = TRUE
    /\ \E o \in TriggerOutcomes("start") :
          /\ jobs' = TriggerJobs(jobs, "start", o)
          /\ accept' = IF o.escaped THEN accept ELSE "queued"
    /\ UNCHANGED configVars
    /\ UNCHANGED <<stopped, halt, main, runs, signals, ended, idle, sess, seen>>

\* run() arms the signals and sends every thread into ioc_.run().
run ==
    /\ AtApp
    /\ runs < MaxStarts
    /\ runs' = runs + 1
    /\ main' = "run"
    /\ signals' = TRUE
    /\ idle' = thread_count
    /\ UNCHANGED configVars
    /\ UNCHANGED <<running, stopped, halt, listens, ended, accept, sess, jobs, seen>>

\* ioc_.run() returns in a thread: the wait for a signal is work until it
\* fires, and then stop() is called, so only a stop ends it.
ThreadReturns ==
    /\ idle > 0
    /\ stopped
    /\ idle' = idle - 1
    /\ UNCHANGED configVars
    /\ UNCHANGED lifeVars
    /\ UNCHANGED <<accept, sess, jobs, seen>>

(* Fault: run() does not wait for the other threads. *)
StopCallbacksUnjoined ==
    /\ main = "run"
    /\ idle = 0
    /\ main' = "shutdown"
    /\ UNCHANGED configVars
    /\ UNCHANGED <<running, stopped, halt, listens, runs, signals, ended, accept, idle, sess, jobs, seen>>

\* The caller of run() has joined the other threads.
JoinAndStopCallbacks ==
    /\ main = "run"
    /\ idle = 0
    /\ \A n \in Conns : sess[n].st # "handling"
    /\ \E o \in TriggerOutcomes("stop") :
          /\ jobs' = TriggerJobs(jobs, "stop", o)
          /\ main' = IF o.escaped THEN "returned" ELSE "shutdown"
          /\ signals' = IF o.escaped THEN FALSE ELSE signals
    /\ UNCHANGED configVars
    /\ UNCHANGED <<running, stopped, halt, listens, runs, ended, accept, idle, sess, seen>>

\* shutdown() of the controllers in order; one that throws ends run().
ShutdownControllers ==
    /\ main = "shutdown"
    /\ main' = "returned"
    /\ signals' = FALSE
    /\ \E called \in 0..Len(controllers) :
          /\ called = 0 => controllers = <<>>
          /\ ended' = ended \cup {controllers[i] : i \in 1..called}
    /\ UNCHANGED configVars
    /\ UNCHANGED <<running, stopped, halt, listens, runs, accept, idle, sess, jobs, seen>>

\* The two statements of stop(), which any thread may call.
StopBegins ==
    /\ main # "destroyed"
    /\ ~halt
    /\ halt' = TRUE
    /\ running' = FALSE
    /\ UNCHANGED configVars
    /\ UNCHANGED <<stopped, main, listens, runs, signals, ended, accept, idle, sess, jobs, seen>>

(* Fault: the io_context is left running. *)
StopFlagOnly ==
    /\ halt
    /\ halt' = FALSE
    /\ UNCHANGED configVars
    /\ UNCHANGED <<running, stopped, main, listens, runs, signals, ended, accept, idle, sess, jobs, seen>>

stop ==
    /\ halt
    /\ halt' = FALSE
    /\ stopped' = TRUE
    /\ UNCHANGED configVars
    /\ UNCHANGED <<running, main, listens, runs, signals, ended, accept, idle, sess, jobs, seen>>

\* SIGINT or SIGTERM: a thread of ioc_ runs the handler, which calls stop().
Signal ==
    /\ signals
    /\ Free
    /\ ~halt
    /\ signals' = FALSE
    /\ halt' = TRUE
    /\ running' = FALSE
    /\ UNCHANGED configVars
    /\ UNCHANGED <<stopped, main, listens, runs, ended, accept, idle, sess, jobs, seen>>

\* ~Server: stop() when running_ is still set.  The coroutines that are
\* suspended in ioc_ are destroyed with it.
Destroy ==
    /\ AtApp
    /\ ~halt
    /\ main' = "destroyed"
    /\ running' = FALSE
    /\ stopped' = (stopped \/ running)
    /\ UNCHANGED configVars
    /\ UNCHANGED <<halt, listens, runs, signals, ended, accept, idle, sess, jobs, seen>>

----------------------------------------------------------------------------
(* The accept loop *)

\* Every iteration begins with the test of running_.
LoopHead == IF running THEN "accepting" ELSE "dead"

\* The coroutine starts; the constructor of the acceptor throws when the port
\* is taken, and the loop is over before it began.
AcceptStarts ==
    /\ Free
    /\ accept = "queued"
    /\ accept' \in {LoopHead, "dead"}
    /\ UNCHANGED configVars
    /\ UNCHANGED lifeVars
    /\ UNCHANGED <<idle, sess, jobs, seen>>

Accept(n) ==
    /\ Free
    /\ accept = "accepting"
    /\ sess[n].st = "none"
    /\ sess' = [sess EXCEPT ![n] = [st |-> "reading"]]
    /\ accept' = LoopHead
    /\ UNCHANGED configVars
    /\ UNCHANGED lifeVars
    /\ UNCHANGED <<idle, jobs, seen>>

\* operation_aborted breaks the loop, any other error continues it.
AcceptFails ==
    /\ Free
    /\ accept = "accepting"
    /\ accept' \in {LoopHead, "dead"}
    /\ UNCHANGED configVars
    /\ UNCHANGED lifeVars
    /\ UNCHANGED <<idle, sess, jobs, seen>>

----------------------------------------------------------------------------
(* Sessions *)

Closed(how) == [st |-> "closed", how |-> how]

SessionStep == UNCHANGED configVars /\ UNCHANGED lifeVars /\ UNCHANGED accept

Becomes(n, s) == sess' = [sess EXCEPT ![n] = s]

\* trigger_response_callbacks, then async_write is started; an exception that
\* leaves the callbacks leaves session() too.
Respond(n, r, res, js, done) ==
    \E o \in TriggerOutcomes("response") :
        /\ jobs' = TriggerJobs(js, "response", o)
        /\ seen' = [seen EXCEPT ![n] = [done EXCEPT !.response = @ + o.called]]
        /\ Becomes(n, IF o.escaped THEN Closed("dropped") ELSE [st |-> "writing", req |-> r, res |-> res])

(* Fault: the answer 404 leaves without the response callbacks. *)
HandleRequestSilent404(n, r, js, done) ==
    LET f == find_handler(registry, r.method, r.path)
    IN  /\ jobs' = js
        /\ seen' = [seen EXCEPT ![n] = done]
        /\ IF f.found
           THEN /\ Becomes(n, [st |-> "handling", handler |-> f.handler, awaits |-> 0,
                               ctx |-> Context(r, f.params)])
                /\ idle' = idle - 1
           ELSE /\ Becomes(n, [st |-> "writing", req |-> r, res |-> not_found(r.version)])
                /\ UNCHANGED idle

\* handle_request, once the callbacks for the request are done, up to the call
\* of the handler or to the answer 404.  The branches for an empty
\* and a non-empty middlewares_ do the same.
HandleRequest(n, r, js, done) ==
    LET f == find_handler(registry, r.method, r.path)
    IN  IF f.found
        THEN /\ Becomes(n, [st |-> "handling", handler |-> f.handler, awaits |-> 0,
                            ctx |-> Context(r, f.params)])
             /\ idle' = idle - 1
             /\ jobs' = js
             /\ seen' = [seen EXCEPT ![n] = done]
        ELSE /\ Respond(n, r, not_found(r.version), js, done)
             /\ UNCHANGED idle

\* async_read delivers a request.
ReadRequest(n, r) ==
    /\ Free
    /\ sess[n].st = "reading"
    /\ seen[n].read < MaxRequests
    /\ \E o \in TriggerOutcomes("request") :
          LET js   == TriggerJobs(jobs, "request", o)
              done == [seen[n] EXCEPT !.read = @ + 1, !.request = @ + o.called]
          IN  IF o.escaped
              THEN /\ Becomes(n, Closed("dropped"))
                   /\ jobs' = js
                   /\ seen' = [seen EXCEPT ![n] = done]
                   /\ UNCHANGED idle
              ELSE HandleRequest(n, r, js, done)
    /\ SessionStep

\* The client has closed (end_of_stream), or the read failed and session()
\* returns without a shutdown of the socket.
ReadEnds(n) ==
    /\ Free
    /\ sess[n].st = "reading"
    /\ \E how \in {"end", "read_failed"} : Becomes(n, Closed(how))
    /\ SessionStep
    /\ UNCHANGED <<idle, jobs, seen>>

\* The handler reads its body through the context.
HandlerReads(n) ==
    LET j == json(sess[n].ctx)
    IN  /\ sess[n].st = "handling"
        /\ ~j.threw
        /\ Becomes(n, [sess[n] EXCEPT !.ctx = multipart_data(form_data(j.ctx).ctx).ctx])
        /\ SessionStep
        /\ UNCHANGED <<idle, jobs, seen>>

\* A handler that is a coroutine awaits something and is resumed.
HandlerSuspends(n) ==
    /\ sess[n].st = "handling"
    /\ sess[n].awaits < MaxAwaits
    /\ Becomes(n, [sess[n] EXCEPT !.st = "suspended", !.awaits = @ + 1])
    /\ idle' = idle + 1
    /\ SessionStep
    /\ UNCHANGED <<jobs, seen>>

HandlerResumes(n) ==
    /\ Free
    /\ sess[n].st = "suspended"
    /\ Becomes(n, [sess[n] EXCEPT !.st = "handling"])
    /\ idle' = idle - 1
    /\ SessionStep
    /\ UNCHANGED <<jobs, seen>>

HandlerReturns(n) ==
    /\ sess[n].st = "handling"
    /\ LET r == sess[n].ctx.request
       IN  \E res \in FactoryResponses(r.version) : Respond(n, r, res, jobs, seen[n])
    /\ idle' = idle + 1
    /\ SessionStep

\* session() catches a std::exception, calls the error callbacks and shuts the
\* connection down; any other exception ends the coroutine.
SessionThrows(n, kind) ==
    IF kind = "std"
    THEN /\ Becomes(n, Closed("error"))
         /\ jobs' = ErrorJobs(jobs, 1)
         /\ seen' = [seen EXCEPT ![n].error = @ + 1]
    ELSE /\ Becomes(n, Closed("dropped"))
         /\ UNCHANGED <<jobs, seen>>

(* Fault: the session starts the handler again. *)
HandlerThrowsRetried(n) ==
    /\ sess[n].st = "handling"
    /\ Becomes(n, [sess[n] EXCEPT !.st = "suspended"])
    /\ idle' = idle + 1
    /\ SessionStep
    /\ UNCHANGED <<jobs, seen>>

HandlerThrows(n) ==
    /\ sess[n].st = "handling"
    /\ \E kind \in {"std", "other"} : SessionThrows(n, kind)
    /\ idle' = idle + 1
    /\ SessionStep

\* async_write is done: the loop goes on as the response says, whatever the
\* request asked for.
WriteDone(n) ==
    /\ Free
    /\ sess[n].st = "writing"
    /\ Becomes(n, IF keep_alive(sess[n].res) THEN [st |-> "reading"] ELSE Closed("end"))
    /\ seen' = [seen EXCEPT ![n].written = @ + 1]
    /\ SessionStep
    /\ UNCHANGED <<idle, jobs>>

\* async_write throws a system_error.
WriteFails(n) ==
    /\ Free
    /\ sess[n].st = "writing"
    /\ SessionThrows(n, "std")
    /\ SessionStep
    /\ UNCHANGED idle

HandlerEnds(n) == HandlerReturns(n) \/ HandlerThrows(n)

Session(n) ==
    \/ \E r \in Requests : ReadRequest(n, r)
    \/ ReadEnds(n)
    \/ HandlerReads(n)
    \/ HandlerSuspends(n)
    \/ HandlerResumes(n)
    \/ HandlerEnds(n)
    \/ WriteDone(n)
    \/ WriteFails(n)

Next ==
    \/ \E c \in Controllers : AddController(c)
    \/ \E k \in AsyncKinds : RunJob(k)
    \/ listen \/ run \/ JoinAndStopCallbacks \/ ShutdownControllers
    \/ StopBegins \/ stop \/ Signal \/ Destroy
    \/ ThreadReturns
    \/ AcceptStarts \/ AcceptFails
    \/ \E n \in Conns : Accept(n) \/ Session(n)
    \/ main = "destroyed" /\ UNCHANGED vars

\* The operating system runs every thread, and the io_context hands ready
\* coroutines to its threads in turn: a coroutine that is ready again and again
\* while some thread is free is run.  Handlers return, and what they await
\* completes.  Nothing is assumed of who calls stop() or of the clients: they
\* may never send a request, and never read an answer, so that an async_write,
\* which has no timeout, need not complete.
Fairness ==
    /\ WF_vars(stop)
    /\ WF_vars(JoinAndStopCallbacks)
    /\ WF_vars(ShutdownControllers)
    /\ WF_vars(ThreadReturns)
    /\ \A n \in Conns :
          /\ WF_vars(HandlerEnds(n))
          /\ SF_vars(HandlerResumes(n))

Spec == Init /\ [][Next]_vars /\ Fairness

----------------------------------------------------------------------------
(* Properties *)

InHandler(n) == sess[n].st \in {"handling", "suspended"}

\* The route a request is for, told from the calls of add_route alone.
RoutesFor(r) ==
    {i \in DOMAIN routes.merged : routes.merged[i].method = r.method
                                  /\ regex_match(r.path, routes.merged[i].path)}

ExactFor(r) ==
    {i \in DOMAIN routes.merged : /\ routes.merged[i].method = r.method
                                  /\ ~is_parametric_path(routes.merged[i].path)
                                  /\ TextsOf(routes.merged[i].path) = r.path}

ParametricFor(r) ==
    {i \in RoutesFor(r) : is_parametric_path(routes.merged[i].path)}

RouteFor(r) ==
    routes.merged[IF ExactFor(r) # {} THEN Max(ExactFor(r)) ELSE Min(ParametricFor(r))]

\* The only groups in the expressions of the segments are those of their names.
GroupsAreNames(segments, texts) ==
    \A i \in DOMAIN segments :
        Len(Captures(segments[i].text, texts[i])) = Len(segments[i].names)

\* However the controllers were added, and whichever of them failed and were
\* added again, a request reaches the handler that the last add_route for
\* exactly its path names, or else the first parametric route that matches it,
\* with every name of the route bound to the text that stands in its place;
\* only a request that no route matches is answered 404 by the server
\* (RouteRegistry::merge, find_handler, Server::handle_request).  The names of
\* a route whose literal text has a group of its own are excepted: the groups
\* are counted through, so the code gives a name the text of another group.
RoutedRight ==
    \A n \in Conns :
        /\ InHandler(n) =>
              LET r     == sess[n].ctx.request
                  route == RouteFor(r)
              IN  /\ ExactFor(r) \cup ParametricFor(r) # {}
                  /\ sess[n].handler = route.handler
                  /\ GroupsAreNames(route.path, r.path) =>
                        \A name \in Range(NamesOf(route.path)) :
                            \E i \in DOMAIN r.path : \E k \in DOMAIN route.path[i].names :
                                /\ route.path[i].names[k] = name
                                /\ path(sess[n].ctx, "string", name) =
                                      Some(Captures(route.path[i].text, r.path[i])[k])
        /\ sess[n].st = "writing" /\ sess[n].res.factory = "not_found" =>
              ExactFor(sess[n].req) \cup ParametricFor(sess[n].req) = {}

\* The last entry of a sequence that satisfies Test, as an optional.
LastWith(entries, Test(_)) ==
    LET hits == {i \in DOMAIN entries : Test(entries[i])}
    IN  IF hits = {} THEN nullopt ELSE Some(entries[Max(hits)].val)

\* What a handler reads is what its own client sent: a header whatever the
\* case of its name and the last line of that name, the last value of a query
\* key, and the body as its content type says; reading the body again, before
\* or after a suspension, gives the same (RequestContext).
ContextFaithful ==
    \A n \in Conns : InHandler(n) =>
        LET ctx == sess[n].ctx
            r   == ctx.request
            typed(kind) == LET h == LastWith(r.fields, LAMBDA f : tolower(f.name) = "content-type")
                           IN  h.has /\ kind \in h.val
        IN  /\ \A i \in DOMAIN r.fields :
                  header(ctx, r.fields[i].name) =
                     LastWith(r.fields, LAMBDA f : tolower(f.name) = tolower(r.fields[i].name))
            /\ \A i \in DOMAIN r.query :
                  query(ctx, "string", r.query[i].key) =
                     LastWith(r.query, LAMBDA p : p.eq /\ p.key = r.query[i].key)
            /\ json(ctx).result =
                  IF typed("application/json") /\ r.body.json \notin {"malformed", "throws"}
                  THEN Some(r.body.json) ELSE nullopt
            /\ LET form == form_data(ctx).result
               IN  /\ form.has = typed("application/x-www-form-urlencoded")
                   /\ form.has => \A i \in DOMAIN r.body.form :
                         Lookup(form.val, r.body.form[i].key) =
                            LastWith(r.body.form, LAMBDA p : p.eq /\ p.key = r.body.form[i].key)

\* Every request a session has read is accounted for: the request callbacks ran
\* for it, and before the next one is read it was answered and the response
\* callbacks ran for the answer, once.  A connection that ends while a request is
\* unanswered has lost that one only, and ended with exactly one error report.
\* The exception is one that is no std::exception, from a handler or a callback:
\* session() does not catch it, so the connection is dropped with its last
\* request unanswered and no report at all (Server::session, handle_request).
RequestsAccounted ==
    \A n \in Conns :
        LET s        == seen[n]
            answered == /\ s.written = s.read
                        /\ s.request = s.read * callbacks["request"]
                        /\ s.response = s.read * callbacks["response"]
                        /\ s.error = 0
        IN  /\ sess[n].st = "reading" => answered
            /\ InHandler(n) => /\ s.written = s.read - 1
                               /\ s.request = s.read * callbacks["request"]
                               /\ s.response = s.written * callbacks["response"]
            /\ sess[n].st = "writing" => /\ s.written = s.read - 1
                                         /\ s.response = s.read * callbacks["response"]
            /\ sess[n].st = "closed" =>
                  CASE sess[n].how \in {"end", "read_failed"} -> answered
                    [] sess[n].how = "error" -> s.written = s.read - 1 /\ s.error = 1
                    [] sess[n].how = "dropped" -> s.written = s.read - 1 /\ s.error = 0

\* No thread is inside a handler of a controller that is not initialized or
\* whose shutdown() has been called, although stop() comes from any thread:
\* add_controller moves the routes last, and run() joins its threads first.
ControllersAlive ==
    \A n \in Conns : sess[n].st = "handling" =>
        sess[n].handler.controller \in initialized \ ended

\* A stop() during run() makes run() return, whatever the sessions were doing.
StopReturns == halt /\ main = "run" ~> main \notin {"run", "shutdown"}

\* A request that has reached its handler gets its answer, however often the
\* handler suspends and whatever it throws: session() hands a response to
\* async_write or ends the connection, unless the server is stopped.  Whether the
\* answer is then read is up to the client.
RequestServed ==
    \A n \in Conns : InHandler(n) ~> sess[n].st \in {"writing", "closed"} \/ stopped

=============================================================================
