------------------------- MODULE HttpServerProofs -------------------------
(***************************************************************************)
(* Proofs about the HTTP server: every request a session has read is       *)
(* accounted for, no thread is in a handler of a controller that is not    *)
(* initialized or has been shut down, a request reaches the handler that   *)
(* the order of registration decides, and a handler reads what its own     *)
(* client sent.                                                            *)
(*                                                                         *)
(* The first is about one connection at a time: how often the callbacks    *)
(* ran is a function of where its session is.  The second needs to know    *)
(* why run() is over when the controllers are shut down.  Threads leave    *)
(* ioc_.run() only after a stop; so while the server is not stopped some   *)
(* thread is idle or in a handler, and the join that waits for all of them *)
(* ends only in a stopped server, where no handler is called any more.     *)
(*                                                                         *)
(* The third has two parts.  The registry of the server is at any time     *)
(* what the calls of add_route so far make of an empty one, through the    *)
(* merges of add_controller, the ones that failed included (RoutesInv);    *)
(* and a session keeps what find_handler gave it, because no route is      *)
(* added after the first run() (CallsInv).  The fourth follows the caches  *)
(* of the context through the reads of the handler (ContextInv).           *)
(***************************************************************************)
EXTENDS HttpServer, FiniteSetTheorems, WellFoundedInduction, TLAPS

-----------------------------------------------------------------------------
(* The requests of one connection *)

Counts == [read : Nat, request : Nat, response : Nat, error : Nat, written : Nat]

(* All requests read were answered; q and p are the numbers of callbacks   *)
(* for a request and for a response.                                       *)
Answered(t, q, p) ==
    /\ t.written = t.read
    /\ t.request = t.read * q
    /\ t.response = t.read * p
    /\ t.error = 0

(* All but the last were answered. *)
Handled(t, q, p) ==
    /\ t.read = t.written + 1
    /\ t.request = t.read * q
    /\ t.response = t.written * p
    /\ t.error = 0

(* The last one is being answered. *)
Responded(t, q, p) ==
    /\ t.read = t.written + 1
    /\ t.request = t.read * q
    /\ t.response = t.read * p
    /\ t.error = 0

(* The connection ended before the last one was, with e error reports. *)
Unanswered(t, e) == t.read = t.written + 1 /\ t.error = e

(* The counts t of a session s. *)
Accounted(s, t, q, p) ==
    /\ t \in Counts
    /\ \/ s.st = "none" /\ t = NothingSeen
       \/ s.st = "reading" /\ Answered(t, q, p)
       \/ /\ s.st \in {"handling", "suspended"} /\ Handled(t, q, p)
          /\ {"st", "handler"} \subseteq DOMAIN s
       \/ s.st = "writing" /\ Responded(t, q, p)
       \/ s.st = "closed" /\ s.how \in {"end", "read_failed"} /\ Answered(t, q, p)
       \/ s.st = "closed" /\ s.how = "error" /\ Unanswered(t, 1)
       \/ s.st = "closed" /\ s.how = "dropped" /\ Unanswered(t, 0)

SessionInv ==
    /\ callbacks \in [Kinds -> Nat]
    /\ sess = [n \in Conns |-> sess[n]]
    /\ seen = [n \in Conns |-> seen[n]]
    /\ \A n \in Conns :
          Accounted(sess[n], seen[n], callbacks["request"], callbacks["response"])

-----------------------------------------------------------------------------
(* Routes and controllers *)

RoutesFrom(C) == UNION {Range(RoutesOf[c]) : c \in C}

(* A registry filled with routes of controllers in C only. *)
FilledBy(reg, C) ==
    /\ reg = [exact |-> reg.exact, parametric |-> reg.parametric]
    /\ reg.exact = [k \in DOMAIN reg.exact |-> reg.exact[k]]
    /\ \A k \in DOMAIN reg.exact : \E x \in RoutesFrom(C) : reg.exact[k] = x.handler
    /\ reg.parametric \in Seq({create_parametric_route(x.method, x.path, x.handler) :
                                   x \in RoutesFrom(C)})

RegistryInv ==
    /\ initialized \subseteq Controllers
    /\ FilledBy(registry, initialized)
    /\ own = [c \in Controllers |-> own[c]]
    /\ \A c \in Controllers : FilledBy(own[c], {c})

(* A handler that was called belongs to an initialized controller. *)
HandlersInv ==
    \A n \in Conns : InHandler(n) => sess[n].handler.controller \in initialized

-----------------------------------------------------------------------------
(* The registries and the calls of add_route behind them *)

AllRoutes == RoutesFrom(Controllers)

Parametric(x) == create_parametric_route(x.method, x.path, x.handler)

KeyOf(x) == make_route_key(x.method, TextsOf(x.path))

IsExact(x, k) == ~is_parametric_path(x.path) /\ KeyOf(x) = k

(* The last call of add_route for the key k is the i-th. *)
LastFor(rs, k, i) ==
    /\ i \in DOMAIN rs
    /\ IsExact(rs[i], k)
    /\ \A j \in DOMAIN rs : IsExact(rs[j], k) => j <= i

(* at lists the calls of add_route for parametric paths, in order. *)
Listed(list, rs, at) ==
    /\ \A a, b \in 1 .. Len(list) : a < b => at[a] < at[b]
    /\ \A i \in DOMAIN rs :
          is_parametric_path(rs[i].path) => \E a \in 1 .. Len(list) : at[a] = i
    /\ \A a \in 1 .. Len(list) :
          is_parametric_path(rs[at[a]].path) /\ list[a] = Parametric(rs[at[a]])

(* The registry is what the calls of add_route listed in rs make of an     *)
(* empty one, whether they were made on it or came with merge().           *)
Represents(reg, rs) ==
    /\ rs \in Seq(AllRoutes)
    /\ reg = [exact |-> reg.exact, parametric |-> reg.parametric]
    /\ reg.exact = [k \in DOMAIN reg.exact |-> reg.exact[k]]
    /\ \A k \in DOMAIN reg.exact : \E i \in DOMAIN rs : LastFor(rs, k, i) /\ reg.exact[k] = rs[i].handler
    /\ \A i \in DOMAIN rs : ~is_parametric_path(rs[i].path) => KeyOf(rs[i]) \in DOMAIN reg.exact
    /\ reg.parametric \in Seq({Parametric(x) : x \in AllRoutes})
    /\ \E at \in [1 .. Len(reg.parametric) -> DOMAIN rs] : Listed(reg.parametric, rs, at)

RoutesInv ==
    /\ routes = [merged |-> routes.merged, own |-> routes.own]
    /\ routes.own = [c \in Controllers |-> routes.own[c]]
    /\ own = [c \in Controllers |-> own[c]]
    /\ Represents(registry, routes.merged)
    /\ \A c \in Controllers : Represents(own[c], routes.own[c])

-----------------------------------------------------------------------------
(* What a session was given by find_handler and the request *)

(* A context, with what is in its caches. *)
WithCaches(r, params, j, f, m) ==
    [request     |-> r,
     headers     |-> parse_headers(r.fields),
     path_params |-> params,
     query_params |-> parse_query_params(r.query),
     json        |-> j,
     form        |-> f,
     multipart   |-> m]

JsonCache(j, r) == \/ j = nullopt
                   \/ j = Some(r.body.json) /\ r.body.json \notin {"malformed", "throws"}

FormCache(f, r) == f \in {nullopt, Some(parse_query_params(r.body.form))}

(* The context of a handler: what the constructor parsed, and the caches   *)
(* of the body readers, empty or filled from this very body.               *)
ContextInv(ctx) ==
    LET r == ctx.request
    IN  /\ r \in Requests
        /\ ctx = WithCaches(r, ctx.path_params, ctx.json, ctx.form, ctx.multipart)
        /\ JsonCache(ctx.json, r)
        /\ FormCache(ctx.form, r)

CalledRight(s, reg) ==
    /\ s = [st |-> s.st, handler |-> s.handler, awaits |-> s.awaits, ctx |-> s.ctx]
    /\ s.awaits \in Nat
    /\ ContextInv(s.ctx)
    /\ find_handler(reg, s.ctx.request.method, s.ctx.request.path) =
           Found(s.handler, s.ctx.path_params)

RefusedRight(s, reg) ==
    /\ s.req \in Requests
    /\ find_handler(reg, s.req.method, s.req.path) = NotFound

(* Before the first run() there is no session, so that the registry a      *)
(* session asked is the registry of now.                                   *)
CallsInv ==
    /\ idle \in Nat
    /\ runs \in Nat
    /\ runs = 0 => idle = 0 /\ \A n \in Conns : sess[n].st = "none"
    /\ sess = [n \in Conns |-> sess[n]]
    /\ \A n \in Conns :
          /\ InHandler(n) => CalledRight(sess[n], registry)
          /\ sess[n].st = "writing" /\ sess[n].res.factory = "not_found" =>
                RefusedRight(sess[n], registry)

-----------------------------------------------------------------------------
(* The threads of run() *)

NoHandling == \A n \in Conns : sess[n].st # "handling"

(* A thread that could call a handler is there only in run() or after a    *)
(* stop, and until a stop run() has one.                                   *)
LifeInv ==
    /\ idle \in Nat
    /\ main \in {"config", "run", "shutdown", "returned", "destroyed"}
    /\ main # "run" => NoHandling
    /\ main \in {"shutdown", "returned"} => stopped
    /\ main \in {"config", "destroyed"} => idle = 0 \/ stopped
    /\ main = "run" /\ ~stopped => idle > 0 \/ ~NoHandling
    /\ ended # {} => stopped /\ NoHandling

ServerInv == SessionInv /\ RegistryInv /\ HandlersInv /\ LifeInv

-----------------------------------------------------------------------------
(* What the steps of a session do to its counts. *)

WithRead(t, called) == [t EXCEPT !.read = @ + 1, !.request = @ + called]
WithResponse(t, called) == [t EXCEPT !.response = @ + called]

LEMMA CountNothing ==
    ASSUME NEW q \in Nat, NEW p \in Nat
    PROVE  NothingSeen \in Counts /\ Answered(NothingSeen, q, p)
BY DEF NothingSeen, Counts, Answered

LEMMA CountRead ==
    ASSUME NEW q \in Nat, NEW p \in Nat, NEW t \in Counts, Answered(t, q, p), NEW c \in Nat,
           NEW u, u = WithRead(t, c)
    PROVE  u \in Counts /\ Unanswered(u, 0) /\ (c = q => Handled(u, q, p))
<1>1. u = [read |-> t.read + 1, request |-> t.request + c, response |-> t.response,
           error |-> t.error, written |-> t.written]
  BY Zenon DEF Counts, WithRead
<1>2. u \in Counts /\ Unanswered(u, 0)
  BY <1>1 DEF Counts, Answered, Unanswered
<1>3. PICK a \in Nat, b \in Nat : a = t.read /\ b = t.read * q
  BY DEF Counts
<1>4. (a + 1) * q = a * q + q
  OBVIOUS
<1> QED
  BY <1>1, <1>2, <1>3, <1>4 DEF Handled, Answered, Counts

LEMMA CountResponse ==
    ASSUME NEW q \in Nat, NEW p \in Nat, NEW t \in Counts, Handled(t, q, p), NEW c \in Nat,
           NEW u, u = WithResponse(t, c)
    PROVE  u \in Counts /\ Unanswered(u, 0) /\ (c = p => Responded(u, q, p))
<1>1. u = [read |-> t.read, request |-> t.request, response |-> t.response + c,
           error |-> t.error, written |-> t.written]
  BY DEF Counts, WithResponse
<1>2. u \in Counts /\ Unanswered(u, 0)
  BY <1>1 DEF Counts, Handled, Unanswered
<1>3. PICK a \in Nat : a = t.written
  BY DEF Counts
<1>4. (a + 1) * p = a * p + p
  OBVIOUS
<1> QED
  BY <1>1, <1>2, <1>3, <1>4 DEF Handled, Responded, Counts

LEMMA CountWritten ==
    ASSUME NEW q \in Nat, NEW p \in Nat, NEW t \in Counts, Responded(t, q, p),
           NEW u, u = [t EXCEPT !.written = @ + 1]
    PROVE  u \in Counts /\ Answered(u, q, p)
<1>1. u = [read |-> t.read, request |-> t.request, response |-> t.response,
           error |-> t.error, written |-> t.written + 1]
  BY DEF Counts
<1> QED
  BY <1>1 DEF Responded, Answered, Counts

LEMMA CountError ==
    ASSUME NEW t \in Counts, Unanswered(t, 0), NEW u, u = [t EXCEPT !.error = @ + 1]
    PROVE  u \in Counts /\ Unanswered(u, 1)
<1>1. u = [read |-> t.read, request |-> t.request, response |-> t.response,
           error |-> t.error + 1, written |-> t.written]
  BY DEF Counts
<1> QED
  BY <1>1 DEF Counts, Unanswered

(* A loop over the callbacks that no exception leaves calls all of them. *)
LEMMA Outcomes ==
    ASSUME callbacks \in [Kinds -> Nat], NEW k \in Kinds, NEW o \in TriggerOutcomes(k)
    PROVE  o.called \in Nat /\ (~o.escaped => o.called = callbacks[k])
<1>1. callbacks[k] \in Nat
  OBVIOUS
<1>2. CASE o \in {[called |-> callbacks[k], errs |-> e, escaped |-> FALSE] : e \in 0 .. callbacks[k]}
  <2>1. PICK e \in 0 .. callbacks[k] : o = [called |-> callbacks[k], errs |-> e, escaped |-> FALSE]
    BY <1>2, Zenon
  <2>2. o.called = callbacks[k]
    BY <2>1
  <2> QED
    BY <1>1, <2>2, Zenon
<1>3. CASE o \in [called : 1 .. callbacks[k], errs : 0 .. callbacks[k], escaped : {TRUE}]
  <2>1. o.called \in 1 .. callbacks[k] /\ o.escaped = TRUE
    BY <1>3, Zenon
  <2>2. o.called \in Nat
    BY <1>1, <2>1
  <2> QED
    BY <2>1, <2>2, Zenon
<1> QED
  BY <1>2, <1>3, Zenon DEF TriggerOutcomes

-----------------------------------------------------------------------------
(* The sessions of the other connections stay as they are. *)

LEMMA SessionQuiet ==
    ASSUME SessionInv, sess' = sess, seen' = seen, callbacks' = callbacks
    PROVE  SessionInv'
BY Zenon DEF SessionInv

LEMMA SessionChange ==
    ASSUME SessionInv, NEW n \in Conns, NEW s, NEW t,
           sess' = [sess EXCEPT ![n] = s], seen' = [seen EXCEPT ![n] = t],
           callbacks' = callbacks,
           Accounted(s, t, callbacks["request"], callbacks["response"])
    PROVE  SessionInv'
<1>1. \A m \in Conns : /\ sess'[m] = IF m = n THEN s ELSE sess[m]
                       /\ seen'[m] = IF m = n THEN t ELSE seen[m]
  BY DEF SessionInv
<1>2. sess' = [m \in Conns |-> sess'[m]] /\ seen' = [m \in Conns |-> seen'[m]]
  BY Zenon DEF SessionInv
<1>3. \A m \in Conns :
          Accounted(sess'[m], seen'[m], callbacks["request"], callbacks["response"])
  BY <1>1, Zenon DEF SessionInv
<1> QED
  BY <1>2, <1>3, Zenon DEF SessionInv

LEMMA SessionMoves ==
    ASSUME SessionInv, NEW n \in Conns, NEW s, sess' = [sess EXCEPT ![n] = s],
           seen' = seen, callbacks' = callbacks,
           Accounted(s, seen[n], callbacks["request"], callbacks["response"])
    PROVE  SessionInv'
<1>1. seen' = [seen EXCEPT ![n] = seen[n]]
  BY DEF SessionInv
<1> QED
  BY <1>1, SessionChange, Zenon

-----------------------------------------------------------------------------
(* Every step of a session keeps its counts right. *)

LEMMA KindsOf == {"request", "response"} \subseteq Kinds
BY DEF Kinds, SyncKinds

LEMMA SessionCase ==
    ASSUME SessionInv, NEW n \in Conns
    PROVE  /\ callbacks["request"] \in Nat /\ callbacks["response"] \in Nat
           /\ seen[n] \in Counts
           /\ sess[n].st = "none" => seen[n] = NothingSeen
           /\ sess[n].st = "reading" =>
                  Answered(seen[n], callbacks["request"], callbacks["response"])
           /\ sess[n].st \in {"handling", "suspended"} =>
                  /\ Handled(seen[n], callbacks["request"], callbacks["response"])
                  /\ {"st", "handler"} \subseteq DOMAIN sess[n]
           /\ sess[n].st = "writing" =>
                  Responded(seen[n], callbacks["request"], callbacks["response"])
<1>1. callbacks["request"] \in Nat /\ callbacks["response"] \in Nat
  BY KindsOf DEF SessionInv
<1>2. Accounted(sess[n], seen[n], callbacks["request"], callbacks["response"])
  BY Zenon DEF SessionInv
<1> QED
  BY <1>1, <1>2 DEF Accounted

LEMMA RespondInv ==
    ASSUME SessionInv, NEW n \in Conns, NEW r, NEW res, NEW js, NEW done \in Counts,
           Handled(done, callbacks["request"], callbacks["response"]),
           Respond(n, r, res, js, done), callbacks' = callbacks
    PROVE  SessionInv'
<1>1. PICK o \in TriggerOutcomes("response") :
          /\ seen' = [seen EXCEPT ![n] = [done EXCEPT !.response = @ + o.called]]
          /\ Becomes(n, IF o.escaped THEN Closed("dropped")
                        ELSE [st |-> "writing", req |-> r, res |-> res])
  BY Zenon DEF Respond
<1>2. o.called \in Nat /\ (~o.escaped => o.called = callbacks["response"])
  BY Outcomes, KindsOf DEF SessionInv
<1>3. PICK t : t = WithResponse(done, o.called)
  OBVIOUS
<1>4. /\ t \in Counts /\ Unanswered(t, 0)
      /\ o.called = callbacks["response"] =>
             Responded(t, callbacks["request"], callbacks["response"])
  <2>1. callbacks["request"] \in Nat /\ callbacks["response"] \in Nat
    BY SessionCase, Zenon
  <2> QED
    BY <1>2, <1>3, <2>1, CountResponse
<1>5. CASE o.escaped
  <2>1. sess' = [sess EXCEPT ![n] = Closed("dropped")] /\ seen' = [seen EXCEPT ![n] = t]
    BY <1>1, <1>3, <1>5, Zenon DEF Becomes, WithResponse
  <2>2. Accounted(Closed("dropped"), t, callbacks["request"], callbacks["response"])
    BY <1>4 DEF Accounted, Closed
  <2> QED
    BY <2>1, <2>2, SessionChange, Zenon
<1>6. CASE ~o.escaped
  <2>1. /\ sess' = [sess EXCEPT ![n] = [st |-> "writing", req |-> r, res |-> res]]
        /\ seen' = [seen EXCEPT ![n] = t]
    BY <1>1, <1>3, <1>6, Zenon DEF Becomes, WithResponse
  <2>2. Responded(t, callbacks["request"], callbacks["response"])
    BY <1>2, <1>4, <1>6, Zenon
  <2>3. Accounted([st |-> "writing", req |-> r, res |-> res], t,
                  callbacks["request"], callbacks["response"])
    BY <1>4, <2>2 DEF Accounted
  <2> QED
    BY <2>1, <2>3, SessionChange, Zenon
<1> QED
  BY <1>5, <1>6, Zenon

LEMMA ReadRequestInv ==
    ASSUME SessionInv, NEW n \in Conns, NEW r, ReadRequest(n, r)
    PROVE  SessionInv'
<1>1. /\ Answered(seen[n], callbacks["request"], callbacks["response"])
      /\ callbacks["request"] \in Nat /\ callbacks["response"] \in Nat /\ seen[n] \in Counts
      /\ callbacks' = callbacks
  BY SessionCase DEF ReadRequest, SessionStep, configVars
<1>2. PICK o \in TriggerOutcomes("request") :
          LET js   == TriggerJobs(jobs, "request", o)
              done == [seen[n] EXCEPT !.read = @ + 1, !.request = @ + o.called]
          IN  IF o.escaped
              THEN /\ Becomes(n, Closed("dropped"))
                   /\ jobs' = js
                   /\ seen' = [seen EXCEPT ![n] = done]
                   /\ UNCHANGED idle
              ELSE HandleRequest(n, r, js, done)
  BY Zenon DEF ReadRequest
<1>3. o.called \in Nat /\ (~o.escaped => o.called = callbacks["request"])
  BY Outcomes, KindsOf DEF SessionInv
<1>4. PICK t : t = WithRead(seen[n], o.called)
  OBVIOUS
<1>5. /\ t \in Counts /\ Unanswered(t, 0)
      /\ o.called = callbacks["request"] =>
             Handled(t, callbacks["request"], callbacks["response"])
  BY <1>1, <1>3, <1>4, CountRead
<1>6. CASE o.escaped
  <2>1. sess' = [sess EXCEPT ![n] = Closed("dropped")] /\ seen' = [seen EXCEPT ![n] = t]
    BY <1>2, <1>4, <1>6, Zenon DEF Becomes, WithRead
  <2>2. Accounted(Closed("dropped"), t, callbacks["request"], callbacks["response"])
    BY <1>5 DEF Accounted, Closed
  <2> QED
    BY <1>1, <2>1, <2>2, SessionChange, Zenon
<1>7. CASE ~o.escaped
  <2>1. PICK js : HandleRequest(n, r, js, t)
    BY <1>2, <1>4, <1>7, Zenon DEF WithRead
  <2>2. Handled(t, callbacks["request"], callbacks["response"])
    BY <1>3, <1>5, <1>7, Zenon
  <2>3. PICK f : f = find_handler(registry, r.method, r.path)
    OBVIOUS
  <2>4. CASE f.found
    <3>1. PICK s : s = [st |-> "handling", handler |-> f.handler, awaits |-> 0,
                        ctx |-> Context(r, f.params)]
      BY Zenon
    <3>2. sess' = [sess EXCEPT ![n] = s] /\ seen' = [seen EXCEPT ![n] = t]
      BY <2>1, <2>3, <2>4, <3>1, Zenon DEF HandleRequest, Becomes
    <3>3. Accounted(s, t, callbacks["request"], callbacks["response"])
      BY <1>5, <2>2, <3>1 DEF Accounted
    <3> QED
      BY <1>1, <3>2, <3>3, SessionChange, Zenon
  <2>5. CASE ~f.found
    <3>1. Respond(n, r, not_found(r.version), js, t)
      BY <2>1, <2>3, <2>5, Zenon DEF HandleRequest
    <3> QED
      BY <1>1, <1>5, <2>2, <3>1, RespondInv, Zenon
  <2> QED
    BY <2>4, <2>5, Zenon
<1> QED
  BY <1>6, <1>7, Zenon

(* SessionThrows, from a state with one request unanswered and no error. *)
LEMMA SessionThrowsInv ==
    ASSUME SessionInv, NEW n \in Conns, NEW kind, Unanswered(seen[n], 0),
           SessionThrows(n, kind), callbacks' = callbacks
    PROVE  SessionInv'
<1>1. seen[n] \in Counts
  BY SessionCase, Zenon
<1>2. CASE kind = "std"
  <2>1. PICK t : t = [seen[n] EXCEPT !.error = @ + 1]
    BY Zenon
  <2>2. t \in Counts /\ Unanswered(t, 1)
    BY <1>1, <2>1, CountError, Zenon
  <2>3. sess' = [sess EXCEPT ![n] = Closed("error")] /\ seen' = [seen EXCEPT ![n] = t]
    BY <1>2, <2>1 DEF SessionThrows, Becomes
  <2>4. Accounted(Closed("error"), t, callbacks["request"], callbacks["response"])
    BY <2>2 DEF Accounted, Closed
  <2> QED
    BY <2>3, <2>4, SessionChange, Zenon
<1>3. CASE kind # "std"
  <2>1. sess' = [sess EXCEPT ![n] = Closed("dropped")] /\ seen' = seen
    BY <1>3, Zenon DEF SessionThrows, Becomes
  <2>2. Accounted(Closed("dropped"), seen[n], callbacks["request"], callbacks["response"])
    BY <1>1 DEF Accounted, Closed
  <2> QED
    BY <2>1, <2>2, SessionMoves, Zenon
<1> QED
  BY <1>2, <1>3, Zenon

LEMMA SessionStepInv ==
    ASSUME SessionInv, NEW n \in Conns, Session(n)
    PROVE  SessionInv'
<1> DEFINE q == callbacks["request"]
           p == callbacks["response"]
<1>0. seen[n] \in Counts /\ q \in Nat /\ p \in Nat
  BY SessionCase, Zenon
<1>1. ASSUME NEW r \in Requests, ReadRequest(n, r) PROVE SessionInv'
  BY <1>1, ReadRequestInv, Zenon
<1>2. ASSUME ReadEnds(n) PROVE SessionInv'
  <2>1. callbacks' = callbacks /\ seen' = seen
    BY <1>2, Zenon DEF ReadEnds, SessionStep, configVars
  <2>2. PICK how \in {"end", "read_failed"} : sess' = [sess EXCEPT ![n] = Closed(how)]
    BY <1>2, Zenon DEF ReadEnds, Becomes
  <2>3. Answered(seen[n], q, p)
    BY <1>2, SessionCase, Zenon DEF ReadEnds
  <2>4. Accounted(Closed(how), seen[n], q, p)
    BY <1>0, <2>2, <2>3 DEF Accounted, Closed, Answered
  <2> QED
    BY <2>1, <2>2, <2>4, SessionMoves, Zenon
<1>3. ASSUME HandlerReads(n) PROVE SessionInv'
  <2>1. callbacks' = callbacks /\ seen' = seen /\ sess[n].st = "handling"
    BY <1>3, Zenon DEF HandlerReads, SessionStep, configVars
  <2>2. PICK ctx : sess' = [sess EXCEPT ![n] = [sess[n] EXCEPT !.ctx = ctx]]
    BY <1>3, Zenon DEF HandlerReads, Becomes
  <2>3. Handled(seen[n], q, p) /\ {"st", "handler"} \subseteq DOMAIN sess[n]
    BY <2>1, SessionCase
  <2>4. PICK s : s = [sess[n] EXCEPT !.ctx = ctx]
    BY Zenon
  <2>5. s.st = "handling" /\ {"st", "handler"} \subseteq DOMAIN s
    BY <2>1, <2>3, <2>4
  <2>6. Accounted(s, seen[n], q, p)
    BY <1>0, <2>3, <2>5 DEF Accounted
  <2> QED
    BY <2>1, <2>2, <2>4, <2>6, SessionMoves, Zenon
<1>4. ASSUME HandlerSuspends(n) PROVE SessionInv'
  <2>1. callbacks' = callbacks /\ seen' = seen /\ sess[n].st = "handling"
    BY <1>4, Zenon DEF HandlerSuspends, SessionStep, configVars
  <2>2. PICK s : s = [sess[n] EXCEPT !.st = "suspended", !.awaits = @ + 1]
    OBVIOUS
  <2>3. sess' = [sess EXCEPT ![n] = s]
    BY <1>4, <2>2 DEF HandlerSuspends, Becomes
  <2>4. Handled(seen[n], q, p) /\ {"st", "handler"} \subseteq DOMAIN sess[n]
    BY <2>1, SessionCase
  <2>5. s.st = "suspended" /\ {"st", "handler"} \subseteq DOMAIN s
    BY <2>2, <2>4
  <2>6. Accounted(s, seen[n], q, p)
    BY <1>0, <2>4, <2>5 DEF Accounted
  <2> QED
    BY <2>1, <2>3, <2>6, SessionMoves, Zenon
<1>5. ASSUME HandlerResumes(n) PROVE SessionInv'
  <2>1. callbacks' = callbacks /\ seen' = seen /\ sess[n].st = "suspended"
    BY <1>5, Zenon DEF HandlerResumes, SessionStep, configVars
  <2>2. PICK s : s = [sess[n] EXCEPT !.st = "handling"]
    BY Zenon
  <2>3. sess' = [sess EXCEPT ![n] = s]
    BY <1>5, <2>2, Zenon DEF HandlerResumes, Becomes
  <2>4. Handled(seen[n], q, p) /\ {"st", "handler"} \subseteq DOMAIN sess[n]
    BY <2>1, SessionCase
  <2>5. s.st = "handling" /\ {"st", "handler"} \subseteq DOMAIN s
    BY <2>2, <2>4
  <2>6. Accounted(s, seen[n], q, p)
    BY <1>0, <2>4, <2>5 DEF Accounted
  <2> QED
    BY <2>1, <2>3, <2>6, SessionMoves, Zenon
<1>6. ASSUME HandlerReturns(n) PROVE SessionInv'
  <2>1. callbacks' = callbacks /\ sess[n].st = "handling"
    BY <1>6, Zenon DEF HandlerReturns, SessionStep, configVars
  <2>2. PICK r, res : Respond(n, r, res, jobs, seen[n])
    BY <1>6, Zenon DEF HandlerReturns
  <2>3. Handled(seen[n], q, p)
    BY <2>1, SessionCase
  <2> QED
    BY <1>0, <2>1, <2>2, <2>3, RespondInv, Zenon
<1>7. ASSUME HandlerThrows(n) PROVE SessionInv'
  <2>1. callbacks' = callbacks /\ sess[n].st = "handling"
    BY <1>7, Zenon DEF HandlerThrows, SessionStep, configVars
  <2>2. PICK kind : SessionThrows(n, kind)
    BY <1>7, Zenon DEF HandlerThrows
  <2>3. Unanswered(seen[n], 0)
    BY <2>1, SessionCase DEF Handled, Unanswered
  <2> QED
    BY <2>1, <2>2, <2>3, SessionThrowsInv, Zenon
<1>8. ASSUME WriteDone(n) PROVE SessionInv'
  <2>1. callbacks' = callbacks /\ sess[n].st = "writing"
    BY <1>8, Zenon DEF WriteDone, SessionStep, configVars
  <2>2. PICK s : s = IF keep_alive(sess[n].res) THEN [st |-> "reading"] ELSE Closed("end")
    BY Zenon
  <2>3. PICK t : t = [seen[n] EXCEPT !.written = @ + 1]
    BY Zenon
  <2>4. sess' = [sess EXCEPT ![n] = s] /\ seen' = [seen EXCEPT ![n] = t]
    BY <1>8, <2>2, <2>3 DEF WriteDone, Becomes
  <2>5. Responded(seen[n], q, p)
    BY <2>1, SessionCase
  <2>6. t \in Counts /\ Answered(t, q, p)
    BY <1>0, <2>3, <2>5, CountWritten
  <2>7. Accounted(s, t, q, p)
    BY <2>2, <2>6 DEF Accounted, Closed
  <2> QED
    BY <2>1, <2>4, <2>7, SessionChange, Zenon
<1>9. ASSUME WriteFails(n) PROVE SessionInv'
  <2>1. callbacks' = callbacks /\ sess[n].st = "writing" /\ SessionThrows(n, "std")
    BY <1>9, Zenon DEF WriteFails, SessionStep, configVars
  <2>2. Unanswered(seen[n], 0)
    BY <2>1, SessionCase DEF Responded, Unanswered
  <2> QED
    BY <2>1, <2>2, SessionThrowsInv, Zenon
<1> QED
  BY <1>1, <1>2, <1>3, <1>4, <1>5, <1>6, <1>7, <1>8, <1>9, Zenon DEF Session, HandlerEnds

LEMMA SessionNext ==
    ASSUME SessionInv, [Next]_vars
    PROVE  SessionInv'
<1>1. ASSUME NEW n \in Conns, Accept(n) PROVE SessionInv'
  <2>1. callbacks' = callbacks /\ seen' = seen /\ sess[n].st = "none"
        /\ sess' = [sess EXCEPT ![n] = [st |-> "reading"]]
    BY <1>1, Zenon DEF Accept, configVars
  <2>2. seen[n] = NothingSeen /\ callbacks["request"] \in Nat /\ callbacks["response"] \in Nat
    BY <2>1, SessionCase, Zenon
  <2>3. Accounted([st |-> "reading"], seen[n], callbacks["request"], callbacks["response"])
    BY <2>2, CountNothing DEF Accounted
  <2> QED
    BY <2>1, <2>3, SessionMoves, Zenon
<1>2. ASSUME NEW n \in Conns, Session(n) PROVE SessionInv'
  BY <1>2, SessionStepInv, Zenon
<1>3. CASE UNCHANGED <<callbacks, sess, seen>>
  BY <1>3, SessionQuiet, Zenon
<1>4. ASSUME NEW c \in Controllers, AddController(c) PROVE SessionInv'
  BY <1>4, <1>3, Zenon DEF AddController
<1>5. ASSUME NEW k \in AsyncKinds, RunJob(k) PROVE SessionInv'
  BY <1>5, <1>3, Zenon DEF RunJob, configVars
<1>6. CASE listen
  BY <1>6, <1>3, Zenon DEF listen, configVars
<1>7. CASE run
  BY <1>7, <1>3, Zenon DEF run, configVars
<1>8. CASE JoinAndStopCallbacks
  BY <1>8, <1>3, Zenon DEF JoinAndStopCallbacks, configVars
<1>9. CASE ShutdownControllers
  BY <1>9, <1>3, Zenon DEF ShutdownControllers, configVars
<1>10. CASE StopBegins
  BY <1>10, <1>3, Zenon DEF StopBegins, configVars
<1>11. CASE stop
  BY <1>11, <1>3, Zenon DEF stop, configVars
<1>12. CASE Signal
  BY <1>12, <1>3, Zenon DEF Signal, configVars
<1>13. CASE Destroy
  BY <1>13, <1>3, Zenon DEF Destroy, configVars
<1>14. CASE ThreadReturns
  BY <1>14, <1>3, Zenon DEF ThreadReturns, configVars
<1>15. CASE AcceptStarts
  BY <1>15, <1>3, Zenon DEF AcceptStarts, configVars
<1>16. CASE AcceptFails
  BY <1>16, <1>3, Zenon DEF AcceptFails, configVars
<1>17. CASE UNCHANGED vars
  BY <1>17, <1>3, Zenon DEF vars
<1> QED
  BY <1>1, <1>2, <1>4, <1>5, <1>6, <1>7, <1>8, <1>9, <1>10, <1>11, <1>12, <1>13, <1>14,
     <1>15, <1>16, <1>17, Zenon DEF Next

LEMMA SessionInit ==
    ASSUME Init
    PROVE  SessionInv
<1>1. callbacks \in [Kinds -> Nat]
  BY RegistrationsAssumption, Zenon DEF Init
<1>2. callbacks["request"] \in Nat /\ callbacks["response"] \in Nat
  BY <1>1 DEF Kinds, SyncKinds
<1>3. Accounted(NoSession, NothingSeen, callbacks["request"], callbacks["response"])
  BY <1>2, CountNothing DEF Accounted, NoSession
<1>4. sess = [n \in Conns |-> NoSession] /\ seen = [n \in Conns |-> NothingSeen]
  BY Zenon DEF Init
<1> QED
  BY <1>1, <1>3, <1>4, Zenon DEF SessionInv

(* Every request a session has read is accounted for: the callbacks ran    *)
(* for it once, an answer was written before the next one was read, and a  *)
(* connection that ended with a request unanswered lost that one only and  *)
(* made one error report, or none where the exception was no               *)
(* std::exception (Server::session, handle_request, trigger_*_callbacks).  *)
THEOREM ServerAccountsForRequests == Spec => []RequestsAccounted
<1>1. Init => SessionInv
  BY SessionInit, Zenon
<1>2. SessionInv /\ [Next]_vars => SessionInv'
  BY SessionNext, Zenon
<1>3. SessionInv => RequestsAccounted
  <2> SUFFICES ASSUME SessionInv, NEW n \in Conns
      PROVE  LET s        == seen[n]
                 answered == /\ s.written = s.read
                             /\ s.request = s.read * callbacks["request"]
                             /\ s.response = s.read * callbacks["response"]
                             /\ s.error = 0
             IN  /\ sess[n].st = "reading" => answered
                 /\ InHandler(n) => /\ s.written = s.read - 1
                                    /\ s.request = s.read * callbacks["request"]
                                    /\ s.response = s.written * callbacks["response"]
                 /\ sess[n].st = "writing" => /\ s.written = s.read - 1
                                              /\ s.response = s.read * callbacks["response"]
                 /\ sess[n].st = "closed" =>
                       CASE sess[n].how \in {"end", "read_failed"} -> answered
                         [] sess[n].how = "error" -> s.written = s.read - 1 /\ s.error = 1
                         [] sess[n].how = "dropped" -> s.written = s.read - 1 /\ s.error = 0
    BY Zenon DEF RequestsAccounted
  <2>1. Accounted(sess[n], seen[n], callbacks["request"], callbacks["response"])
    BY Zenon DEF SessionInv
  <2>2. seen[n].read \in Nat /\ seen[n].written \in Nat
    BY <2>1 DEF Accounted, Counts
  <2>3. sess[n].st = "reading" => Answered(seen[n], callbacks["request"], callbacks["response"])
    BY <2>1 DEF Accounted
  <2>4. InHandler(n) => Handled(seen[n], callbacks["request"], callbacks["response"])
    BY <2>1 DEF Accounted, InHandler
  <2>5. sess[n].st = "writing" => Responded(seen[n], callbacks["request"], callbacks["response"])
    BY <2>1 DEF Accounted
  <2>6. CASE sess[n].st = "closed"
    <3>1. \/ /\ sess[n].how \in {"end", "read_failed"}
             /\ Answered(seen[n], callbacks["request"], callbacks["response"])
          \/ sess[n].how = "error" /\ Unanswered(seen[n], 1)
          \/ sess[n].how = "dropped" /\ Unanswered(seen[n], 0)
      BY <2>1, <2>6 DEF Accounted
    <3>2. seen[n].read = seen[n].written + 1 => seen[n].written = seen[n].read - 1
      BY <2>2
    <3> QED
      BY <2>6, <3>1, <3>2, Zenon DEF Answered, InHandler, Unanswered
  <2>7. CASE sess[n].st # "closed"
    <3>1. seen[n].read = seen[n].written + 1 => seen[n].written = seen[n].read - 1
      BY <2>2
    <3> QED
      BY <2>3, <2>4, <2>5, <2>7, <3>1, Zenon DEF Answered, Handled, Responded
  <2> QED
    BY <2>6, <2>7, Zenon
<1> QED
  BY <1>1, <1>2, <1>3, PTL DEF Spec

-----------------------------------------------------------------------------
(* Induction over the natural numbers. *)

LEMMA SetInduction ==
    ASSUME NEW S, 0 \in S, \A n \in Nat : n \in S => n + 1 \in S
    PROVE  Nat \subseteq S
<1> SUFFICES ASSUME NEW m \in Nat, m \notin S PROVE FALSE
  BY Zenon
<1> DEFINE T == {0 .. n : n \in Nat \ S}
           R == StrictSubsetOrdering(Nat)
<1>1. T \subseteq FiniteSubsetsOf(Nat)
  <2> SUFFICES ASSUME NEW n \in Nat PROVE 0 .. n \in FiniteSubsetsOf(Nat)
    BY Zenon
  <2>1. IsFiniteSet(0 .. n)
    BY FS_Interval
  <2> QED
    BY <2>1 DEF FiniteSubsetsOf
<1>2. PICK n \in Nat \ S : \A k \in Nat \ S : <<0 .. k, 0 .. n>> \notin R
  <2>1. IsWellFoundedOn(R, FiniteSubsetsOf(Nat))
    BY FS_StrictSubsetOrderingWellFounded, Zenon
  <2>2. T # {}
    BY Zenon
  <2> HIDE DEF R
  <2>3. PICK U \in T : \A V \in T : <<V, U>> \notin R
    <3> HIDE DEF T
    <3> QED
      BY <1>1, <2>1, <2>2, WFMin, Zenon
  <2> QED
    BY <2>3, Zenon
<1>3. n # 0 /\ n - 1 \in Nat /\ n - 1 \notin S
  <2>1. n # 0
    BY Zenon
  <2>2. n - 1 \in Nat /\ (n - 1) + 1 = n
    BY <2>1
  <2> QED
    BY <2>1, <2>2, Zenon
<1>4. <<0 .. n - 1, 0 .. n>> \in R
  <2>1. 0 .. n - 1 \subseteq 0 .. n /\ n \in 0 .. n /\ n \notin 0 .. n - 1
    OBVIOUS
  <2>2. 0 .. n - 1 \subseteq Nat /\ 0 .. n \subseteq Nat
    OBVIOUS
  <2> QED
    BY <2>1, <2>2, Zenon DEF StrictSubsetOrdering
<1> QED
  BY <1>2, <1>3, <1>4, Zenon

LEMMA LeastOf ==
    ASSUME NEW S, S \subseteq Nat, S # {}
    PROVE  Min(S) \in S /\ \A y \in S : Min(S) <= y
<1>1. \E x \in S : \A y \in S : x <= y
  <2> SUFFICES ASSUME \A x \in S : \E y \in S : ~ (x <= y) PROVE FALSE
    BY Zenon
  <2> DEFINE I == {n \in Nat : \A m \in S : n <= m}
  <2>1. 0 \in I
    OBVIOUS
  <2>2. ASSUME NEW n \in Nat, n \in I PROVE n + 1 \in I
    <3>1. n \notin S
      BY <2>2, Zenon
    <3> QED
      BY <2>2, <3>1
  <2>3. Nat \subseteq I
    <3> HIDE DEF I
    <3> QED
      BY <2>1, <2>2, SetInduction, Zenon
  <2>4. PICK m \in S : m \in Nat
    BY Zenon
  <2>5. m + 1 \in I
    BY <2>3, <2>4
  <2>6. m + 1 <= m
    BY <2>4, <2>5, Zenon
  <2> QED
    BY <2>4, <2>6
<1> QED
  BY <1>1, Zenon DEF Min

-----------------------------------------------------------------------------
(* What the operations of a registry keep of FilledBy. *)

LEMMA FilledEmpty ==
    ASSUME NEW C
    PROVE  FilledBy(EmptyRegistry, C)
BY DEF FilledBy, EmptyRegistry

LEMMA RoutesGrow ==
    ASSUME NEW C, NEW D, C \subseteq D
    PROVE  RoutesFrom(C) \subseteq RoutesFrom(D)
BY Zenon DEF RoutesFrom

LEMMA FilledGrow ==
    ASSUME NEW C, NEW D, C \subseteq D, NEW reg, FilledBy(reg, C)
    PROVE  FilledBy(reg, D)
<1> DEFINE P(B) == {create_parametric_route(x.method, x.path, x.handler) : x \in RoutesFrom(B)}
<1>1. RoutesFrom(C) \subseteq RoutesFrom(D)
  BY RoutesGrow, Zenon
<1>2. P(C) \subseteq P(D)
  BY <1>1, Zenon
<1>3. reg.parametric \in Seq(P(C))
  BY Zenon DEF FilledBy
<1>4. reg.parametric \in Seq(P(D))
  <2> HIDE DEF P
  <2> QED
    BY <1>2, <1>3
<1> QED
  BY <1>1, <1>4, Zenon DEF FilledBy

LEMMA FilledAdd ==
    ASSUME NEW C, NEW reg, FilledBy(reg, C), NEW x \in RoutesFrom(C)
    PROVE  FilledBy(add_route(reg, x.method, x.path, x.handler), C)
<1> DEFINE P == {create_parametric_route(y.method, y.path, y.handler) : y \in RoutesFrom(C)}
           route == create_parametric_route(x.method, x.path, x.handler)
           key == make_route_key(x.method, TextsOf(x.path))
<1>1. PICK e, p : reg = [exact |-> e, parametric |-> p]
  BY Zenon DEF FilledBy
<1>2. /\ e = [k \in DOMAIN e |-> e[k]]
      /\ \A k \in DOMAIN e : \E y \in RoutesFrom(C) : e[k] = y.handler
      /\ p \in Seq(P)
  BY <1>1 DEF FilledBy
<1>3. CASE is_parametric_path(x.path)
  <2>1. add_route(reg, x.method, x.path, x.handler) = [exact |-> e, parametric |-> Append(p, route)]
    <3> HIDE DEF route
    <3> QED
      BY <1>1, <1>3 DEF add_route, route
  <2>2. route \in P
    BY Zenon
  <2>3. Append(p, route) \in Seq(P)
    <3> HIDE DEF route, P
    <3> QED
      BY <1>2, <2>2
  <2>4. PICK q : q = Append(p, route)
    BY Zenon
  <2> HIDE DEF route
  <2> QED
    BY <1>2, <2>1, <2>3, <2>4 DEF FilledBy
<1>4. CASE ~is_parametric_path(x.path)
  <2>1. PICK g : g = Overwritten(e, [k \in {key} |-> x.handler])
    BY Zenon
  <2>2. add_route(reg, x.method, x.path, x.handler) = [exact |-> g, parametric |-> p]
    BY <1>1, <1>4, <2>1 DEF add_route
  <2>3. g = [k \in DOMAIN e \cup {key} |-> IF k \in {key} THEN x.handler ELSE e[k]]
    <3> HIDE DEF key
    <3> QED
      BY <2>1 DEF Overwritten
  <2>4. g = [k \in DOMAIN g |-> g[k]]
    BY <2>3, Zenon
  <2>5. \A k \in DOMAIN g : \E y \in RoutesFrom(C) : g[k] = y.handler
    BY <1>2, <2>3, Zenon
  <2> QED
    BY <1>2, <2>2, <2>4, <2>5 DEF FilledBy
<1> QED
  BY <1>3, <1>4, Zenon

LEMMA FilledMerge ==
    ASSUME NEW C, NEW reg, FilledBy(reg, C), NEW other, FilledBy(other, C)
    PROVE  FilledBy(merge(reg, other), C)
<1> DEFINE P == {create_parametric_route(y.method, y.path, y.handler) : y \in RoutesFrom(C)}
<1>1. PICK g, p : g = Overwritten(reg.exact, other.exact) /\ p = reg.parametric \o other.parametric
  BY Zenon
<1>2. merge(reg, other) = [exact |-> g, parametric |-> p]
  BY <1>1, Zenon DEF merge
<1>3. g = [k \in DOMAIN reg.exact \cup DOMAIN other.exact |->
              IF k \in DOMAIN other.exact THEN other.exact[k] ELSE reg.exact[k]]
  BY <1>1, Zenon DEF Overwritten
<1>4. g = [k \in DOMAIN g |-> g[k]]
  BY <1>3, Zenon
<1>5. \A k \in DOMAIN g : \E y \in RoutesFrom(C) : g[k] = y.handler
  BY <1>3, Zenon DEF FilledBy
<1>6. p \in Seq(P)
  <2>1. reg.parametric \in Seq(P) /\ other.parametric \in Seq(P)
    BY Zenon DEF FilledBy
  <2> HIDE DEF P
  <2> QED
    BY <1>1, <2>1
<1> QED
  BY <1>2, <1>4, <1>5, <1>6 DEF FilledBy

(* f[i] is reg with the first i routes of rs added, for i up to n. *)
IsAdding(f, reg, rs, n) ==
    f = [i \in 0 .. n |->
            IF i = 0 THEN reg
            ELSE add_route(f[i - 1], rs[i].method, rs[i].path, rs[i].handler)]

LEMMA AddingExists ==
    ASSUME NEW reg, NEW rs
    PROVE  \A n \in Nat : \E f : IsAdding(f, reg, rs, n)
<1> DEFINE I == {n \in Nat : \E f : IsAdding(f, reg, rs, n)}
<1>1. 0 \in I
  <2>1. IsAdding([i \in 0 .. 0 |-> reg], reg, rs, 0)
    BY DEF IsAdding
  <2> QED
    BY <2>1, Zenon
<1>2. ASSUME NEW n \in Nat, NEW f, IsAdding(f, reg, rs, n)
      PROVE  \E g : IsAdding(g, reg, rs, n + 1)
  <2> DEFINE next(x, i) == add_route(x, rs[i].method, rs[i].path, rs[i].handler)
  <2>1. f = [i \in 0 .. n |-> IF i = 0 THEN reg ELSE next(f[i - 1], i)]
    BY <1>2, Zenon DEF IsAdding
  <2> DEFINE g == [i \in 0 .. n + 1 |-> IF i \in 0 .. n THEN f[i] ELSE next(f[n], i)]
  <2> HIDE DEF next
  <2>2. ASSUME NEW i \in 0 .. n + 1
        PROVE  g[i] = IF i = 0 THEN reg ELSE next(g[i - 1], i)
    <3>1. CASE i = 0
      BY <2>1, <3>1
    <3>2. CASE i \in 1 .. n
      <4>1. i - 1 \in 0 .. n /\ i \in 0 .. n /\ i # 0 /\ i - 1 \in 0 .. n + 1
        BY <3>2
      <4>2. g[i] = f[i] /\ g[i - 1] = f[i - 1]
        BY <4>1, Zenon
      <4>3. f[i] = next(f[i - 1], i)
        BY <2>1, <4>1, Zenon
      <4> QED
        BY <4>1, <4>2, <4>3, Zenon
    <3>3. CASE i = n + 1
      BY <3>3
    <3> QED
      BY <3>1, <3>2, <3>3
  <2>3. IsAdding(g, reg, rs, n + 1)
    <3>1. g = [i \in 0 .. n + 1 |-> g[i]]
      BY Zenon DEF g
    <3> HIDE DEF g
    <3> QED
      BY <2>2, <3>1, Zenon DEF IsAdding, next
  <2> QED
    BY <2>3, Zenon
<1>3. Nat \subseteq I
  <2>1. \A n \in Nat : n \in I => n + 1 \in I
    BY <1>2
  <2> HIDE DEF I
  <2> QED
    BY <1>1, <2>1, SetInduction, Zenon
<1> QED
  BY <1>3, Zenon

LEMMA FilledAddRoutes ==
    ASSUME NEW C, NEW reg, FilledBy(reg, C), NEW rs \in Seq(RoutesFrom(C))
    PROVE  FilledBy(AddRoutes(reg, rs), C)
<1>1. Len(rs) \in Nat
  OBVIOUS
<1>2. \E f : IsAdding(f, reg, rs, Len(rs))
  BY <1>1, AddingExists, Zenon
<1>3. PICK f : IsAdding(f, reg, rs, Len(rs)) /\ AddRoutes(reg, rs) = f[Len(rs)]
  BY <1>2, Zenon DEF AddRoutes, IsAdding
<1> DEFINE I == {n \in Nat : n \in 0 .. Len(rs) => FilledBy(f[n], C)}
<1>4. 0 \in I
  <2>1. f[0] = reg
    BY <1>1, <1>3 DEF IsAdding
  <2> QED
    BY <2>1
<1>5. ASSUME NEW n \in Nat, n \in I PROVE n + 1 \in I
  <2> SUFFICES ASSUME n + 1 \in 0 .. Len(rs) PROVE FilledBy(f[n + 1], C)
    BY <1>5
  <2>1. n \in 0 .. Len(rs) /\ n + 1 # 0 /\ (n + 1) - 1 = n /\ n + 1 \in 1 .. Len(rs)
    BY <1>1
  <2>2. rs[n + 1] \in RoutesFrom(C)
    BY <2>1
  <2>3. FilledBy(f[n], C)
    BY <1>5, <2>1, Zenon
  <2>4. f[n + 1] = add_route(f[n], rs[n + 1].method, rs[n + 1].path, rs[n + 1].handler)
    BY <1>3, <2>1, Zenon DEF IsAdding
  <2> QED
    BY <2>2, <2>3, <2>4, FilledAdd, Zenon
<1>6. Nat \subseteq I
  <2> HIDE DEF I
  <2> QED
    BY <1>4, <1>5, SetInduction, Zenon
<1>7. Len(rs) \in 0 .. Len(rs)
  BY <1>1
<1> QED
  BY <1>1, <1>3, <1>6, <1>7, Zenon

(* A handler that find_handler gives is that of a route.  With it, the     *)
(* handler belongs to a controller in C.                                   *)
LEMMA FoundOwned ==
    ASSUME NEW C, C \subseteq Controllers, NEW reg, FilledBy(reg, C), NEW method, NEW texts,
           NEW f, f = find_handler(reg, method, texts), f.found
    PROVE  f.handler.controller \in C
<1>1. \E x \in RoutesFrom(C) : f.handler = x.handler
  <2> DEFINE key == make_route_key(method, texts)
             matching == {i \in DOMAIN reg.parametric :
                             /\ reg.parametric[i].method = method
                             /\ regex_match(texts, reg.parametric[i].path)}
             P == {create_parametric_route(y.method, y.path, y.handler) : y \in RoutesFrom(C)}
  <2>1. CASE key \in DOMAIN reg.exact
    <3>1. f = Found(reg.exact[key], <<>>)
      BY <2>1, Zenon DEF find_handler
    <3>2. f.handler = reg.exact[key]
      <4> HIDE DEF key
      <4> QED
        BY <3>1 DEF Found
    <3> QED
      BY <2>1, <3>2, Zenon DEF FilledBy
  <2>2. CASE key \notin DOMAIN reg.exact /\ matching = {}
    <3>1. f = NotFound
      BY <2>2, Zenon DEF find_handler
    <3> QED
      BY <3>1 DEF NotFound
  <2>3. CASE key \notin DOMAIN reg.exact /\ matching # {}
    <3>1. PICK first, params : f = Found(first.handler, params) /\ first = reg.parametric[Min(matching)]
      BY <2>3, Zenon DEF find_handler
    <3>2. reg.parametric \in Seq(P)
      BY Zenon DEF FilledBy
    <3>3. matching \subseteq Nat /\ \A i \in matching : reg.parametric[i] \in P
      <4>1. DOMAIN reg.parametric \subseteq Nat /\ \A i \in DOMAIN reg.parametric : reg.parametric[i] \in P
        <5> HIDE DEF P
        <5> QED
          BY <3>2
      <4> QED
        BY <4>1, Zenon
    <3>4. Min(matching) \in matching
      <4> HIDE DEF matching
      <4> QED
        BY <2>3, <3>3, LeastOf, Zenon
    <3>5. PICK y \in RoutesFrom(C) : first = create_parametric_route(y.method, y.path, y.handler)
      BY <3>1, <3>3, <3>4, Zenon
    <3>6. f.handler = y.handler
      BY <3>1, <3>5 DEF Found, create_parametric_route
    <3> QED
      BY <3>6, Zenon
  <2> QED
    BY <2>1, <2>2, <2>3, Zenon
<1>2. PICK c \in C : \E x \in Range(RoutesOf[c]) : f.handler = x.handler
  BY <1>1, Zenon DEF RoutesFrom
<1>3. f.handler.controller = c
  BY <1>2, RoutesAssumption, Zenon
<1> QED
  BY <1>2, <1>3, Zenon

-----------------------------------------------------------------------------
(* add_controller: the routes of a controller reach the registry of the    *)
(* server with its initialization.                                         *)

LEMMA PrefixOf ==
    ASSUME NEW S, NEW T, T \subseteq S, NEW rs \in Seq(T), NEW n \in 0 .. Len(rs)
    PROVE  SubSeq(rs, 1, n) \in Seq(S)
<1>1. \A i \in 1 .. Len(rs) : rs[i] \in T
  OBVIOUS
<1>2. \A i \in 1 .. n : i \in 1 .. Len(rs)
  OBVIOUS
<1>3. n \in Int /\ 1 \in Int
  OBVIOUS
<1>4. \A i \in 1 .. n : rs[i] \in S
  BY <1>1, <1>2, Zenon
<1> QED
  BY <1>3, <1>4

LEMMA RoutesAdded ==
    ASSUME NEW c \in Controllers, NEW done \in 0 .. Len(RoutesOf[c])
    PROVE  SubSeq(RoutesOf[c], 1, done) \in Seq(RoutesFrom({c}))
<1>1. Range(RoutesOf[c]) \subseteq RoutesFrom({c})
  BY Zenon DEF RoutesFrom
<1>2. RoutesOf[c] \in Seq(Range(RoutesOf[c]))
  BY RoutesAssumption, Zenon
<1> QED
  BY <1>1, <1>2, PrefixOf, Zenon

LEMMA RegistryQuiet ==
    ASSUME RegistryInv, registry' = registry, own' = own, initialized' = initialized
    PROVE  RegistryInv'
BY Zenon DEF RegistryInv

LEMMA AddControllerInv ==
    ASSUME RegistryInv, NEW c \in Controllers, AddController(c)
    PROVE  RegistryInv' /\ initialized \subseteq initialized'
<1>1. PICK throws \in {"no", "configure_routes", "initialize"}, done \in 0 .. Len(RoutesOf[c]) :
        LET reg == AddRoutes(own[c], SubSeq(RoutesOf[c], 1, done))
        IN  /\ throws = "no" => /\ registry' = merge(registry, reg)
                                /\ own' = [own EXCEPT ![c] = EmptyRegistry]
                                /\ initialized' = initialized \cup {c}
            /\ throws # "no" => /\ own' = [own EXCEPT ![c] = reg]
                                /\ registry' = registry /\ initialized' = initialized
  BY Zenon DEF AddController
<1>2. PICK reg : reg = AddRoutes(own[c], SubSeq(RoutesOf[c], 1, done))
  BY Zenon
<1>3. FilledBy(reg, {c})
  <2>1. SubSeq(RoutesOf[c], 1, done) \in Seq(RoutesFrom({c}))
    BY RoutesAdded, Zenon
  <2>2. FilledBy(own[c], {c})
    BY Zenon DEF RegistryInv
  <2> QED
    BY <1>2, <2>1, <2>2, FilledAddRoutes, Zenon
<1>4. CASE throws = "no"
  <2>1. /\ registry' = merge(registry, reg)
        /\ own' = [own EXCEPT ![c] = EmptyRegistry]
        /\ initialized' = initialized \cup {c}
    BY <1>1, <1>2, <1>4, Zenon
  <2>2. FilledBy(registry, initialized') /\ FilledBy(reg, initialized')
    BY <1>3, <2>1, FilledGrow, Zenon DEF RegistryInv
  <2>3. FilledBy(registry', initialized')
    BY <2>1, <2>2, FilledMerge, Zenon
  <2>4. own' = [d \in Controllers |-> own'[d]] /\ \A d \in Controllers : FilledBy(own'[d], {d})
    BY <2>1, FilledEmpty, Zenon DEF RegistryInv
  <2> QED
    BY <2>1, <2>3, <2>4, Zenon DEF RegistryInv
<1>5. CASE throws # "no"
  <2>1. own' = [own EXCEPT ![c] = reg] /\ registry' = registry /\ initialized' = initialized
    BY <1>1, <1>2, <1>5, Zenon
  <2>2. own' = [d \in Controllers |-> own'[d]] /\ \A d \in Controllers : FilledBy(own'[d], {d})
    BY <1>3, <2>1, Zenon DEF RegistryInv
  <2> QED
    BY <2>1, <2>2, Zenon DEF RegistryInv
<1> QED
  BY <1>4, <1>5, Zenon

-----------------------------------------------------------------------------
(* Handlers belong to initialized controllers. *)

LEMMA HandlersQuiet ==
    ASSUME HandlersInv, sess' = sess, initialized \subseteq initialized'
    PROVE  HandlersInv'
BY Zenon DEF HandlersInv, InHandler

LEMMA HandlersMove ==
    ASSUME SessionInv, HandlersInv, NEW n \in Conns, NEW s, sess' = [sess EXCEPT ![n] = s],
           initialized' = initialized,
           s.st \in {"handling", "suspended"} => s.handler.controller \in initialized
    PROVE  HandlersInv'
<1>1. sess = [m \in Conns |-> sess[m]]
  BY Zenon DEF SessionInv
<1>2. sess'[n] = s /\ \A m \in Conns : m # n => sess'[m] = sess[m]
  BY <1>1, Zenon
<1>3. ASSUME NEW m \in Conns, InHandler(m)' PROVE sess'[m].handler.controller \in initialized'
  <2>1. CASE m = n
    BY <1>2, <1>3, <2>1 DEF InHandler
  <2>2. CASE m # n
    BY <1>2, <1>3, <2>2 DEF InHandler, HandlersInv
  <2> QED
    BY <2>1, <2>2, Zenon
<1> QED
  BY <1>3, Zenon DEF HandlersInv

LEMMA ReadRequestHandler ==
    ASSUME SessionInv, RegistryInv, HandlersInv, NEW n \in Conns, NEW r \in Requests,
           ReadRequest(n, r)
    PROVE  HandlersInv'
<1>1. initialized' = initialized
  BY Zenon DEF ReadRequest, SessionStep, configVars
<1>2. PICK f : f = find_handler(registry, r.method, r.path)
  BY Zenon
<1>3. \/ Becomes(n, Closed("dropped"))
      \/ \E ctx : f.found /\ Becomes(n, [st |-> "handling", handler |-> f.handler, awaits |-> 0, ctx |-> ctx])
      \/ \E res : Becomes(n, [st |-> "writing", req |-> r, res |-> res])
  BY <1>2, Zenon DEF ReadRequest, HandleRequest, Respond
<1>4. CASE Becomes(n, Closed("dropped"))
  <2>1. Closed("dropped").st = "closed"
    BY DEF Closed
  <2> QED
    BY <1>1, <1>4, <2>1, HandlersMove, Zenon DEF Becomes
<1>5. ASSUME NEW ctx, f.found, NEW s,
             s = [st |-> "handling", handler |-> f.handler, awaits |-> 0, ctx |-> ctx],
             Becomes(n, s)
      PROVE  HandlersInv'
  <2>1. s.handler = f.handler
    BY <1>5
  <2>2. f.handler.controller \in initialized
    BY <1>2, <1>5, FoundOwned, Zenon DEF RegistryInv
  <2> QED
    BY <1>1, <1>5, <2>1, <2>2, HandlersMove, Zenon DEF Becomes
<1>6. ASSUME NEW res, NEW s, s = [st |-> "writing", req |-> r, res |-> res], Becomes(n, s)
      PROVE  HandlersInv'
  <2>1. s.st = "writing"
    BY <1>6
  <2> QED
    BY <1>1, <1>6, <2>1, HandlersMove, Zenon DEF Becomes
<1> QED
  BY <1>3, <1>4, <1>5, <1>6, Zenon

LEMMA SessionHandler ==
    ASSUME SessionInv, RegistryInv, HandlersInv, NEW n \in Conns, Session(n)
    PROVE  HandlersInv' /\ registry' = registry /\ own' = own /\ initialized' = initialized
<1>0. SessionStep
  BY Zenon DEF Session, HandlerEnds, ReadRequest, ReadEnds, HandlerReads, HandlerSuspends,
               HandlerResumes, HandlerReturns, HandlerThrows, WriteDone, WriteFails
<1>1. registry' = registry /\ own' = own /\ initialized' = initialized
  BY <1>0, Zenon DEF SessionStep, configVars
<1> SUFFICES HandlersInv'
  BY <1>1, Zenon
<1>2. sess[n].st \in {"handling", "suspended"} =>
          {"st", "handler"} \subseteq DOMAIN sess[n] /\ sess[n].handler.controller \in initialized
  BY SessionCase, Zenon DEF HandlersInv, InHandler
<1>3. ASSUME NEW s, s.st \notin {"handling", "suspended"}, Becomes(n, s) PROVE HandlersInv'
  BY <1>1, <1>3, HandlersMove, Zenon DEF Becomes
<1>4. ASSUME NEW s, s.handler = sess[n].handler, sess[n].st \in {"handling", "suspended"},
             Becomes(n, s)
      PROVE  HandlersInv'
  BY <1>1, <1>2, <1>4, HandlersMove, Zenon DEF Becomes
<1>5. \A how : Closed(how).st \notin {"handling", "suspended"}
  BY DEF Closed
<1>6. ASSUME NEW r \in Requests, ReadRequest(n, r) PROVE HandlersInv'
  BY <1>6, ReadRequestHandler, Zenon
<1>7. CASE ReadEnds(n)
  BY <1>3, <1>5, <1>7, Zenon DEF ReadEnds
<1>8. CASE HandlerReads(n)
  <2>1. PICK ctx, s : s = [sess[n] EXCEPT !.ctx = ctx] /\ Becomes(n, s) /\ sess[n].st = "handling"
    BY <1>8, Zenon DEF HandlerReads
  <2>2. s.handler = sess[n].handler
    BY <1>2, <2>1
  <2> QED
    BY <1>4, <2>1, <2>2, Zenon
<1>9. CASE HandlerSuspends(n)
  <2>1. PICK s : /\ s = [sess[n] EXCEPT !.st = "suspended", !.awaits = @ + 1]
                 /\ Becomes(n, s) /\ sess[n].st = "handling"
    BY <1>9, Zenon DEF HandlerSuspends
  <2>2. s.handler = sess[n].handler
    BY <1>2, <2>1
  <2> QED
    BY <1>4, <2>1, <2>2, Zenon
<1>10. CASE HandlerResumes(n)
  <2>1. PICK s : /\ s = [sess[n] EXCEPT !.st = "handling"]
                 /\ Becomes(n, s) /\ sess[n].st = "suspended"
    BY <1>10, Zenon DEF HandlerResumes
  <2>2. s.handler = sess[n].handler
    BY <1>2, <2>1
  <2> QED
    BY <1>4, <2>1, <2>2, Zenon
<1>11. CASE HandlerReturns(n)
  <2>1. PICK r, res, s : /\ s = [st |-> "writing", req |-> r, res |-> res]
                         /\ Becomes(n, s) \/ Becomes(n, Closed("dropped"))
    BY <1>11, Zenon DEF HandlerReturns, Respond
  <2>2. s.st = "writing"
    BY <2>1
  <2> QED
    BY <1>3, <1>5, <2>1, <2>2, Zenon
<1>12. CASE HandlerThrows(n)
  BY <1>3, <1>5, <1>12, Zenon DEF HandlerThrows, SessionThrows
<1>13. CASE WriteDone(n)
  <2>1. PICK s : s = [st |-> "reading"] /\ (Becomes(n, s) \/ Becomes(n, Closed("end")))
    BY <1>13, Zenon DEF WriteDone
  <2>2. s.st = "reading"
    BY <2>1
  <2> QED
    BY <1>3, <1>5, <2>1, <2>2, Zenon
<1>14. CASE WriteFails(n)
  BY <1>3, <1>5, <1>14, Zenon DEF WriteFails, SessionThrows
<1> QED
  BY <1>6, <1>7, <1>8, <1>9, <1>10, <1>11, <1>12, <1>13, <1>14, Zenon
     DEF Session, HandlerEnds

-----------------------------------------------------------------------------
(* The threads of run() *)

LEMMA LifeQuiet ==
    ASSUME LifeInv, idle' = idle, main' = main, stopped' = stopped, ended' = ended, sess' = sess
    PROVE  LifeInv'
BY Zenon DEF LifeInv, NoHandling

(* A session moves only on a thread of run(), before any shutdown(). *)
LEMMA SessionInRun ==
    ASSUME LifeInv, NEW n \in Conns, Free \/ sess[n].st = "handling"
    PROVE  main = "run" /\ ended = {}
<1>1. Free => ~stopped /\ idle # 0
  BY DEF Free, LifeInv
<1> QED
  BY <1>1, Zenon DEF LifeInv, NoHandling

LEMMA LifeSession ==
    ASSUME LifeInv, NEW n \in Conns, Free \/ sess[n].st = "handling",
           main' = main, ended' = ended, stopped' = stopped,
           idle' \in Nat, idle' > 0 \/ sess'[n].st = "handling"
    PROVE  LifeInv'
<1>1. main = "run" /\ ended = {}
  BY SessionInRun, Zenon
<1>2. idle' > 0 \/ ~NoHandling'
  BY Zenon DEF NoHandling
<1> QED
  BY <1>1, <1>2, Zenon DEF LifeInv

LEMMA SessionLife ==
    ASSUME SessionInv, LifeInv, NEW n \in Conns, Session(n)
    PROVE  LifeInv'
<1>0. SessionStep
  BY Zenon DEF Session, HandlerEnds, ReadRequest, ReadEnds, HandlerReads, HandlerSuspends,
               HandlerResumes, HandlerReturns, HandlerThrows, WriteDone, WriteFails
<1>1. main' = main /\ ended' = ended /\ stopped' = stopped
  BY <1>0, Zenon DEF SessionStep, lifeVars
<1>2. idle \in Nat
  BY Zenon DEF LifeInv
<1>3. ASSUME NEW s, Becomes(n, s) PROVE sess'[n] = s
  BY <1>3, Zenon DEF SessionInv, Becomes
<1>4. CASE Free /\ idle' = idle
  <2>1. idle' > 0
    BY <1>4, Zenon DEF Free
  <2> QED
    BY <1>1, <1>2, <1>4, <2>1, LifeSession, Zenon
<1>5. ASSUME Free, idle' = idle - 1, sess'[n].st = "handling" PROVE LifeInv'
  <2>1. idle' \in Nat
    BY <1>2, <1>5 DEF Free
  <2> QED
    BY <1>1, <1>5, <2>1, LifeSession, Zenon
<1>6. ASSUME sess[n].st = "handling", idle' = idle + 1 PROVE LifeInv'
  <2>1. idle' \in Nat /\ idle' > 0
    BY <1>2, <1>6
  <2> QED
    BY <1>1, <1>6, <2>1, LifeSession, Zenon
<1>7. ASSUME NEW r \in Requests, ReadRequest(n, r) PROVE LifeInv'
  <2>1. Free /\ (\/ idle' = idle
                 \/ \E h, ctx : /\ idle' = idle - 1
                                /\ Becomes(n, [st |-> "handling", handler |-> h, awaits |-> 0,
                                               ctx |-> ctx]))
    BY <1>7, Zenon DEF ReadRequest, HandleRequest
  <2>2. ASSUME NEW h, NEW ctx, NEW s,
               s = [st |-> "handling", handler |-> h, awaits |-> 0, ctx |-> ctx], Becomes(n, s)
        PROVE  sess'[n].st = "handling"
    <3>1. s.st = "handling"
      BY <2>2
    <3> QED
      BY <1>3, <2>2, <3>1, Zenon
  <2> QED
    BY <1>4, <1>5, <2>1, <2>2, Zenon
<1>8. CASE ReadEnds(n)
  BY <1>4, <1>8, Zenon DEF ReadEnds
<1>9. CASE HandlerReads(n)
  <2>1. PICK ctx, s : s = [sess[n] EXCEPT !.ctx = ctx] /\ Becomes(n, s)
    BY <1>9, Zenon DEF HandlerReads
  <2>2. sess[n].st = "handling" /\ idle' = idle
    BY <1>9, Zenon DEF HandlerReads
  <2>3. s.st = "handling"
    BY <2>1, <2>2, SessionCase
  <2> QED
    BY <1>1, <1>2, <1>3, <2>1, <2>2, <2>3, LifeSession, Zenon
<1>10. CASE HandlerSuspends(n)
  BY <1>6, <1>10, Zenon DEF HandlerSuspends
<1>11. CASE HandlerResumes(n)
  <2>1. PICK s : s = [sess[n] EXCEPT !.st = "handling"] /\ Becomes(n, s)
    BY <1>11, Zenon DEF HandlerResumes
  <2>2. Free /\ sess[n].st = "suspended" /\ idle' = idle - 1
    BY <1>11, Zenon DEF HandlerResumes
  <2>3. s.st = "handling"
    BY <2>1, <2>2, SessionCase
  <2> QED
    BY <1>3, <1>5, <2>1, <2>2, <2>3, Zenon
<1>12. CASE HandlerReturns(n)
  BY <1>6, <1>12, Zenon DEF HandlerReturns
<1>13. CASE HandlerThrows(n)
  BY <1>6, <1>13, Zenon DEF HandlerThrows
<1>14. CASE WriteDone(n)
  BY <1>4, <1>14, Zenon DEF WriteDone
<1>15. CASE WriteFails(n)
  BY <1>4, <1>15, Zenon DEF WriteFails
<1> QED
  BY <1>7, <1>8, <1>9, <1>10, <1>11, <1>12, <1>13, <1>14, <1>15, Zenon DEF Session, HandlerEnds

LEMMA ServerNext ==
    ASSUME ServerInv, [Next]_vars
    PROVE  ServerInv'
<1>1. SessionInv /\ RegistryInv /\ HandlersInv /\ LifeInv
  BY Zenon DEF ServerInv
<1> SUFFICES RegistryInv' /\ HandlersInv' /\ LifeInv'
  BY <1>1, SessionNext, Zenon DEF ServerInv
<1> DEFINE configQuiet == registry' = registry /\ own' = own /\ initialized' = initialized
<1>2. ASSUME configQuiet, sess' = sess, LifeInv' PROVE RegistryInv' /\ HandlersInv' /\ LifeInv'
  BY <1>1, <1>2, RegistryQuiet, HandlersQuiet, Zenon
<1>3. ASSUME configQuiet, sess' = sess, idle' = idle, main' = main, stopped' = stopped, ended' = ended
      PROVE  RegistryInv' /\ HandlersInv' /\ LifeInv'
  BY <1>1, <1>2, <1>3, LifeQuiet, Zenon
<1>4. ASSUME NEW c \in Controllers, AddController(c)
      PROVE  RegistryInv' /\ HandlersInv' /\ LifeInv'
  <2>1. idle' = idle /\ main' = main /\ stopped' = stopped /\ ended' = ended /\ sess' = sess
    BY <1>4, Zenon DEF AddController, lifeVars
  <2>2. RegistryInv' /\ initialized \subseteq initialized'
    BY <1>1, <1>4, AddControllerInv, Zenon
  <2> QED
    BY <1>1, <2>1, <2>2, HandlersQuiet, LifeQuiet, Zenon
<1>5. ASSUME NEW k \in AsyncKinds, RunJob(k) PROVE RegistryInv' /\ HandlersInv' /\ LifeInv'
  BY <1>3, <1>5, Zenon DEF RunJob, configVars, lifeVars
<1>6. CASE listen
  BY <1>3, <1>6, Zenon DEF listen, configVars
<1>7. CASE run
  <2>1. configQuiet /\ sess' = sess /\ main' = "run" /\ idle' = thread_count
        /\ stopped' = stopped /\ ended' = ended
    BY <1>7, Zenon DEF run, configVars
  <2>2. idle' \in Nat /\ idle' > 0
    BY <2>1, ThreadAssumption
  <2>3. LifeInv'
    BY <1>1, <2>1, <2>2, Zenon DEF LifeInv, NoHandling
  <2> QED
    BY <1>2, <2>1, <2>3, Zenon
<1>8. CASE JoinAndStopCallbacks
  <2>1. /\ configQuiet /\ sess' = sess /\ idle' = idle /\ stopped' = stopped /\ ended' = ended
        /\ main = "run" /\ idle = 0 /\ NoHandling /\ main' \in {"shutdown", "returned"}
    BY <1>8, Zenon DEF JoinAndStopCallbacks, configVars, NoHandling
  <2>2. stopped
    <3>1. ~ (idle > 0)
      BY <2>1
    <3> QED
      BY <1>1, <2>1, <3>1, Zenon DEF LifeInv
  <2>3. LifeInv'
    BY <1>1, <2>1, <2>2, Zenon DEF LifeInv, NoHandling
  <2> QED
    BY <1>2, <2>1, <2>3, Zenon
<1>9. CASE ShutdownControllers
  <2>1. /\ configQuiet /\ sess' = sess /\ idle' = idle /\ stopped' = stopped
        /\ main = "shutdown" /\ main' = "returned"
    BY <1>9, Zenon DEF ShutdownControllers, configVars
  <2>2. stopped /\ NoHandling
    BY <1>1, <2>1, Zenon DEF LifeInv
  <2>3. LifeInv'
    BY <1>1, <2>1, <2>2, Zenon DEF LifeInv, NoHandling
  <2> QED
    BY <1>2, <2>1, <2>3, Zenon
<1>10. CASE StopBegins
  BY <1>3, <1>10, Zenon DEF StopBegins, configVars
<1>11. CASE stop
  <2>1. /\ configQuiet /\ sess' = sess /\ idle' = idle /\ stopped' = TRUE
        /\ main' = main /\ ended' = ended
    BY <1>11, Zenon DEF stop, configVars
  <2>2. LifeInv'
    BY <1>1, <2>1, Zenon DEF LifeInv, NoHandling
  <2> QED
    BY <1>2, <2>1, <2>2, Zenon
<1>12. CASE Signal
  BY <1>3, <1>12, Zenon DEF Signal, configVars
<1>13. CASE Destroy
  <2>1. /\ configQuiet /\ sess' = sess /\ idle' = idle /\ ended' = ended
        /\ main \in {"config", "returned"} /\ main' = "destroyed" /\ (stopped => stopped')
    BY <1>13, Zenon DEF Destroy, AtApp, configVars
  <2>2. LifeInv'
    BY <1>1, <2>1, Zenon DEF LifeInv, NoHandling
  <2> QED
    BY <1>2, <2>1, <2>2, Zenon
<1>14. CASE ThreadReturns
  <2>1. /\ configQuiet /\ sess' = sess /\ idle' = idle - 1 /\ idle > 0 /\ stopped
        /\ main' = main /\ stopped' = stopped /\ ended' = ended
    BY <1>14, Zenon DEF ThreadReturns, configVars, lifeVars
  <2>2. idle' \in Nat
    BY <1>1, <2>1 DEF LifeInv
  <2>3. LifeInv'
    BY <1>1, <2>1, <2>2, Zenon DEF LifeInv, NoHandling
  <2> QED
    BY <1>2, <2>1, <2>3, Zenon
<1>15. CASE AcceptStarts
  BY <1>3, <1>15, Zenon DEF AcceptStarts, configVars, lifeVars
<1>16. CASE AcceptFails
  BY <1>3, <1>16, Zenon DEF AcceptFails, configVars, lifeVars
<1>17. ASSUME NEW n \in Conns, Accept(n) PROVE RegistryInv' /\ HandlersInv' /\ LifeInv'
  <2>1. /\ configQuiet /\ idle' = idle /\ main' = main /\ stopped' = stopped /\ ended' = ended
        /\ Free
    BY <1>17, Zenon DEF Accept, configVars, lifeVars
  <2>2. PICK s : s = [st |-> "reading"] /\ sess' = [sess EXCEPT ![n] = s]
    BY <1>17, Zenon DEF Accept
  <2>3. s.st = "reading"
    BY <2>2
  <2>4. HandlersInv'
    BY <1>1, <2>1, <2>2, <2>3, HandlersMove, Zenon
  <2>5. idle' \in Nat /\ idle' > 0
    BY <1>1, <2>1, Zenon DEF LifeInv, Free
  <2> QED
    BY <1>1, <2>1, <2>4, <2>5, RegistryQuiet, LifeSession, Zenon
<1>18. ASSUME NEW n \in Conns, Session(n) PROVE RegistryInv' /\ HandlersInv' /\ LifeInv'
  BY <1>1, <1>18, SessionHandler, SessionLife, RegistryQuiet, Zenon
<1>19. CASE UNCHANGED vars
  BY <1>3, <1>19, Zenon DEF vars
<1> QED
  BY <1>4, <1>5, <1>6, <1>7, <1>8, <1>9, <1>10, <1>11, <1>12, <1>13, <1>14, <1>15, <1>16,
     <1>17, <1>18, <1>19, Zenon DEF Next

LEMMA ServerInit ==
    ASSUME Init
    PROVE  ServerInv
<1>1. SessionInv
  BY SessionInit, Zenon
<1>2. RegistryInv
  <2>1. /\ initialized = {} /\ registry = EmptyRegistry
        /\ own = [c \in Controllers |-> EmptyRegistry]
    BY Zenon DEF Init
  <2> QED
    BY <2>1, FilledEmpty, Zenon DEF RegistryInv
<1>3. \A n \in Conns : sess[n].st = "none"
  <2>1. \A n \in Conns : sess[n] = NoSession
    BY Zenon DEF Init
  <2>2. NoSession.st = "none"
    BY DEF NoSession
  <2> QED
    BY <2>1, <2>2, Zenon
<1>4. HandlersInv /\ NoHandling
  BY <1>3 DEF HandlersInv, InHandler, NoHandling
<1>5. idle = 0 /\ main = "config" /\ ended = {} /\ ~stopped
  BY Zenon DEF Init
<1>6. LifeInv
  BY <1>4, <1>5 DEF LifeInv
<1> QED
  BY <1>1, <1>2, <1>4, <1>6, Zenon DEF ServerInv

(* No thread is inside a handler of a controller that is not initialized,  *)
(* or whose shutdown() has been called: add_controller moves the routes    *)
(* after initialize(), and run() shuts the controllers down only after the *)
(* join of its threads, which only a stop lets return.                     *)
THEOREM ServerKeepsControllersAlive == Spec => []ControllersAlive
<1>1. Init => ServerInv
  BY ServerInit, Zenon
<1>2. ServerInv /\ [Next]_vars => ServerInv'
  BY ServerNext, Zenon
<1>3. ServerInv => ControllersAlive
  <2> SUFFICES ASSUME ServerInv, NEW n \in Conns, sess[n].st = "handling"
               PROVE  sess[n].handler.controller \in initialized \ ended
    BY Zenon DEF ControllersAlive
  <2>1. sess[n].handler.controller \in initialized
    BY Zenon DEF ServerInv, HandlersInv, InHandler
  <2>2. ended = {}
    BY Zenon DEF ServerInv, LifeInv, NoHandling
  <2> QED
    BY <2>1, <2>2, Zenon
<1> QED
  BY <1>1, <1>2, <1>3, PTL DEF Spec

-----------------------------------------------------------------------------
(* A registry and the calls of add_route behind it. *)

LEMMA ConcatParts ==
    ASSUME NEW S, NEW s \in Seq(S), NEW t \in Seq(S), NEW u, u = s \o t
    PROVE  /\ u \in Seq(S) /\ Len(u) = Len(s) + Len(t) /\ Len(s) \in Nat /\ Len(t) \in Nat
           /\ DOMAIN u = 1 .. Len(s) + Len(t)
           /\ DOMAIN s = 1 .. Len(s) /\ DOMAIN t = 1 .. Len(t)
           /\ \A i \in 1 .. Len(s) : i \in DOMAIN u /\ u[i] = s[i]
           /\ \A i \in 1 .. Len(t) : Len(s) + i \in DOMAIN u /\ u[Len(s) + i] = t[i]
<1>1. /\ u \in Seq(S) /\ Len(u) = Len(s) + Len(t) /\ Len(s) \in Nat /\ Len(t) \in Nat
      /\ DOMAIN u = 1 .. Len(s) + Len(t)
      /\ DOMAIN s = 1 .. Len(s) /\ DOMAIN t = 1 .. Len(t)
  OBVIOUS
<1>2. \A i \in 1 .. Len(s) : i \in DOMAIN u /\ u[i] = s[i]
  OBVIOUS
<1>3. \A i \in 1 .. Len(t) : Len(s) + i \in DOMAIN u /\ u[Len(s) + i] = t[i]
  OBVIOUS
<1> QED
  BY <1>1, <1>2, <1>3, Zenon

LEMMA ConcatIndex ==
    ASSUME NEW S, NEW s \in Seq(S), NEW t \in Seq(S), NEW u, u = s \o t, NEW i \in DOMAIN u
    PROVE  i \in DOMAIN s \/ \E j \in DOMAIN t : i = Len(s) + j
<1> SUFFICES ASSUME i \notin DOMAIN s PROVE \E j \in DOMAIN t : i = Len(s) + j
  BY Zenon
<1>1. i - Len(s) \in DOMAIN t /\ i = Len(s) + (i - Len(s))
  OBVIOUS
<1> QED
  BY <1>1, Zenon

(* The list of parametric routes after merge(). *)
LEMMA ListedConcat ==
    ASSUME NEW P, NEW R, NEW list \in Seq(P), NEW more \in Seq(P), NEW rs \in Seq(R), NEW ss \in Seq(R),
           NEW at \in [1 .. Len(list) -> DOMAIN rs], Listed(list, rs, at),
           NEW bt \in [1 .. Len(more) -> DOMAIN ss], Listed(more, ss, bt),
           NEW all, all = list \o more, NEW ts, ts = rs \o ss
    PROVE  \E ct \in [1 .. Len(all) -> DOMAIN ts] : Listed(all, ts, ct)
<1>1. PICK p \in Nat, q \in Nat, m \in Nat, k \in Nat :
          p = Len(list) /\ q = Len(more) /\ m = Len(rs) /\ k = Len(ss)
  OBVIOUS
<1>2. /\ Len(all) = p + q
      /\ \A a \in 1 .. p : all[a] = list[a]
      /\ \A a \in 1 .. q : all[p + a] = more[a]
  BY <1>1, ConcatParts
<1>3. /\ DOMAIN ts = 1 .. m + k /\ DOMAIN rs = 1 .. m /\ DOMAIN ss = 1 .. k
      /\ \A i \in 1 .. m : ts[i] = rs[i]
      /\ \A i \in 1 .. k : ts[m + i] = ss[i]
      /\ \A i \in DOMAIN ts : i \in 1 .. m \/ \E j \in 1 .. k : i = m + j
  <2>1. /\ DOMAIN ts = 1 .. Len(rs) + Len(ss) /\ DOMAIN rs = 1 .. Len(rs) /\ DOMAIN ss = 1 .. Len(ss)
        /\ \A i \in 1 .. Len(rs) : ts[i] = rs[i]
        /\ \A i \in 1 .. Len(ss) : ts[Len(rs) + i] = ss[i]
    BY ConcatParts
  <2>2. ASSUME NEW i \in 1 .. m + k, i \notin 1 .. m PROVE \E j \in 1 .. k : i = m + j
    <3>1. i - m \in 1 .. k /\ i = m + (i - m)
      BY <2>2
    <3> QED
      BY <3>1, Zenon
  <2> QED
    BY <1>1, <2>1, <2>2, Zenon
<1> DEFINE ct == [a \in 1 .. p + q |-> IF a <= p THEN at[a] ELSE m + bt[a - p]]
<1>4. \A a \in 1 .. p : ct[a] = at[a] /\ at[a] \in 1 .. m
  <2>1. \A a \in 1 .. p : a \in 1 .. p + q /\ a <= p
    OBVIOUS
  <2> QED
    BY <1>1, <1>3, <2>1, Zenon
<1>5. \A a \in 1 .. q : ct[p + a] = m + bt[a] /\ bt[a] \in 1 .. k
  <2>1. \A a \in 1 .. q : p + a \in 1 .. p + q /\ ~ (p + a <= p) /\ (p + a) - p = a
    OBVIOUS
  <2> QED
    BY <1>1, <1>3, <2>1, Zenon
<1>6. \A a \in 1 .. p + q : a \in 1 .. p \/ \E b \in 1 .. q : a = p + b
  <2> SUFFICES ASSUME NEW a \in 1 .. p + q, a \notin 1 .. p PROVE \E b \in 1 .. q : a = p + b
    BY Zenon
  <2>1. a - p \in 1 .. q /\ a = p + (a - p)
    OBVIOUS
  <2> QED
    BY <2>1, Zenon
<1>7. ct \in [1 .. Len(all) -> DOMAIN ts]
  <2>1. ASSUME NEW a \in 1 .. p + q PROVE ct[a] \in 1 .. m + k
    <3>1. CASE a \in 1 .. p
      <4>1. ct[a] \in 1 .. m
        BY <1>4, <3>1, Zenon
      <4> HIDE DEF ct
      <4> QED
        BY <4>1
    <3>2. CASE a \notin 1 .. p
      <4>1. PICK b \in 1 .. q : a = p + b
        BY <1>6, <3>2, Zenon
      <4>2. ct[a] = m + bt[b] /\ bt[b] \in 1 .. k
        BY <1>5, <4>1, Zenon
      <4> QED
        BY <4>2, SMTT(30)
    <3> QED
      BY <3>1, <3>2, Zenon
  <2> QED
    BY <1>2, <1>3, <2>1, Zenon
<1> HIDE DEF ct
<1>8. ASSUME NEW a \in 1 .. p + q, NEW b \in 1 .. p + q, a < b PROVE ct[a] < ct[b]
  <2>1. CASE b \in 1 .. p
    <3>1. a \in 1 .. p
      BY <1>8, <2>1
    <3> QED
      BY <1>1, <1>4, <1>8, <2>1, <3>1, Zenon DEF Listed
  <2>2. CASE b \notin 1 .. p /\ a \in 1 .. p
    <3>1. PICK d \in 1 .. q : b = p + d
      BY <1>6, <2>2, Zenon
    <3>2. ct[a] \in 1 .. m /\ ct[b] = m + bt[d] /\ bt[d] \in 1 .. k
      BY <1>4, <1>5, <2>2, <3>1, Zenon
    <3> QED
      BY <3>2
  <2>3. CASE b \notin 1 .. p /\ a \notin 1 .. p
    <3>1. PICK d \in 1 .. q : b = p + d
      BY <1>6, <2>3, Zenon
    <3>2. PICK c \in 1 .. q : a = p + c
      BY <1>6, <2>3, Zenon
    <3>3. ct[a] = m + bt[c] /\ ct[b] = m + bt[d] /\ bt[c] \in 1 .. k /\ bt[d] \in 1 .. k
      BY <1>5, <3>1, <3>2, Zenon
    <3>4. c < d
      BY <1>8, <3>1, <3>2
    <3>5. bt[c] < bt[d]
      BY <1>1, <3>4, Zenon DEF Listed
    <3> QED
      BY <3>3, <3>5
  <2> QED
    BY <2>1, <2>2, <2>3, Zenon
<1>9. ASSUME NEW i \in DOMAIN ts, is_parametric_path(ts[i].path)
      PROVE  \E a \in 1 .. p + q : ct[a] = i
  <2>1. CASE i \in 1 .. m
    <3>1. is_parametric_path(rs[i].path)
      BY <1>3, <1>9, <2>1, Zenon
    <3>2. PICK a \in 1 .. p : at[a] = i
      BY <1>1, <1>3, <2>1, <3>1, Zenon DEF Listed
    <3>3. a \in 1 .. p + q
      OBVIOUS
    <3> QED
      BY <1>4, <3>2, <3>3, Zenon
  <2>2. ASSUME NEW j \in 1 .. k, i = m + j PROVE \E a \in 1 .. p + q : ct[a] = i
    <3>1. is_parametric_path(ss[j].path)
      BY <1>3, <1>9, <2>2, Zenon
    <3>2. PICK a \in 1 .. q : bt[a] = j
      BY <1>1, <1>3, <2>2, <3>1, Zenon DEF Listed
    <3>3. p + a \in 1 .. p + q
      OBVIOUS
    <3> QED
      BY <1>5, <2>2, <3>2, <3>3, Zenon
  <2> QED
    BY <1>3, <2>1, <2>2, Zenon
<1>10. ASSUME NEW a \in 1 .. p + q
       PROVE  is_parametric_path(ts[ct[a]].path) /\ all[a] = Parametric(ts[ct[a]])
  <2>1. CASE a \in 1 .. p
    <3>1. ct[a] = at[a] /\ ts[at[a]] = rs[at[a]] /\ all[a] = list[a]
      BY <1>2, <1>3, <1>4, <2>1, Zenon
    <3> QED
      BY <1>1, <2>1, <3>1, Zenon DEF Listed
  <2>2. ASSUME NEW b \in 1 .. q, a = p + b
        PROVE  is_parametric_path(ts[ct[a]].path) /\ all[a] = Parametric(ts[ct[a]])
    <3>1. ct[a] = m + bt[b] /\ ts[m + bt[b]] = ss[bt[b]] /\ all[a] = more[b]
      BY <1>2, <1>3, <1>5, <2>2, Zenon
    <3> QED
      BY <1>1, <3>1, Zenon DEF Listed
  <2> QED
    BY <1>6, <2>1, <2>2, Zenon
<1>11. Listed(all, ts, ct)
  BY <1>2, <1>8, <1>9, <1>10, Zenon DEF Listed
<1> QED
  BY <1>7, <1>11, Zenon

(* The calls of add_route for one key, when those of ss come after rs. *)
LEMMA LastConcat ==
    ASSUME NEW R, NEW rs \in Seq(R), NEW ss \in Seq(R), NEW ts, ts = rs \o ss, NEW k, NEW i
    PROVE  /\ LastFor(ss, k, i) => LastFor(ts, k, Len(rs) + i)
           /\ LastFor(rs, k, i) /\ (\A j \in DOMAIN ss : ~IsExact(ss[j], k)) => LastFor(ts, k, i)
<1>1. PICK m \in Nat, l \in Nat : m = Len(rs) /\ l = Len(ss)
  OBVIOUS
<1>2. /\ DOMAIN ts = 1 .. m + l /\ DOMAIN rs = 1 .. m /\ DOMAIN ss = 1 .. l
      /\ \A j \in 1 .. m : ts[j] = rs[j]
      /\ \A j \in 1 .. l : ts[m + j] = ss[j]
  BY <1>1, ConcatParts
<1>3. ASSUME NEW j \in 1 .. m + l, j \notin 1 .. m PROVE \E d \in 1 .. l : j = m + d
  <2>1. j - m \in 1 .. l /\ j = m + (j - m)
    BY <1>3
  <2> QED
    BY <2>1, Zenon
<1>4. ASSUME LastFor(ss, k, i) PROVE LastFor(ts, k, m + i)
  <2>1. i \in 1 .. l /\ IsExact(ss[i], k) /\ \A j \in 1 .. l : IsExact(ss[j], k) => j <= i
    BY <1>2, <1>4, Zenon DEF LastFor
  <2>2. m + i \in 1 .. m + l
    BY <2>1
  <2>3. IsExact(ts[m + i], k)
    BY <1>2, <2>1, Zenon
  <2>4. ASSUME NEW j \in 1 .. m + l, IsExact(ts[j], k) PROVE j <= m + i
    <3>1. CASE j \in 1 .. m
      BY <2>1, <3>1
    <3>2. CASE j \notin 1 .. m
      <4>1. PICK d \in 1 .. l : j = m + d
        BY <1>3, <3>2, Zenon
      <4>2. d <= i
        BY <1>2, <2>1, <2>4, <4>1, Zenon
      <4> QED
        BY <2>1, <4>1, <4>2
    <3> QED
      BY <3>1, <3>2, Zenon
  <2> QED
    BY <1>2, <2>2, <2>3, <2>4, Zenon DEF LastFor
<1>5. ASSUME LastFor(rs, k, i), \A j \in DOMAIN ss : ~IsExact(ss[j], k) PROVE LastFor(ts, k, i)
  <2>1. i \in 1 .. m /\ IsExact(rs[i], k) /\ \A j \in 1 .. m : IsExact(rs[j], k) => j <= i
    BY <1>2, <1>5, Zenon DEF LastFor
  <2>2. i \in 1 .. m + l
    BY <2>1
  <2>3. IsExact(ts[i], k)
    BY <1>2, <2>1, Zenon
  <2>4. ASSUME NEW j \in 1 .. m + l, IsExact(ts[j], k) PROVE j <= i
    <3>1. CASE j \in 1 .. m
      BY <1>2, <2>1, <2>4, <3>1, Zenon
    <3>2. CASE j \notin 1 .. m
      <4>1. PICK d \in 1 .. l : j = m + d
        BY <1>3, <3>2, Zenon
      <4> QED
        BY <1>2, <1>5, <2>4, <4>1, Zenon
    <3> QED
      BY <3>1, <3>2, Zenon
  <2> QED
    BY <1>2, <2>2, <2>3, <2>4, Zenon DEF LastFor
<1> QED
  BY <1>1, <1>4, <1>5, Zenon

(* merge() makes of two registries the one that the calls behind the first *)
(* and then those behind the second make.                                  *)
LEMMA RepresentsMerge ==
    ASSUME NEW reg, NEW rs, Represents(reg, rs), NEW other, NEW ss, Represents(other, ss),
           NEW ts, ts = rs \o ss
    PROVE  Represents(merge(reg, other), ts)
<1> DEFINE P == {Parametric(x) : x \in AllRoutes}
<1>1. PICK g, p : g = Overwritten(reg.exact, other.exact) /\ p = reg.parametric \o other.parametric
  BY Zenon
<1>2. PICK new : new = merge(reg, other) /\ new = [exact |-> g, parametric |-> p]
  BY <1>1, Zenon DEF merge
<1>3. new.exact = g /\ new.parametric = p
  BY <1>2
<1>4. g = [k \in DOMAIN reg.exact \cup DOMAIN other.exact |->
              IF k \in DOMAIN other.exact THEN other.exact[k] ELSE reg.exact[k]]
  BY <1>1, Zenon DEF Overwritten
<1>5. g = [k \in DOMAIN g |-> g[k]]
  BY <1>4, Zenon
<1>6. rs \in Seq(AllRoutes) /\ ss \in Seq(AllRoutes)
  BY Zenon DEF Represents
<1>7. /\ ts \in Seq(AllRoutes)
      /\ \A i \in DOMAIN rs : i \in DOMAIN ts /\ ts[i] = rs[i]
      /\ \A i \in DOMAIN ss : Len(rs) + i \in DOMAIN ts /\ ts[Len(rs) + i] = ss[i]
  <2> HIDE DEF P
  <2> QED
    BY <1>6, ConcatParts
<1>8. \A k \in DOMAIN g : \E i \in DOMAIN ts : LastFor(ts, k, i) /\ g[k] = ts[i].handler
  <2> SUFFICES ASSUME NEW k \in DOMAIN g
               PROVE  \E i \in DOMAIN ts : LastFor(ts, k, i) /\ g[k] = ts[i].handler
    BY Zenon
  <2>1. CASE k \in DOMAIN other.exact
    <3>1. PICK i \in DOMAIN ss : LastFor(ss, k, i) /\ other.exact[k] = ss[i].handler
      BY <2>1, Zenon DEF Represents
    <3>2. LastFor(ts, k, Len(rs) + i)
      BY <1>6, <3>1, LastConcat, Zenon
    <3>3. g[k] = other.exact[k]
      BY <1>4, <2>1, Zenon
    <3> QED
      BY <1>7, <3>1, <3>2, <3>3, Zenon
  <2>2. CASE k \notin DOMAIN other.exact
    <3>1. k \in DOMAIN reg.exact /\ g[k] = reg.exact[k]
      BY <1>4, <2>2, Zenon
    <3>2. PICK i \in DOMAIN rs : LastFor(rs, k, i) /\ reg.exact[k] = rs[i].handler
      BY <3>1, Zenon DEF Represents
    <3>3. \A j \in DOMAIN ss : ~IsExact(ss[j], k)
      BY <2>2, Zenon DEF Represents, IsExact
    <3>4. LastFor(ts, k, i)
      BY <1>6, <3>2, <3>3, LastConcat, Zenon
    <3> QED
      BY <1>7, <3>1, <3>2, <3>4, Zenon
  <2> QED
    BY <2>1, <2>2, Zenon
<1>9. \A i \in DOMAIN ts : ~is_parametric_path(ts[i].path) => KeyOf(ts[i]) \in DOMAIN g
  <2> SUFFICES ASSUME NEW i \in DOMAIN ts, ~is_parametric_path(ts[i].path)
               PROVE  KeyOf(ts[i]) \in DOMAIN g
    BY Zenon
  <2>1. i \in DOMAIN rs \/ \E j \in DOMAIN ss : i = Len(rs) + j
    BY <1>6, ConcatIndex
  <2>2. CASE i \in DOMAIN rs
    <3>1. KeyOf(rs[i]) \in DOMAIN reg.exact
      BY <1>7, <2>2, Zenon DEF Represents
    <3> QED
      BY <1>4, <1>7, <2>2, <3>1, Zenon
  <2>3. ASSUME NEW j \in DOMAIN ss, i = Len(rs) + j PROVE KeyOf(ts[i]) \in DOMAIN g
    <3>1. KeyOf(ss[j]) \in DOMAIN other.exact
      BY <1>7, <2>3, Zenon DEF Represents
    <3> QED
      BY <1>4, <1>7, <2>3, <3>1, Zenon
  <2> QED
    BY <2>1, <2>2, <2>3, Zenon
<1>10. reg.parametric \in Seq(P) /\ other.parametric \in Seq(P)
  BY Zenon DEF Represents
<1>11. p \in Seq(P)
  <2> HIDE DEF P
  <2> QED
    BY <1>1, <1>10
<1>12. \E at \in [1 .. Len(p) -> DOMAIN ts] : Listed(p, ts, at)
  <2>1. PICK at \in [1 .. Len(reg.parametric) -> DOMAIN rs] : Listed(reg.parametric, rs, at)
    BY Zenon DEF Represents
  <2>2. PICK bt \in [1 .. Len(other.parametric) -> DOMAIN ss] : Listed(other.parametric, ss, bt)
    BY Zenon DEF Represents
  <2> HIDE DEF P
  <2> QED
    BY <1>1, <1>6, <1>10, <2>1, <2>2, ListedConcat, Zenon
<1>13. Represents(new, ts)
  BY <1>2, <1>3, <1>5, <1>7, <1>8, <1>9, <1>11, <1>12, Zenon DEF Represents
<1> QED
  BY <1>2, <1>13, Zenon

(* add_route() is merge() with a registry of this one route. *)
LEMMA AddIsMerge ==
    ASSUME NEW reg, NEW rs, Represents(reg, rs), NEW x \in AllRoutes
    PROVE  add_route(reg, x.method, x.path, x.handler) =
               merge(reg, add_route(EmptyRegistry, x.method, x.path, x.handler))
<1> DEFINE P == {Parametric(y) : y \in AllRoutes}
<1>1. PICK e, p : reg = [exact |-> e, parametric |-> p]
  BY Zenon DEF Represents
<1>2. e = [k \in DOMAIN e |-> e[k]] /\ p \in Seq(P)
  BY <1>1 DEF Represents
<1>3. PICK route : route = create_parametric_route(x.method, x.path, x.handler)
  BY Zenon
<1>4. PICK one : one = [k \in {KeyOf(x)} |-> x.handler]
  BY Zenon
<1>5. CASE is_parametric_path(x.path)
  <2>1. add_route(reg, x.method, x.path, x.handler) = [exact |-> e, parametric |-> Append(p, route)]
    BY <1>1, <1>3, <1>5 DEF add_route
  <2>2. add_route(EmptyRegistry, x.method, x.path, x.handler)
            = [exact |-> <<>>, parametric |-> Append(<<>>, route)]
    BY <1>3, <1>5 DEF add_route, EmptyRegistry
  <2>3. Overwritten(e, <<>>) = e
    BY <1>2 DEF Overwritten
  <2>4. p \o Append(<<>>, route) = Append(p, route)
    <3> HIDE DEF P
    <3>1. p \in Seq(P \cup {route}) /\ route \in P \cup {route}
      BY <1>2
    <3> QED
      BY <3>1
  <2> QED
    BY <1>1, <2>1, <2>2, <2>3, <2>4 DEF merge
<1>6. CASE ~is_parametric_path(x.path)
  <2>1. add_route(reg, x.method, x.path, x.handler) = [exact |-> Overwritten(e, one), parametric |-> p]
    BY <1>1, <1>4, <1>6 DEF add_route, KeyOf
  <2>2. add_route(EmptyRegistry, x.method, x.path, x.handler)
            = [exact |-> Overwritten(<<>>, one), parametric |-> <<>>]
    BY <1>4, <1>6 DEF add_route, EmptyRegistry, KeyOf
  <2>3. Overwritten(<<>>, one) = one
    BY <1>4 DEF Overwritten
  <2>4. p \o <<>> = p
    <3> HIDE DEF P
    <3> QED
      BY <1>2
  <2> QED
    BY <1>1, <2>1, <2>2, <2>3, <2>4 DEF merge
<1> QED
  BY <1>5, <1>6, Zenon

LEMMA RepresentsEmpty == Represents(EmptyRegistry, <<>>)
<1>1. EmptyRegistry = [exact |-> <<>>, parametric |-> <<>>]
  BY DEF EmptyRegistry
<1>2. [a \in 1 .. 0 |-> 0] \in [1 .. Len(<<>>) -> DOMAIN <<>>]
  OBVIOUS
<1>3. Listed(<<>>, <<>>, [a \in 1 .. 0 |-> 0])
  BY DEF Listed
<1>4. DOMAIN <<>> = {} /\ \A S : <<>> \in Seq(S)
  OBVIOUS
<1>5. EmptyRegistry.exact = <<>> /\ EmptyRegistry.parametric = <<>>
  BY <1>1
<1>6. <<>> = [k \in DOMAIN <<>> |-> <<>>[k]]
  OBVIOUS
<1> QED
  BY <1>1, <1>2, <1>3, <1>4, <1>5, <1>6, Zenon DEF Represents

LEMMA RepresentsOne ==
    ASSUME NEW x \in AllRoutes
    PROVE  Represents(add_route(EmptyRegistry, x.method, x.path, x.handler), <<x>>)
<1> DEFINE P == {Parametric(y) : y \in AllRoutes}
<1>1. PICK rs : rs = <<x>>
  BY Zenon
<1>2. rs \in Seq(AllRoutes) /\ DOMAIN rs = {1} /\ rs[1] = x
  BY <1>1
<1>3. CASE is_parametric_path(x.path)
  <2>1. PICK route : route = Parametric(x)
    BY Zenon
  <2>2. PICK list : list = Append(<<>>, route)
    BY Zenon
  <2>3. list \in Seq({route}) /\ Len(list) = 1 /\ list[1] = route
    BY <2>2
  <2>4. PICK new : /\ new = add_route(EmptyRegistry, x.method, x.path, x.handler)
                   /\ new = [exact |-> <<>>, parametric |-> list]
    <3>1. add_route(EmptyRegistry, x.method, x.path, x.handler) = [exact |-> <<>>, parametric |-> list]
      BY <1>3, <2>1, <2>2 DEF add_route, EmptyRegistry, Parametric
    <3> QED
      BY <3>1, Zenon
  <2>5. new.exact = <<>> /\ new.parametric = list /\ DOMAIN new.exact = {}
    BY <2>4
  <2>6. PICK at : at = [a \in 1 .. 1 |-> 1]
    BY Zenon
  <2>7. at \in [1 .. Len(list) -> DOMAIN rs] /\ at[1] = 1 /\ 1 .. Len(list) = {1}
    BY <1>2, <2>3, <2>6
  <2>8. Listed(list, rs, at)
    <3>1. \A a, b \in 1 .. Len(list) : ~ (a < b)
      BY <2>7
    <3> QED
      BY <1>2, <1>3, <2>1, <2>3, <2>7, <3>1, Zenon DEF Listed
  <2>9. list \in Seq(P)
    <3>1. route \in P
      BY <2>1, Zenon
    <3> HIDE DEF P
    <3> QED
      BY <2>3, <3>1
  <2>10. new.exact = [k \in DOMAIN new.exact |-> new.exact[k]]
    BY <2>5
  <2>11. Represents(new, rs)
    BY <1>2, <1>3, <2>4, <2>5, <2>7, <2>8, <2>9, <2>10, Zenon DEF Represents
  <2> QED
    BY <1>1, <2>4, <2>11, Zenon
<1>4. CASE ~is_parametric_path(x.path)
  <2>1. PICK one : one = [k \in {KeyOf(x)} |-> x.handler]
    BY Zenon
  <2>2. Overwritten(<<>>, one) = one
    BY <2>1 DEF Overwritten
  <2>3. PICK new : /\ new = add_route(EmptyRegistry, x.method, x.path, x.handler)
                   /\ new = [exact |-> one, parametric |-> <<>>]
    <3>1. add_route(EmptyRegistry, x.method, x.path, x.handler)
              = [exact |-> Overwritten(<<>>, one), parametric |-> <<>>]
      BY <1>4, <2>1 DEF add_route, EmptyRegistry, KeyOf
    <3> QED
      BY <2>2, <3>1, Zenon
  <2>4. new.exact = one /\ new.parametric = <<>>
    BY <2>3
  <2>5. \A k \in DOMAIN one : LastFor(rs, k, 1) /\ one[k] = rs[1].handler
    <3>1. 1 <= 1
      OBVIOUS
    <3> QED
      BY <1>2, <1>4, <2>1, <3>1, Zenon DEF LastFor, IsExact
  <2>6. [a \in 1 .. 0 |-> 0] \in [1 .. Len(<<>>) -> DOMAIN rs]
    OBVIOUS
  <2>7. Listed(<<>>, rs, [a \in 1 .. 0 |-> 0])
    <3>1. 1 .. Len(<<>>) = {}
      OBVIOUS
    <3> QED
      BY <1>2, <1>4, <3>1, Zenon DEF Listed
  <2>8. \A S : <<>> \in Seq(S)
    OBVIOUS
  <2>9. KeyOf(rs[1]) \in DOMAIN one /\ one = [k \in DOMAIN one |-> one[k]]
    BY <1>2, <2>1, Zenon
  <2>10. Represents(new, rs)
    BY <1>2, <2>3, <2>4, <2>5, <2>6, <2>7, <2>8, <2>9, Zenon DEF Represents
  <2> QED
    BY <1>1, <2>3, <2>10, Zenon
<1> QED
  BY <1>3, <1>4, Zenon

LEMMA RepresentsAdd ==
    ASSUME NEW reg, NEW rs, Represents(reg, rs), NEW x \in AllRoutes
    PROVE  Represents(add_route(reg, x.method, x.path, x.handler), rs \o <<x>>)
BY AddIsMerge, RepresentsOne, RepresentsMerge, Zenon

LEMMA PrefixGrows ==
    ASSUME NEW S, NEW xs \in Seq(S), NEW n \in Nat, n + 1 \in 1 .. Len(xs)
    PROVE  SubSeq(xs, 1, n + 1) = SubSeq(xs, 1, n) \o <<xs[n + 1]>>
<1>1. 1 \in 1 .. Len(xs) /\ n + 1 \in 1 .. Len(xs) /\ (n + 1) - 1 = n
  OBVIOUS
<1>2. SubSeq(xs, 1, n + 1) = SubSeq(xs, 1, (n + 1) - 1) \o <<xs[n + 1]>>
  BY <1>1
<1> QED
  BY <1>1, <1>2, Zenon

LEMMA RepresentsAddRoutes ==
    ASSUME NEW reg, NEW rs, Represents(reg, rs), NEW xs \in Seq(AllRoutes)
    PROVE  Represents(AddRoutes(reg, xs), rs \o xs)
<1>1. Len(xs) \in Nat /\ rs \in Seq(AllRoutes)
  BY DEF Represents
<1>2. \E f : IsAdding(f, reg, xs, Len(xs))
  BY <1>1, AddingExists, Zenon
<1>3. PICK f : IsAdding(f, reg, xs, Len(xs)) /\ AddRoutes(reg, xs) = f[Len(xs)]
  BY <1>2, Zenon DEF AddRoutes, IsAdding
<1> DEFINE I == {n \in Nat : n \in 0 .. Len(xs) => Represents(f[n], rs \o SubSeq(xs, 1, n))}
<1>4. 0 \in I
  <2>1. f[0] = reg
    BY <1>1, <1>3 DEF IsAdding
  <2>2. SubSeq(xs, 1, 0) = <<>>
    OBVIOUS
  <2>3. rs \o <<>> = rs
    BY <1>1
  <2>4. 0 \in Nat
    OBVIOUS
  <2> QED
    BY <2>1, <2>2, <2>3, <2>4, Zenon
<1>5. ASSUME NEW n \in Nat, n \in I PROVE n + 1 \in I
  <2> SUFFICES ASSUME n + 1 \in 0 .. Len(xs) PROVE Represents(f[n + 1], rs \o SubSeq(xs, 1, n + 1))
    BY <1>5
  <2>1. n \in 0 .. Len(xs) /\ n + 1 # 0 /\ (n + 1) - 1 = n /\ n + 1 \in 1 .. Len(xs)
    BY <1>1
  <2>2. xs[n + 1] \in AllRoutes
    BY <2>1
  <2>3. PICK p : p = SubSeq(xs, 1, n)
    BY Zenon
  <2>4. Represents(f[n], rs \o p)
    BY <1>5, <2>1, <2>3, Zenon
  <2>5. f[n + 1] = add_route(f[n], xs[n + 1].method, xs[n + 1].path, xs[n + 1].handler)
    BY <1>3, <2>1, Zenon DEF IsAdding
  <2>6. Represents(f[n + 1], (rs \o p) \o <<xs[n + 1]>>)
    BY <2>2, <2>4, <2>5, RepresentsAdd, Zenon
  <2>7. p \in Seq(AllRoutes)
    BY <2>1, <2>3, PrefixOf, Zenon
  <2>8. (rs \o p) \o <<xs[n + 1]>> = rs \o (p \o <<xs[n + 1]>>)
    BY <1>1, <2>2, <2>7
  <2>9. SubSeq(xs, 1, n + 1) = p \o <<xs[n + 1]>>
    BY <2>1, <2>3, PrefixGrows, Zenon
  <2> QED
    BY <2>6, <2>8, <2>9, Zenon
<1>6. Nat \subseteq I
  <2> HIDE DEF I
  <2> QED
    BY <1>4, <1>5, SetInduction, Zenon
<1>7. Len(xs) \in 0 .. Len(xs)
  BY <1>1
<1>8. SubSeq(xs, 1, Len(xs)) = xs
  OBVIOUS
<1> QED
  BY <1>1, <1>3, <1>6, <1>7, <1>8, Zenon

(* add_controller keeps the registries what the calls of add_route made. *)
LEMMA AddControllerRoutes ==
    ASSUME RoutesInv, NEW c \in Controllers, AddController(c)
    PROVE  RoutesInv'
<1>1. PICK throws \in {"no", "configure_routes", "initialize"}, done \in 0 .. Len(RoutesOf[c]) :
        LET added == SubSeq(RoutesOf[c], 1, done)
            reg == AddRoutes(own[c], added)
            mine == routes.own[c] \o added
        IN  /\ throws = "no" => /\ registry' = merge(registry, reg)
                                /\ own' = [own EXCEPT ![c] = EmptyRegistry]
                                /\ routes' = [merged |-> routes.merged \o mine,
                                              own |-> [routes.own EXCEPT ![c] = <<>>]]
            /\ throws # "no" => /\ own' = [own EXCEPT ![c] = reg]
                                /\ registry' = registry
                                /\ routes' = [routes EXCEPT !.own[c] = mine]
  BY Zenon DEF AddController
<1>2. PICK added : added = SubSeq(RoutesOf[c], 1, done)
  BY Zenon
<1>3. PICK reg, mine : reg = AddRoutes(own[c], added) /\ mine = routes.own[c] \o added
  BY Zenon
<1>4. added \in Seq(AllRoutes)
  <2>1. Range(RoutesOf[c]) \subseteq AllRoutes
    BY Zenon DEF AllRoutes, RoutesFrom
  <2>2. RoutesOf[c] \in Seq(Range(RoutesOf[c]))
    BY RoutesAssumption, Zenon
  <2> QED
    BY <1>2, <2>1, <2>2, PrefixOf, Zenon
<1>5. Represents(reg, mine)
  BY <1>3, <1>4, RepresentsAddRoutes, Zenon DEF RoutesInv
<1>6. PICK ro, rm : ro = routes.own /\ rm = routes.merged /\ routes = [merged |-> rm, own |-> ro]
  BY Zenon DEF RoutesInv
<1>7. ro = [d \in Controllers |-> ro[d]] /\ own = [d \in Controllers |-> own[d]]
  BY <1>6, Zenon DEF RoutesInv
<1>8. CASE throws = "no"
  <2>1. PICK om, oo : om = rm \o mine /\ oo = [ro EXCEPT ![c] = <<>>]
    BY Zenon
  <2>2. /\ registry' = merge(registry, reg)
        /\ own' = [own EXCEPT ![c] = EmptyRegistry]
        /\ routes' = [merged |-> om, own |-> oo]
    BY <1>1, <1>2, <1>3, <1>6, <1>8, <2>1, Zenon
  <2>3. routes'.merged = om /\ routes'.own = oo
    BY <2>2
  <2>4. Represents(registry', om)
    BY <1>5, <1>6, <2>1, <2>2, RepresentsMerge, Zenon DEF RoutesInv
  <2>5. own' = [d \in Controllers |-> own'[d]] /\ oo = [d \in Controllers |-> oo[d]]
    BY <1>7, <2>1, <2>2, Zenon
  <2>6. ASSUME NEW d \in Controllers PROVE Represents(own'[d], oo[d])
    <3>1. CASE d = c
      <4>1. own'[d] = EmptyRegistry /\ oo[d] = <<>>
        BY <1>7, <2>1, <2>2, <3>1, Zenon
      <4> QED
        BY <4>1, RepresentsEmpty, Zenon
    <3>2. CASE d # c
      <4>1. own'[d] = own[d] /\ oo[d] = ro[d]
        BY <1>7, <2>1, <2>2, <3>2, Zenon
      <4> QED
        BY <1>6, <4>1, Zenon DEF RoutesInv
    <3> QED
      BY <3>1, <3>2, Zenon
  <2> QED
    BY <2>2, <2>3, <2>4, <2>5, <2>6, Zenon DEF RoutesInv
<1>9. CASE throws # "no"
  <2>1. PICK oo : oo = [ro EXCEPT ![c] = mine]
    BY Zenon
  <2>2. own' = [own EXCEPT ![c] = reg] /\ registry' = registry /\ routes' = [routes EXCEPT !.own[c] = mine]
    BY <1>1, <1>2, <1>3, <1>9, Zenon
  <2>3. routes' = [merged |-> rm, own |-> oo]
    BY <1>6, <2>1, <2>2
  <2>4. routes'.merged = rm /\ routes'.own = oo
    BY <2>3
  <2>5. own' = [d \in Controllers |-> own'[d]] /\ oo = [d \in Controllers |-> oo[d]]
    BY <1>7, <2>1, <2>2, Zenon
  <2>6. ASSUME NEW d \in Controllers PROVE Represents(own'[d], oo[d])
    <3>1. CASE d = c
      <4>1. own'[d] = reg /\ oo[d] = mine
        BY <1>7, <2>1, <2>2, <3>1, Zenon
      <4> QED
        BY <1>5, <4>1, Zenon
    <3>2. CASE d # c
      <4>1. own'[d] = own[d] /\ oo[d] = ro[d]
        BY <1>7, <2>1, <2>2, <3>2, Zenon
      <4> QED
        BY <1>6, <4>1, Zenon DEF RoutesInv
    <3> QED
      BY <3>1, <3>2, Zenon
  <2> QED
    BY <1>6, <2>2, <2>3, <2>4, <2>5, <2>6, Zenon DEF RoutesInv
<1> QED
  BY <1>8, <1>9, Zenon

-----------------------------------------------------------------------------
(* The names of a parametric route. *)

LEMMA GreatestOf ==
    ASSUME NEW n \in Nat, NEW S, S \subseteq 1 .. n, S # {}
    PROVE  \E x \in S : \A y \in S : y <= x
<1> DEFINE T == {n - y : y \in S}
<1>0. \A y \in S : y \in Nat /\ n - y \in Nat
  OBVIOUS
<1>1. T \subseteq Nat /\ T # {}
  BY <1>0, Zenon
<1>2. PICK m \in T : \A y \in T : m <= y
  <2> HIDE DEF T
  <2> QED
    BY <1>1, LeastOf, Zenon
<1>3. PICK x \in S : m = n - x
  BY <1>2, Zenon
<1>4. ASSUME NEW y \in S PROVE y <= x
  <2>1. n - y \in T
    BY Zenon
  <2>2. n - x <= n - y
    BY <1>2, <1>3, <2>1, Zenon
  <2>3. x \in Nat /\ y \in Nat
    BY <1>0, Zenon
  <2> QED
    BY <2>2, <2>3
<1> QED
  BY <1>4, Zenon

(* f[i] is the first i parts, one after the other. *)
IsJoining(f, parts, n) ==
    f = [i \in 0 .. n |-> IF i = 0 THEN <<>> ELSE f[i - 1] \o parts[i]]

LEMMA JoiningExists ==
    ASSUME NEW parts
    PROVE  \A n \in Nat : \E f : IsJoining(f, parts, n)
<1> DEFINE I == {n \in Nat : \E f : IsJoining(f, parts, n)}
<1>1. 0 \in I
  <2>1. IsJoining([i \in 0 .. 0 |-> <<>>], parts, 0)
    BY DEF IsJoining
  <2> QED
    BY <2>1, Zenon
<1>2. ASSUME NEW n \in Nat, NEW f, IsJoining(f, parts, n)
      PROVE  \E g : IsJoining(g, parts, n + 1)
  <2> DEFINE next(x, i) == x \o parts[i]
  <2>1. f = [i \in 0 .. n |-> IF i = 0 THEN <<>> ELSE next(f[i - 1], i)]
    BY <1>2, Zenon DEF IsJoining
  <2> DEFINE g == [i \in 0 .. n + 1 |-> IF i \in 0 .. n THEN f[i] ELSE next(f[n], i)]
  <2> HIDE DEF next
  <2>2. ASSUME NEW i \in 0 .. n + 1
        PROVE  g[i] = IF i = 0 THEN <<>> ELSE next(g[i - 1], i)
    <3>1. CASE i = 0
      BY <2>1, <3>1
    <3>2. CASE i \in 1 .. n
      <4>1. i - 1 \in 0 .. n /\ i \in 0 .. n /\ i # 0 /\ i - 1 \in 0 .. n + 1
        BY <3>2
      <4>2. g[i] = f[i] /\ g[i - 1] = f[i - 1]
        BY <4>1, Zenon
      <4>3. f[i] = next(f[i - 1], i)
        BY <2>1, <4>1, Zenon
      <4> QED
        BY <4>1, <4>2, <4>3, Zenon
    <3>3. CASE i = n + 1
      BY <3>3
    <3> QED
      BY <3>1, <3>2, <3>3
  <2>3. IsJoining(g, parts, n + 1)
    <3>1. g = [i \in 0 .. n + 1 |-> g[i]]
      BY Zenon DEF g
    <3> HIDE DEF g
    <3> QED
      BY <2>2, <3>1, Zenon DEF IsJoining, next
  <2> QED
    BY <2>3, Zenon
<1>3. Nat \subseteq I
  <2>1. \A n \in Nat : n \in I => n + 1 \in I
    BY <1>2
  <2> HIDE DEF I
  <2> QED
    BY <1>1, <2>1, SetInduction, Zenon
<1> QED
  BY <1>3, Zenon

LEMMA ConcatLength ==
    ASSUME NEW S, NEW a \in Seq(S), NEW b \in Seq(S)
    PROVE  Len(a \o b) = Len(a) + Len(b) /\ Len(a) \in Nat /\ Len(b) \in Nat
OBVIOUS

(* Place p of a and b is place k of the parts i of A and B. *)
FromPart(a, b, p, A, B, i, k) == a[p] = A[i][k] /\ b[p] = B[i][k]

(* a and b join the first n parts of A and B, and run in parallel. *)
InParallel(a, b, A, B, n) ==
    /\ Len(a) = Len(b)
    /\ \A p \in 1 .. Len(a) : \E i \in 1 .. n : \E k \in 1 .. Len(A[i]) :
          FromPart(a, b, p, A, B, i, k)

(* Parts of the same lengths joined: every place of the results comes from *)
(* the same place of the same part.                                        *)
LEMMA ParallelParts ==
    ASSUME NEW S, NEW T, NEW A, NEW B, NEW N \in Nat, NEW a \in Seq(S), NEW b \in Seq(T),
           A[N + 1] \in Seq(S), B[N + 1] \in Seq(T), Len(A[N + 1]) = Len(B[N + 1]),
           InParallel(a, b, A, B, N)
    PROVE  InParallel(a \o A[N + 1], b \o B[N + 1], A, B, N + 1)
<1>1. PICK c \in Seq(S), d \in Seq(T) : c = A[N + 1] /\ d = B[N + 1] /\ Len(c) = Len(d)
  BY Zenon
<1>2. Len(a) = Len(b)
  BY Zenon DEF InParallel
<1>3. Len(a \o c) = Len(a) + Len(c) /\ Len(a \o c) = Len(b \o d) /\ Len(a) \in Nat /\ Len(c) \in Nat
  <2>1. Len(a \o c) = Len(a) + Len(c) /\ Len(a) \in Nat /\ Len(c) \in Nat
    BY ConcatLength, Zenon
  <2>2. Len(b \o d) = Len(b) + Len(d)
    BY ConcatLength, Zenon
  <2> QED
    BY <1>1, <1>2, <2>1, <2>2, Zenon
<1>4. ASSUME NEW p \in 1 .. Len(a \o c)
      PROVE  \E i \in 1 .. N + 1 : \E k \in 1 .. Len(A[i]) :
                FromPart(a \o c, b \o d, p, A, B, i, k)
  <2>1. CASE p \in 1 .. Len(a)
    <3>1. (a \o c)[p] = a[p] /\ (b \o d)[p] = b[p]
      BY <1>2, <2>1
    <3>2. PICK i \in 1 .. N : \E k \in 1 .. Len(A[i]) : FromPart(a, b, p, A, B, i, k)
      BY <2>1, Zenon DEF InParallel
    <3>3. i \in 1 .. N + 1
      OBVIOUS
    <3> QED
      BY <3>1, <3>2, <3>3, Zenon DEF FromPart
  <2>2. CASE p \notin 1 .. Len(a)
    <3>1. PICK k : k = p - Len(a)
      BY Zenon
    <3>2. k \in 1 .. Len(c) /\ (a \o c)[p] = c[k] /\ (b \o d)[p] = d[k]
      BY <1>1, <1>2, <1>3, <2>2, <3>1, SMTT(30)
    <3>3. N + 1 \in 1 .. N + 1
      OBVIOUS
    <3> QED
      BY <1>1, <3>2, <3>3, Zenon DEF FromPart
  <2> QED
    BY <2>1, <2>2, Zenon
<1> QED
  BY <1>1, <1>3, <1>4, Zenon DEF InParallel

LEMMA ConcatTyped ==
    ASSUME NEW S, NEW a \in Seq(S), NEW b \in Seq(S)
    PROVE  a \o b \in Seq(S)
OBVIOUS

LEMMA FunctionIsSeq ==
    ASSUME NEW n \in Nat, NEW Q, NEW f \in [1 .. n -> Q]
    PROVE  f \in Seq(Q) /\ Len(f) = n
OBVIOUS

LEMMA JoinedInParallel ==
    ASSUME NEW S, NEW T, NEW A \in Seq(Seq(S)), NEW B \in Seq(Seq(T)), Len(A) = Len(B),
           \A i \in DOMAIN A : Len(A[i]) = Len(B[i])
    PROVE  /\ Joined(A) \in Seq(S) /\ Joined(B) \in Seq(T)
           /\ InParallel(Joined(A), Joined(B), A, B, Len(A))
<1>1. Len(A) \in Nat /\ DOMAIN A = 1 .. Len(A) /\ DOMAIN B = 1 .. Len(A)
  OBVIOUS
<1>2. \A i \in 1 .. Len(A) : A[i] \in Seq(S) /\ B[i] \in Seq(T)
  OBVIOUS
<1>3. PICK f : IsJoining(f, A, Len(A)) /\ Joined(A) = f[Len(A)]
  <2>1. \E f : IsJoining(f, A, Len(A))
    BY <1>1, JoiningExists, Zenon
  <2> QED
    BY <2>1, Zenon DEF Joined, IsJoining
<1>4. PICK g : IsJoining(g, B, Len(A)) /\ Joined(B) = g[Len(A)]
  <2>1. \E g : IsJoining(g, B, Len(A))
    BY <1>1, JoiningExists, Zenon
  <2> QED
    BY <2>1, Zenon DEF Joined, IsJoining
<1> DEFINE I == {n \in Nat : n \in 0 .. Len(A) =>
                                /\ f[n] \in Seq(S) /\ g[n] \in Seq(T)
                                /\ InParallel(f[n], g[n], A, B, n)}
<1>5. 0 \in I
  <2>1. f[0] = <<>> /\ g[0] = <<>>
    BY <1>1, <1>3, <1>4 DEF IsJoining
  <2>2. InParallel(<<>>, <<>>, A, B, 0)
    BY DEF InParallel
  <2>3. 0 \in Nat /\ <<>> \in Seq(S) /\ <<>> \in Seq(T)
    OBVIOUS
  <2> QED
    BY <2>1, <2>2, <2>3, Zenon
<1>6. ASSUME NEW n \in Nat, n \in I PROVE n + 1 \in I
  <2> SUFFICES ASSUME n + 1 \in 0 .. Len(A)
               PROVE  /\ f[n + 1] \in Seq(S) /\ g[n + 1] \in Seq(T)
                      /\ InParallel(f[n + 1], g[n + 1], A, B, n + 1)
    BY <1>6
  <2>1. n \in 0 .. Len(A) /\ n + 1 # 0 /\ (n + 1) - 1 = n /\ n + 1 \in 1 .. Len(A)
    BY <1>1
  <2>2. f[n] \in Seq(S) /\ g[n] \in Seq(T) /\ InParallel(f[n], g[n], A, B, n)
    BY <1>6, <2>1, Zenon
  <2>3. f[n + 1] = f[n] \o A[n + 1] /\ g[n + 1] = g[n] \o B[n + 1]
    BY <1>3, <1>4, <2>1, Zenon DEF IsJoining
  <2>4. A[n + 1] \in Seq(S) /\ B[n + 1] \in Seq(T) /\ Len(A[n + 1]) = Len(B[n + 1])
    BY <1>1, <1>2, <2>1, Zenon
  <2>5. f[n] \o A[n + 1] \in Seq(S) /\ g[n] \o B[n + 1] \in Seq(T)
    BY <2>2, <2>4, ConcatTyped, Zenon
  <2>6. InParallel(f[n] \o A[n + 1], g[n] \o B[n + 1], A, B, n + 1)
    BY <2>2, <2>4, ParallelParts, Zenon
  <2> QED
    BY <2>3, <2>5, <2>6, Zenon
<1>7. Nat \subseteq I
  <2> HIDE DEF I
  <2> QED
    BY <1>5, <1>6, SetInduction, Zenon
<1>8. Len(A) \in 0 .. Len(A)
  BY <1>1
<1> QED
  BY <1>1, <1>3, <1>4, <1>7, <1>8, Zenon

(* BindNames, of the names and the groups. *)
Bindings(names, groups, bound) ==
    LET last(n) == CHOOSE i \in bound :
                      /\ names[i] = n
                      /\ \A j \in bound : names[j] = n => j <= i
    IN  [n \in {names[i] : i \in bound} |-> groups[last(n)]]

(* The value of a name is what a group of that name holds. *)
HasGroupOf(name, value, segs, texts) ==
    \E i \in DOMAIN texts : \E k \in DOMAIN segs[i].names :
        segs[i].names[k] = name /\ value = Captures(segs[i].text, texts[i])[k]

(* find_handler binds a name to what its own group holds, if the names     *)
(* have all the groups.                                                    *)
LEMMA NamesBound ==
    ASSUME NEW x, x.path \in Seq([names : Seq(STRING), text : STRING]),
           NEW texts \in Seq(STRING), Len(texts) = Len(x.path),
           \A i \in DOMAIN x.path : Captures(x.path[i].text, texts[i]) \in Seq(STRING),
           GroupsAreNames(x.path, texts),
           NEW b, b = BindNames(Parametric(x), texts), NEW name \in Range(NamesOf(x.path))
    PROVE  name \in DOMAIN b /\ HasGroupOf(name, b[name], x.path, texts)
<1>1. PICK segs, A, B : /\ segs = x.path
                        /\ A = [i \in DOMAIN segs |-> segs[i].names]
                        /\ B = [i \in DOMAIN segs |-> Captures(segs[i].text, texts[i])]
  BY Zenon
<1>2. PICK names, groups : names = Joined(A) /\ groups = Joined(B)
  BY Zenon
<1>3. NamesOf(x.path) = names /\ Groups(texts, x.path) = groups
  BY <1>1, <1>2, Zenon DEF NamesOf, Groups
<1>4. DOMAIN segs = 1 .. Len(segs) /\ Len(segs) \in Nat /\ DOMAIN texts = DOMAIN segs
  BY <1>1
<1>5. \A i \in DOMAIN segs : segs[i].names \in Seq(STRING)
  <2>1. PICK R : R = [names : Seq(STRING), text : STRING]
    BY Zenon
  <2>2. segs \in Seq(R)
    BY <1>1, <2>1, Zenon
  <2>3. \A i \in DOMAIN segs : segs[i] \in R
    BY <2>2
  <2>4. \A y \in R : y.names \in Seq(STRING)
    BY <2>1
  <2> QED
    BY <2>3, <2>4, Zenon
<1>6. A \in Seq(Seq(STRING)) /\ B \in Seq(Seq(STRING)) /\ Len(A) = Len(segs) /\ Len(B) = Len(segs)
  <2>1. \A i \in 1 .. Len(segs) : A[i] \in Seq(STRING) /\ B[i] \in Seq(STRING)
    BY <1>1, <1>4, <1>5, Zenon
  <2>2. PICK Q : Q = Seq(STRING)
    BY Zenon
  <2>3. A \in [1 .. Len(segs) -> Q] /\ B \in [1 .. Len(segs) -> Q]
    BY <1>1, <1>4, <2>1, <2>2, Zenon
  <2>4. A \in Seq(Q) /\ B \in Seq(Q) /\ Len(A) = Len(segs) /\ Len(B) = Len(segs)
    BY <1>4, <2>3, FunctionIsSeq, Zenon
  <2> QED
    BY <2>2, <2>4, Zenon
<1>7. /\ names \in Seq(STRING) /\ groups \in Seq(STRING)
      /\ InParallel(names, groups, A, B, Len(segs))
  <2>1. \A i \in DOMAIN A : Len(A[i]) = Len(B[i])
    BY <1>1, Zenon DEF GroupsAreNames
  <2>2. Len(A) = Len(B)
    BY <1>6, Zenon
  <2> QED
    BY <1>2, <1>6, <2>1, <2>2, JoinedInParallel, Zenon
<1>8. /\ DOMAIN names = 1 .. Len(names) /\ Len(names) \in Nat
      /\ DOMAIN names \cap DOMAIN groups = DOMAIN names
  <2>1. Len(names) = Len(groups)
    BY <1>7, Zenon DEF InParallel
  <2>2. DOMAIN names = 1 .. Len(names) /\ Len(names) \in Nat
    BY <1>7
  <2>3. DOMAIN groups = 1 .. Len(groups)
    BY <1>7
  <2> QED
    BY <2>1, <2>2, <2>3, Zenon
<1>9. PICK route : route = Parametric(x)
  BY Zenon
<1>10. route.path = x.path /\ route.param_names = names
  BY <1>3, <1>9 DEF Parametric, create_parametric_route
<1> DEFINE last == CHOOSE i \in DOMAIN names :
                      /\ names[i] = name
                      /\ \A j \in DOMAIN names : names[j] = name => j <= i
<1>11. last \in DOMAIN names /\ names[last] = name
  <2> DEFINE S == {i \in DOMAIN names : names[i] = name}
  <2>1. S # {}
    BY <1>3, Zenon DEF Range
  <2>2. S \subseteq 1 .. Len(names)
    BY <1>8, Zenon
  <2>3. \E i \in S : \A j \in S : j <= i
    <3> HIDE DEF S
    <3> QED
      BY <1>8, <2>1, <2>2, GreatestOf, Zenon
  <2>4. \E i \in DOMAIN names : /\ names[i] = name
                                /\ \A j \in DOMAIN names : names[j] = name => j <= i
    BY <2>3, Zenon
  <2> QED
    BY <2>4, Zenon
<1>12. name \in DOMAIN b /\ b[name] = groups[last]
  <2> DEFINE bound == DOMAIN route.param_names \cap DOMAIN Groups(texts, route.path)
  <2>2. BindNames(route, texts) = Bindings(route.param_names, Groups(texts, route.path), bound)
    BY Zenon DEF BindNames, Bindings
  <2>3. Groups(texts, route.path) = groups /\ bound = DOMAIN names
    BY <1>3, <1>8, <1>10, Zenon
  <2>4. b = Bindings(names, groups, DOMAIN names)
    BY <1>9, <1>10, <2>2, <2>3, Zenon
  <2>5. name \in {names[i] : i \in DOMAIN names}
    BY <1>11, Zenon
  <2> QED
    BY <2>4, <2>5, Zenon DEF Bindings
<1> HIDE DEF last
<1>13. PICK i \in 1 .. Len(segs) : \E k \in 1 .. Len(A[i]) :
           names[last] = A[i][k] /\ groups[last] = B[i][k]
  BY <1>7, <1>8, <1>11, Zenon DEF InParallel, FromPart
<1>14. PICK k \in 1 .. Len(A[i]) : name = A[i][k] /\ b[name] = B[i][k]
  BY <1>11, <1>12, <1>13, Zenon
<1>15. /\ i \in DOMAIN texts /\ A[i] = segs[i].names
       /\ B[i] = Captures(segs[i].text, texts[i])
  BY <1>1, <1>4, <1>13, Zenon
<1>16. k \in DOMAIN segs[i].names
  <2>1. segs[i].names \in Seq(STRING)
    BY <1>4, <1>5, Zenon
  <2>2. DOMAIN segs[i].names = 1 .. Len(segs[i].names)
    BY <2>1
  <2> QED
    BY <1>15, <2>2, Zenon
<1> QED
  BY <1>1, <1>12, <1>14, <1>15, <1>16, Zenon DEF HasGroupOf

-----------------------------------------------------------------------------
(* find_handler finds the route that the calls of add_route decide. *)

LEMMA MaxIs ==
    ASSUME NEW S, S \subseteq Nat, NEW i \in S, \A j \in S : j <= i
    PROVE  Max(S) = i
<1>1. \A y \in S : i >= y
  OBVIOUS
<1>2. Max(S) \in S /\ \A y \in S : Max(S) >= y
  BY <1>1, Zenon DEF Max
<1>3. Max(S) >= i /\ Max(S) <= i /\ Max(S) \in Nat /\ i \in Nat
  BY <1>2, Zenon
<1> QED
  BY <1>3

LEMMA MinIs ==
    ASSUME NEW S, S \subseteq Nat, NEW i \in S, \A j \in S : i <= j
    PROVE  Min(S) = i
<1>1. Min(S) \in S /\ \A y \in S : Min(S) <= y
  BY Zenon DEF Min
<1>2. Min(S) <= i /\ i <= Min(S) /\ Min(S) \in Nat /\ i \in Nat
  BY <1>1, Zenon
<1> QED
  BY <1>2

LEMMA PathsTyped ==
    ASSUME NEW x \in AllRoutes
    PROVE  x.path \in Seq([names : Seq(STRING), text : STRING])
BY RoutesAssumption, ZenonT(40) DEF AllRoutes, RoutesFrom

LEMMA NoNames ==
    ASSUME NEW x \in AllRoutes, ~is_parametric_path(x.path)
    PROVE  Range(NamesOf(x.path)) = {}
<1>1. PICK segs, A : segs = x.path /\ A = [i \in DOMAIN segs |-> segs[i].names]
  BY Zenon
<1>2. PICK R : segs \in Seq(R)
  BY <1>1, PathsTyped, Zenon
<1>3. DOMAIN segs = 1 .. Len(segs) /\ Len(segs) \in Nat
  BY <1>2
<1>4. \A i \in 1 .. Len(segs) : A[i] = <<>>
  BY <1>1, <1>3, Zenon DEF is_parametric_path
<1>5. A \in Seq(Seq(STRING)) /\ Len(A) = Len(segs)
  <2>0. <<>> \in Seq(STRING)
    OBVIOUS
  <2>1. PICK Q : Q = Seq(STRING) /\ <<>> \in Q
    BY <2>0, Zenon
  <2>2. A \in [1 .. Len(segs) -> Q]
    BY <1>1, <1>3, <1>4, <2>1, Zenon
  <2>3. A \in Seq(Q) /\ Len(A) = Len(segs)
    BY <1>3, <2>2, FunctionIsSeq, Zenon
  <2> QED
    BY <2>1, <2>3, Zenon
<1>6. PICK j \in Seq(STRING) : j = Joined(A) /\ InParallel(j, j, A, A, Len(A))
  BY <1>5, JoinedInParallel, Zenon
<1>7. ASSUME NEW p \in 1 .. Len(j) PROVE FALSE
  <2>1. PICK i \in 1 .. Len(segs) : \E k \in 1 .. Len(A[i]) : TRUE
    BY <1>5, <1>6, Zenon DEF InParallel
  <2>2. A[i] = <<>>
    BY <1>4, Zenon
  <2> QED
    BY <2>1, <2>2
<1>8. DOMAIN j = {}
  BY <1>6, <1>7
<1> QED
  BY <1>1, <1>6, <1>8, Zenon DEF NamesOf, Range

LEMMA ExactRoute ==
    ASSUME Represents(registry, routes.merged), NEW r, NEW i \in DOMAIN routes.merged
    PROVE  i \in ExactFor(r) <=> IsExact(routes.merged[i], make_route_key(r.method, r.path))
<1>1. PICK x : x = routes.merged[i]
  BY Zenon
<1>2. <<x.method, TextsOf(x.path)>> = <<r.method, r.path>>
          <=> x.method = r.method /\ TextsOf(x.path) = r.path
  OBVIOUS
<1> QED
  BY <1>1, <1>2, Zenon DEF ExactFor, IsExact, KeyOf, make_route_key

(* A route that was found is the one the request is for. *)
IsFor(f, r) ==
    /\ ExactFor(r) \cup ParametricFor(r) # {}
    /\ f.handler = RouteFor(r).handler
    /\ GroupsAreNames(RouteFor(r).path, r.path) =>
          \A name \in Range(NamesOf(RouteFor(r).path)) :
              /\ name \in DOMAIN f.params
              /\ HasGroupOf(name, f.params[name], RouteFor(r).path, r.path)

LEMMA FindsExact ==
    ASSUME Represents(registry, routes.merged), NEW r, NEW key,
           key = make_route_key(r.method, r.path), key \in DOMAIN registry.exact,
           NEW f, f = find_handler(registry, r.method, r.path)
    PROVE  f.found /\ IsFor(f, r)
<1>1. PICK rs : rs = routes.merged
  BY Zenon
<1>2. rs \in Seq(AllRoutes)
  BY <1>1, Zenon DEF Represents
<1>3. DOMAIN rs \subseteq Nat /\ \A j \in DOMAIN rs : rs[j] \in AllRoutes
  BY <1>2
<1>4. PICK i \in DOMAIN rs : LastFor(rs, key, i) /\ registry.exact[key] = rs[i].handler
  BY <1>1, Zenon DEF Represents
<1>5. PICK p : f = Found(registry.exact[key], p)
  BY Zenon DEF find_handler
<1>6. f.found /\ f.handler = rs[i].handler
  BY <1>4, <1>5 DEF Found
<1>7. i \in ExactFor(r) /\ \A j \in ExactFor(r) : j <= i
  BY <1>1, <1>4, ExactRoute, Zenon DEF LastFor, ExactFor
<1>8. Max(ExactFor(r)) = i
  <2>1. ExactFor(r) \subseteq Nat
    BY <1>1, <1>3, Zenon DEF ExactFor
  <2> QED
    BY <1>7, <2>1, MaxIs, Zenon
<1>9. RouteFor(r) = rs[i]
  BY <1>1, <1>7, <1>8, Zenon DEF RouteFor
<1>10. Range(NamesOf(rs[i].path)) = {}
  BY <1>3, <1>4, NoNames, Zenon DEF LastFor, IsExact
<1> QED
  BY <1>6, <1>7, <1>9, <1>10, Zenon DEF IsFor

LEMMA FindsParametric ==
    ASSUME Represents(registry, routes.merged), NEW r \in Requests, NEW key,
           key = make_route_key(r.method, r.path), key \notin DOMAIN registry.exact,
           NEW f, f = find_handler(registry, r.method, r.path)
    PROVE  /\ f.found => IsFor(f, r)
           /\ ~f.found => f = NotFound /\ ExactFor(r) \cup ParametricFor(r) = {}
           /\ f.found \in BOOLEAN
<1>1. PICK rs, list : rs = routes.merged /\ list = registry.parametric
  BY Zenon
<1>2. rs \in Seq(AllRoutes)
  BY <1>1, Zenon DEF Represents
<1>3. DOMAIN rs \subseteq Nat /\ \A j \in DOMAIN rs : rs[j] \in AllRoutes
  BY <1>2
<1>4. ExactFor(r) = {}
  <2> SUFFICES ASSUME NEW i \in ExactFor(r) PROVE FALSE
    BY Zenon
  <2>1. i \in DOMAIN rs /\ IsExact(rs[i], key)
    BY <1>1, ExactRoute, Zenon DEF ExactFor
  <2> QED
    BY <1>1, <2>1, Zenon DEF Represents, IsExact
<1>5. PICK at \in [1 .. Len(list) -> DOMAIN rs] : Listed(list, rs, at)
  BY <1>1, Zenon DEF Represents
<1>6. DOMAIN list = 1 .. Len(list) /\ DOMAIN list \subseteq Nat
  <2>1. PICK P : list \in Seq(P)
    BY <1>1, Zenon DEF Represents
  <2> QED
    BY <2>1
<1> DEFINE matching == {a \in DOMAIN list : /\ list[a].method = r.method
                                            /\ regex_match(r.path, list[a].path)}
<1>7. \A a \in DOMAIN list : a \in matching <=> at[a] \in ParametricFor(r)
  <2> SUFFICES ASSUME NEW a \in DOMAIN list PROVE a \in matching <=> at[a] \in ParametricFor(r)
    BY Zenon
  <2>1. PICK x : x = rs[at[a]]
    BY Zenon
  <2>2. at[a] \in DOMAIN rs /\ is_parametric_path(x.path) /\ list[a] = Parametric(x)
    BY <1>5, <1>6, <2>1, Zenon DEF Listed
  <2>3. list[a].method = x.method /\ list[a].path = x.path
    BY <2>2 DEF Parametric, create_parametric_route
  <2> QED
    BY <1>1, <2>1, <2>2, <2>3, Zenon DEF ParametricFor, RoutesFor
<1>8. \A i \in ParametricFor(r) : \E a \in DOMAIN list : at[a] = i
  BY <1>1, <1>5, <1>6, Zenon DEF ParametricFor, RoutesFor, Listed
<1>9. f = IF matching = {} THEN NotFound
          ELSE Found(list[Min(matching)].handler, BindNames(list[Min(matching)], r.path))
  BY <1>1, Zenon DEF find_handler
<1>10. CASE matching = {}
  <2>1. f = NotFound
    BY <1>9, <1>10, Zenon
  <2>2. f.found = FALSE
    BY <2>1 DEF NotFound
  <2>3. ParametricFor(r) = {}
    BY <1>7, <1>8, <1>10, Zenon
  <2> QED
    BY <1>4, <2>1, <2>2, <2>3, Zenon
<1>11. CASE matching # {}
  <2>1. PICK a : a = Min(matching)
    BY Zenon
  <2>2. a \in matching /\ \A b \in matching : a <= b
    <3>1. matching \subseteq Nat
      BY <1>6, Zenon
    <3> HIDE DEF matching
    <3> QED
      BY <1>11, <2>1, <3>1, LeastOf, Zenon
  <2>3. PICK i, x : i = at[a] /\ x = rs[i]
    BY Zenon
  <2>4. a \in DOMAIN list /\ i \in DOMAIN rs /\ x \in AllRoutes /\ list[a] = Parametric(x)
    BY <1>3, <1>5, <1>6, <2>2, <2>3, Zenon DEF Listed
  <2>5. i \in ParametricFor(r)
    BY <1>7, <2>2, <2>3, <2>4, Zenon
  <2>6. ASSUME NEW j \in ParametricFor(r) PROVE i <= j
    <3>1. PICK b \in DOMAIN list : at[b] = j
      BY <1>8, <2>6, Zenon
    <3>2. b \in matching
      BY <1>7, <3>1, <2>6, Zenon
    <3>3. a <= b
      BY <2>2, <3>2, Zenon
    <3>4. a \in Nat /\ b \in Nat /\ i \in Nat /\ j \in Nat
      BY <1>3, <1>5, <1>6, <2>3, <2>4, <3>1, Zenon
    <3>5. CASE a = b
      BY <2>3, <3>1, <3>4, <3>5
    <3>6. CASE a # b
      <4>1. a < b
        BY <3>3, <3>4, <3>6
      <4>2. at[a] < at[b]
        BY <1>5, <1>6, <2>4, <3>1, <4>1, Zenon DEF Listed
      <4> QED
        BY <2>3, <3>1, <3>4, <4>2
    <3> QED
      BY <3>5, <3>6, Zenon
  <2>7. Min(ParametricFor(r)) = i
    <3>1. ParametricFor(r) \subseteq Nat
      BY <1>1, <1>3, Zenon DEF ParametricFor, RoutesFor
    <3> QED
      BY <2>5, <2>6, <3>1, MinIs, Zenon
  <2>8. RouteFor(r) = x
    BY <1>1, <1>4, <2>3, <2>7, Zenon DEF RouteFor
  <2>9. f = Found(list[a].handler, BindNames(list[a], r.path))
    BY <1>9, <1>11, <2>1, Zenon
  <2>10. PICK b : b = BindNames(Parametric(x), r.path)
    BY Zenon
  <2>11. f.found = TRUE /\ f.handler = x.handler /\ f.params = b
    BY <2>4, <2>9, <2>10 DEF Found, Parametric, create_parametric_route
  <2>12. Len(r.path) = Len(x.path)
    BY <1>1, <2>3, <2>5, Zenon DEF ParametricFor, RoutesFor, regex_match
  <2>13. ASSUME GroupsAreNames(x.path, r.path), NEW name \in Range(NamesOf(x.path))
         PROVE  name \in DOMAIN b /\ HasGroupOf(name, b[name], x.path, r.path)
    <3>1. r.path \in Seq(STRING)
      BY RequestsAssumption, Zenon
    <3>2. x.path \in Seq([names : Seq(STRING), text : STRING])
      BY <2>4, PathsTyped, Zenon
    <3>3. PICK texts \in Seq(STRING) : texts = r.path
      BY <3>1, Zenon
    <3>4. Len(texts) = Len(x.path) /\ b = BindNames(Parametric(x), texts)
      BY <2>10, <2>12, <3>3, Zenon
    <3>5. ASSUME NEW k \in DOMAIN x.path PROVE Captures(x.path[k].text, texts[k]) \in Seq(STRING)
      <4>1. PICK R : x.path \in Seq(R)
        BY <3>2, Zenon
      <4>2. k \in DOMAIN texts
        BY <3>4, <4>1
      <4>3. x.path[k] \in Range(x.path) /\ texts[k] \in Range(r.path)
        BY <3>3, <4>2, Zenon DEF Range
      <4> QED
        BY <2>4, <4>3, CapturesAssumption, Zenon DEF AllRoutes, RoutesFrom
    <3>6. name \in DOMAIN b /\ HasGroupOf(name, b[name], x.path, texts)
      BY <2>13, <3>2, <3>3, <3>4, <3>5, NamesBound, Zenon
    <3> QED
      BY <3>3, <3>6, Zenon
  <2> QED
    BY <2>5, <2>8, <2>11, <2>13, Zenon DEF IsFor
<1> QED
  BY <1>10, <1>11, Zenon

-----------------------------------------------------------------------------
(* The body readers keep the context of a request what it is. *)

LEMMA CachesFields ==
    ASSUME NEW r, NEW params, NEW j, NEW f, NEW m, NEW ctx, ctx = WithCaches(r, params, j, f, m)
    PROVE  /\ ctx.request = r /\ ctx.path_params = params
           /\ ctx.json = j /\ ctx.form = f /\ ctx.multipart = m
           /\ ctx.headers = parse_headers(r.fields)
           /\ ctx.query_params = parse_query_params(r.query)
BY DEF WithCaches

LEMMA ContextMade ==
    ASSUME NEW r \in Requests, NEW params, NEW ctx, ctx = Context(r, params)
    PROVE  ContextInv(ctx) /\ ctx.request = r /\ ctx.path_params = params
<1>1. ctx = WithCaches(r, params, nullopt, nullopt, nullopt)
  BY Zenon DEF Context, WithCaches
<1>2. /\ ctx.request = r /\ ctx.path_params = params
      /\ ctx.json = nullopt /\ ctx.form = nullopt /\ ctx.multipart = nullopt
  BY <1>1, CachesFields
<1> QED
  BY <1>1, <1>2, Zenon DEF ContextInv, JsonCache, FormCache

(* c is the context ctx with other caches. *)
Kept(c, ctx) == ContextInv(c) /\ c.request = ctx.request /\ c.path_params = ctx.path_params

LEMMA CachesKept ==
    ASSUME NEW ctx, ContextInv(ctx), NEW j, NEW f, NEW m, NEW c,
           c = WithCaches(ctx.request, ctx.path_params, j, f, m),
           JsonCache(j, ctx.request), FormCache(f, ctx.request)
    PROVE  Kept(c, ctx)
<1>1. /\ c.request = ctx.request /\ c.path_params = ctx.path_params
      /\ c.json = j /\ c.form = f /\ c.multipart = m
  BY CachesFields
<1> QED
  BY <1>1, Zenon DEF Kept, ContextInv

LEMMA ReadFields ==
    ASSUME NEW ctx, NEW v, NEW t
    PROVE  Read(ctx, v, t).ctx = ctx /\ Read(ctx, v, t).result = v
BY DEF Read

LEMMA ContextCase ==
    ASSUME NEW ctx, ContextInv(ctx)
    PROVE  /\ \A v : [ctx EXCEPT !.json = v] =
                       WithCaches(ctx.request, ctx.path_params, v, ctx.form, ctx.multipart)
           /\ \A v : [ctx EXCEPT !.form = v] =
                       WithCaches(ctx.request, ctx.path_params, ctx.json, v, ctx.multipart)
           /\ \A v : [ctx EXCEPT !.multipart = v] =
                       WithCaches(ctx.request, ctx.path_params, ctx.json, ctx.form, v)
<1>1. PICK r, params, j, f, m : /\ ctx = WithCaches(r, params, j, f, m)
                                /\ r = ctx.request /\ params = ctx.path_params
                                /\ j = ctx.json /\ f = ctx.form /\ m = ctx.multipart
  BY Zenon DEF ContextInv
<1>2. /\ \A v : [ctx EXCEPT !.json = v] = WithCaches(r, params, v, f, m)
      /\ \A v : [ctx EXCEPT !.form = v] = WithCaches(r, params, j, v, m)
      /\ \A v : [ctx EXCEPT !.multipart = v] = WithCaches(r, params, j, f, v)
  BY <1>1 DEF WithCaches
<1> QED
  BY <1>1, <1>2, Zenon

LEMMA JsonKeeps ==
    ASSUME NEW ctx, ContextInv(ctx)
    PROVE  Kept(json(ctx).ctx, ctx)
<1>1. PICK j : j = Some(ctx.request.body.json)
  BY Zenon
<1>2. PICK d : d = [ctx EXCEPT !.json = j]
  BY Zenon
<1>3. PICK v, t : \/ json(ctx) = Read(ctx, v, t)
                  \/ JsonCache(j, ctx.request) /\ json(ctx) = Read(d, v, t)
  BY <1>1, <1>2, Zenon DEF json, JsonCache
<1>4. d = WithCaches(ctx.request, ctx.path_params, j, ctx.form, ctx.multipart)
  BY <1>2, ContextCase, Zenon
<1>5. FormCache(ctx.form, ctx.request)
  BY Zenon DEF ContextInv
<1>6. JsonCache(j, ctx.request) => Kept(d, ctx)
  BY <1>4, <1>5, CachesKept, Zenon
<1> QED
  BY <1>3, <1>6, ReadFields DEF Kept

LEMMA FormKeeps ==
    ASSUME NEW ctx, ContextInv(ctx)
    PROVE  Kept(form_data(ctx).ctx, ctx)
<1>1. PICK v, t, g, d : /\ d = [ctx EXCEPT !.form = g]
                        /\ \/ form_data(ctx) = Read(ctx, v, t)
                           \/ FormCache(g, ctx.request) /\ form_data(ctx) = Read(d, v, t)
  BY Zenon DEF form_data, parse_form_data_body, ContextInv, FormCache
<1>2. d = WithCaches(ctx.request, ctx.path_params, ctx.json, g, ctx.multipart)
  BY <1>1, ContextCase, Zenon
<1>3. JsonCache(ctx.json, ctx.request)
  BY Zenon DEF ContextInv
<1>4. FormCache(g, ctx.request) => Kept(d, ctx)
  BY <1>2, <1>3, CachesKept, Zenon
<1>5. Read(ctx, v, t).ctx = ctx /\ Read(d, v, t).ctx = d
  BY ReadFields, ZenonT(40)
<1>6. Kept(ctx, ctx)
  BY Zenon DEF Kept
<1> QED
  BY <1>1, <1>4, <1>5, <1>6, Zenon

LEMMA MultipartKeeps ==
    ASSUME NEW ctx, ContextInv(ctx)
    PROVE  Kept(multipart_data(ctx).ctx, ctx)
<1>1. PICK p, d : p = Some(<<>>) /\ d = [ctx EXCEPT !.multipart = p]
  BY Zenon
<1>2. PICK v, t : multipart_data(ctx) = Read(ctx, v, t) \/ multipart_data(ctx) = Read(d, v, t)
  BY <1>1, Zenon DEF multipart_data
<1>3. d = WithCaches(ctx.request, ctx.path_params, ctx.json, ctx.form, p)
  BY <1>1, ContextCase, Zenon
<1>4. JsonCache(ctx.json, ctx.request) /\ FormCache(ctx.form, ctx.request)
  BY Zenon DEF ContextInv
<1>5. Kept(d, ctx)
  BY <1>3, <1>4, CachesKept, Zenon
<1> QED
  BY <1>2, <1>5, ReadFields DEF Kept

-----------------------------------------------------------------------------
(* Every session asked the registry of now. *)

LEMMA FoundForm ==
    ASSUME NEW reg, NEW m, NEW t, NEW f, f = find_handler(reg, m, t)
    PROVE  /\ f.found \in BOOLEAN
           /\ f.found => f = Found(f.handler, f.params)
           /\ ~f.found => f = NotFound
<1>1. PICK h, p : f = Found(h, p) \/ f = NotFound
  BY Zenon DEF find_handler
<1>2. CASE f = Found(h, p)
  BY <1>2 DEF Found
<1>3. CASE f = NotFound
  BY <1>3 DEF NotFound
<1> QED
  BY <1>1, <1>2, <1>3

(* A step of the session of n leaves the registry and the others alone. *)
LEMMA CallsMove ==
    ASSUME CallsInv, NEW n \in Conns, NEW s, Becomes(n, s), runs # 0,
           runs' = runs, registry' = registry, idle' \in Nat,
           s.st \in {"handling", "suspended"} => CalledRight(s, registry),
           s.st = "writing" /\ s.res.factory = "not_found" => RefusedRight(s, registry)
    PROVE  CallsInv'
<1>1. sess' = [m \in Conns |-> IF m = n THEN s ELSE sess[m]]
  BY Zenon DEF CallsInv, Becomes
<1>2. PICK q : q = [m \in Conns |-> IF m = n THEN s ELSE sess[m]]
  BY Zenon
<1>3. sess' = q /\ \A m \in Conns : q[m] = IF m = n THEN s ELSE sess[m]
  BY <1>1, <1>2
<1>4. q = [m \in Conns |-> q[m]]
  BY <1>2, <1>3, Zenon
<1>5. ASSUME NEW m \in Conns
      PROVE  /\ q[m].st \in {"handling", "suspended"} => CalledRight(q[m], registry)
             /\ q[m].st = "writing" /\ q[m].res.factory = "not_found" => RefusedRight(q[m], registry)
  <2>1. CASE m = n
    BY <1>3, <2>1, Zenon
  <2>2. CASE m # n
    BY <1>3, <2>2, Zenon DEF CallsInv, InHandler
  <2> QED
    BY <2>1, <2>2
<1>6. runs \in Nat
  BY DEF CallsInv
<1> QED
  BY <1>3, <1>4, <1>5, <1>6, Zenon DEF CallsInv, InHandler

LEMMA FreeRuns ==
    ASSUME CallsInv, idle > 0
    PROVE  runs # 0 /\ idle \in Nat /\ idle - 1 \in Nat
BY DEF CallsInv

LEMMA SessionRuns ==
    ASSUME CallsInv, NEW n \in Conns, sess[n].st # "none"
    PROVE  runs # 0 /\ idle \in Nat /\ idle + 1 \in Nat
<1>1. runs # 0 /\ idle \in Nat
  BY Zenon DEF CallsInv
<1> QED
  BY <1>1

LEMMA CallsClosed ==
    ASSUME CallsInv, NEW n \in Conns, NEW how, Becomes(n, Closed(how)), runs # 0,
           runs' = runs, registry' = registry, idle' \in Nat
    PROVE  CallsInv'
<1>1. PICK s : s = Closed(how)
  BY Zenon
<1>2. s.st = "closed"
  BY <1>1 DEF Closed
<1>3. Becomes(n, s) /\ s.st \notin {"handling", "suspended"} /\ s.st # "writing"
  BY <1>1, <1>2
<1> QED
  BY <1>3, CallsMove, Zenon

LEMMA CallsRespond ==
    ASSUME CallsInv, NEW n \in Conns, NEW r, NEW res, NEW js, NEW done,
           Respond(n, r, res, js, done), runs # 0,
           runs' = runs, registry' = registry, idle' \in Nat,
           res.factory = "not_found" =>
               r \in Requests /\ find_handler(registry, r.method, r.path) = NotFound
    PROVE  CallsInv'
<1>1. PICK s : s = [st |-> "writing", req |-> r, res |-> res]
  BY Zenon
<1>2. Becomes(n, Closed("dropped")) \/ Becomes(n, s)
  BY <1>1, Zenon DEF Respond
<1>3. CASE Becomes(n, s)
  <2>1. s.st = "writing" /\ s.req = r /\ s.res = res
    BY <1>1
  <2>2. s.st \notin {"handling", "suspended"}
    BY <2>1
  <2>3. s.res.factory = "not_found" => RefusedRight(s, registry)
    BY <2>1, Zenon DEF RefusedRight
  <2> QED
    BY <1>3, <2>2, <2>3, CallsMove, Zenon
<1> QED
  BY <1>2, <1>3, CallsClosed, Zenon

LEMMA SameRegistry ==
    ASSUME SessionStep
    PROVE  registry' = registry /\ runs' = runs
BY DEF SessionStep, configVars, lifeVars

LEMMA ReadRequestCalls ==
    ASSUME CallsInv, NEW n \in Conns, NEW r \in Requests, ReadRequest(n, r)
    PROVE  CallsInv'
<1>1. registry' = registry /\ runs' = runs
  BY SameRegistry, Zenon DEF ReadRequest
<1>2. idle > 0
  BY Zenon DEF ReadRequest, Free
<1>3. runs # 0 /\ idle \in Nat /\ idle - 1 \in Nat
  BY <1>2, FreeRuns
<1>4. PICK f : f = find_handler(registry, r.method, r.path)
  BY Zenon
<1>5. PICK c : c = Context(r, f.params)
  BY Zenon
<1>6. PICK s : s = [st |-> "handling", handler |-> f.handler, awaits |-> 0, ctx |-> c]
  BY Zenon
<1>7. \/ Becomes(n, Closed("dropped")) /\ idle' = idle
      \/ f.found /\ Becomes(n, s) /\ idle' = idle - 1
      \/ ~f.found /\ (\E js, done : Respond(n, r, not_found(r.version), js, done)) /\ idle' = idle
  BY <1>4, <1>5, <1>6, Zenon DEF ReadRequest, HandleRequest
<1>8. /\ f.found => f = Found(f.handler, f.params)
      /\ ~f.found => f = NotFound
  BY <1>4, FoundForm
<1>9. CASE f.found /\ Becomes(n, s) /\ idle' = idle - 1
  <2>1. ContextInv(c) /\ c.request = r /\ c.path_params = f.params
    BY <1>5, ContextMade
  <2>2. s.st = "handling" /\ s.handler = f.handler /\ s.awaits \in Nat /\ s.ctx = c
    BY <1>6
  <2>3. CalledRight(s, registry)
    BY <1>4, <1>6, <1>8, <1>9, <2>1, <2>2, Zenon DEF CalledRight
  <2>4. s.st # "writing"
    BY <2>2
  <2>5. idle' \in Nat
    BY <1>3, <1>9
  <2> QED
    BY <1>1, <1>3, <1>9, <2>3, <2>4, <2>5, CallsMove, Zenon
<1>10. ASSUME ~f.found, NEW js, NEW done, idle' = idle,
              Respond(n, r, not_found(r.version), js, done)
       PROVE  CallsInv'
  <2>1. PICK res : res = not_found(r.version)
    BY Zenon
  <2>2. find_handler(registry, r.method, r.path) = NotFound
    BY <1>4, <1>8, <1>10, Zenon
  <2> QED
    BY <1>1, <1>3, <1>10, <2>1, <2>2, CallsRespond, Zenon
<1> QED
  BY <1>1, <1>3, <1>7, <1>9, <1>10, CallsClosed, Zenon

LEMMA ReadEndsCalls ==
    ASSUME CallsInv, NEW n \in Conns, ReadEnds(n)
    PROVE  CallsInv'
<1>1. registry' = registry /\ runs' = runs /\ idle' = idle
  BY SameRegistry, Zenon DEF ReadEnds
<1>2. idle > 0
  BY Zenon DEF ReadEnds, Free
<1>3. runs # 0 /\ idle' \in Nat
  BY <1>1, <1>2, FreeRuns
<1>4. PICK how : Becomes(n, Closed(how))
  BY Zenon DEF ReadEnds
<1> QED
  BY <1>1, <1>3, <1>4, CallsClosed, Zenon

LEMMA HandlerReadsCalls ==
    ASSUME CallsInv, NEW n \in Conns, HandlerReads(n)
    PROVE  CallsInv'
<1>1. registry' = registry /\ runs' = runs /\ idle' = idle /\ sess[n].st = "handling"
  BY SameRegistry, Zenon DEF HandlerReads
<1>2. sess[n].st # "none"
  BY <1>1
<1>3. runs # 0 /\ idle' \in Nat
  BY <1>1, <1>2, SessionRuns
<1>4. PICK x : x = sess[n]
  BY Zenon
<1>5. CalledRight(x, registry)
  BY <1>1, <1>4, Zenon DEF CallsInv, InHandler
<1>6. PICK c1 : c1 = json(x.ctx).ctx
  BY Zenon
<1>7. PICK c2 : c2 = form_data(c1).ctx
  BY Zenon
<1>8. PICK c : c = multipart_data(c2).ctx
  BY Zenon
<1>9. Kept(c1, x.ctx)
  BY <1>5, <1>6, JsonKeeps, Zenon DEF CalledRight
<1>10. Kept(c2, c1)
  BY <1>7, <1>9, FormKeeps, Zenon DEF Kept
<1>11. Kept(c, c2)
  BY <1>8, <1>10, MultipartKeeps, Zenon DEF Kept
<1>12. ContextInv(c) /\ c.request = x.ctx.request /\ c.path_params = x.ctx.path_params
  BY <1>9, <1>10, <1>11, Zenon DEF Kept
<1>13. PICK s : s = [x EXCEPT !.ctx = c]
  BY Zenon
<1>14. Becomes(n, s)
  BY <1>4, <1>6, <1>7, <1>8, <1>13, Zenon DEF HandlerReads
<1>15. x = [st |-> x.st, handler |-> x.handler, awaits |-> x.awaits, ctx |-> x.ctx]
  BY <1>5, Zenon DEF CalledRight
<1>16. /\ s = [st |-> s.st, handler |-> s.handler, awaits |-> s.awaits, ctx |-> s.ctx]
       /\ s.st = "handling" /\ s.awaits = x.awaits /\ s.handler = x.handler /\ s.ctx = c
  BY <1>1, <1>4, <1>13, <1>15
<1>17. CalledRight(s, registry)
  BY <1>5, <1>12, <1>16, Zenon DEF CalledRight
<1>18. s.st # "writing"
  BY <1>16
<1> QED
  BY <1>1, <1>3, <1>14, <1>17, <1>18, CallsMove, Zenon

LEMMA HandlerSuspendsCalls ==
    ASSUME CallsInv, NEW n \in Conns, HandlerSuspends(n)
    PROVE  CallsInv'
<1>1. registry' = registry /\ runs' = runs /\ idle' = idle + 1 /\ sess[n].st = "handling"
  BY SameRegistry, Zenon DEF HandlerSuspends
<1>2. sess[n].st # "none"
  BY <1>1
<1>3. runs # 0 /\ idle' \in Nat
  BY <1>1, <1>2, SessionRuns
<1>4. PICK x : x = sess[n]
  BY Zenon
<1>5. CalledRight(x, registry)
  BY <1>1, <1>4, Zenon DEF CallsInv, InHandler
<1>6. PICK s : s = [x EXCEPT !.st = "suspended", !.awaits = @ + 1]
  BY Zenon
<1>7. Becomes(n, s)
  BY <1>4, <1>6, Zenon DEF HandlerSuspends
<1>8. PICK t, h, c, w : w \in Nat /\ x = [st |-> t, handler |-> h, awaits |-> w, ctx |-> c]
  BY <1>5, Zenon DEF CalledRight
<1>9. s = [st |-> "suspended", handler |-> h, awaits |-> w + 1, ctx |-> c]
  <2>1. DOMAIN x = {"st", "handler", "awaits", "ctx"} /\ x.awaits = w
    BY <1>8
  <2>2. DOMAIN s = {"st", "handler", "awaits", "ctx"} /\ s = [i \in DOMAIN s |-> s[i]]
    <3>1. DOMAIN s = DOMAIN x
      BY <1>6, Zenon
    <3>2. s = [i \in DOMAIN s |-> s[i]]
      BY <1>6, Zenon
    <3> QED
      BY <2>1, <3>1, <3>2, Zenon
  <2>3. s.awaits = w + 1
    BY <1>6, <2>1
  <2>4. s.st = "suspended" /\ s.handler = h /\ s.ctx = c
    BY <1>6, <1>8
  <2> QED
    BY <2>2, <2>3, <2>4
<1>10. /\ s = [st |-> s.st, handler |-> s.handler, awaits |-> s.awaits, ctx |-> s.ctx]
       /\ s.st = "suspended" /\ s.awaits \in Nat /\ s.handler = x.handler /\ s.ctx = x.ctx
  BY <1>8, <1>9
<1>11. CalledRight(s, registry)
  BY <1>5, <1>10, Zenon DEF CalledRight
<1>12. s.st # "writing"
  BY <1>10
<1> QED
  BY <1>1, <1>3, <1>7, <1>11, <1>12, CallsMove, Zenon

LEMMA HandlerResumesCalls ==
    ASSUME CallsInv, NEW n \in Conns, HandlerResumes(n)
    PROVE  CallsInv'
<1>1. registry' = registry /\ runs' = runs /\ idle' = idle - 1 /\ sess[n].st = "suspended"
  BY SameRegistry, Zenon DEF HandlerResumes
<1>2. idle > 0
  BY Zenon DEF HandlerResumes, Free
<1>3. runs # 0 /\ idle' \in Nat
  BY <1>1, <1>2, FreeRuns
<1>4. PICK x : x = sess[n]
  BY Zenon
<1>5. CalledRight(x, registry)
  BY <1>1, <1>4, Zenon DEF CallsInv, InHandler
<1>6. PICK s : s = [x EXCEPT !.st = "handling"]
  BY Zenon
<1>7. Becomes(n, s)
  BY <1>4, <1>6, Zenon DEF HandlerResumes
<1>8. x = [st |-> x.st, handler |-> x.handler, awaits |-> x.awaits, ctx |-> x.ctx]
  BY <1>5, Zenon DEF CalledRight
<1>9. /\ s = [st |-> s.st, handler |-> s.handler, awaits |-> s.awaits, ctx |-> s.ctx]
      /\ s.st = "handling" /\ s.awaits = x.awaits /\ s.handler = x.handler /\ s.ctx = x.ctx
  BY <1>6, <1>8
<1>10. CalledRight(s, registry)
  BY <1>5, <1>9, Zenon DEF CalledRight
<1>11. s.st # "writing"
  BY <1>9
<1> QED
  BY <1>1, <1>3, <1>7, <1>10, <1>11, CallsMove, Zenon

LEMMA HandlerEndsCalls ==
    ASSUME CallsInv, NEW n \in Conns, HandlerEnds(n)
    PROVE  CallsInv'
<1>1. registry' = registry /\ runs' = runs /\ idle' = idle + 1 /\ sess[n].st = "handling"
  BY SameRegistry, Zenon DEF HandlerEnds, HandlerReturns, HandlerThrows
<1>2. sess[n].st # "none"
  BY <1>1
<1>3. runs # 0 /\ idle' \in Nat
  BY <1>1, <1>2, SessionRuns
<1>4. CASE HandlerReturns(n)
  <2>1. PICK r, res, js, done : /\ res \in FactoryResponses(r.version)
                                /\ Respond(n, r, res, js, done)
    BY <1>4, Zenon DEF HandlerReturns
  <2>2. res.factory # "not_found"
    BY <2>1 DEF FactoryResponses, Response
  <2> QED
    BY <1>1, <1>3, <2>1, <2>2, CallsRespond, Zenon
<1>5. CASE HandlerThrows(n)
  <2>1. PICK how : Becomes(n, Closed(how))
    BY <1>5, Zenon DEF HandlerThrows, SessionThrows
  <2> QED
    BY <1>1, <1>3, <2>1, CallsClosed, Zenon
<1> QED
  BY <1>4, <1>5, Zenon DEF HandlerEnds

LEMMA WriteDoneCalls ==
    ASSUME CallsInv, NEW n \in Conns, WriteDone(n)
    PROVE  CallsInv'
<1>1. registry' = registry /\ runs' = runs /\ idle' = idle
  BY SameRegistry, Zenon DEF WriteDone
<1>2. idle > 0
  BY Zenon DEF WriteDone, Free
<1>3. runs # 0 /\ idle' \in Nat
  BY <1>1, <1>2, FreeRuns
<1>4. PICK s : s = [st |-> "reading"]
  BY Zenon
<1>5. s.st \notin {"handling", "suspended"} /\ s.st # "writing"
  BY <1>4
<1>6. Becomes(n, s) \/ Becomes(n, Closed("end"))
  BY <1>4, Zenon DEF WriteDone
<1>7. CASE Becomes(n, s)
  BY <1>1, <1>3, <1>5, <1>7, CallsMove, Zenon
<1> QED
  BY <1>1, <1>3, <1>6, <1>7, CallsClosed, Zenon

LEMMA WriteFailsCalls ==
    ASSUME CallsInv, NEW n \in Conns, WriteFails(n)
    PROVE  CallsInv'
<1>1. registry' = registry /\ runs' = runs /\ idle' = idle
  BY SameRegistry, Zenon DEF WriteFails
<1>2. idle > 0
  BY Zenon DEF WriteFails, Free
<1>3. runs # 0 /\ idle' \in Nat
  BY <1>1, <1>2, FreeRuns
<1>4. PICK how : Becomes(n, Closed(how))
  BY Zenon DEF WriteFails, SessionThrows
<1> QED
  BY <1>1, <1>3, <1>4, CallsClosed, Zenon

LEMMA AcceptCalls ==
    ASSUME CallsInv, NEW n \in Conns, Accept(n)
    PROVE  CallsInv'
<1>1. registry' = registry /\ runs' = runs /\ idle' = idle
  BY DEF Accept, configVars, lifeVars
<1>2. idle > 0
  BY Zenon DEF Accept, Free
<1>3. runs # 0 /\ idle' \in Nat
  BY <1>1, <1>2, FreeRuns
<1>4. PICK s : s = [st |-> "reading"]
  BY Zenon
<1>5. s.st \notin {"handling", "suspended"} /\ s.st # "writing"
  BY <1>4
<1>6. Becomes(n, s)
  BY <1>4, Zenon DEF Accept, Becomes
<1> QED
  BY <1>1, <1>3, <1>5, <1>6, CallsMove, Zenon

LEMMA SessionCalls ==
    ASSUME CallsInv, NEW n \in Conns, Session(n)
    PROVE  CallsInv'
BY ReadRequestCalls, ReadEndsCalls, HandlerReadsCalls, HandlerSuspendsCalls,
   HandlerResumesCalls, HandlerEndsCalls, WriteDoneCalls, WriteFailsCalls, Zenon DEF Session

(* The routes of a controller come before the first run(). *)
LEMMA AddControllerCalls ==
    ASSUME CallsInv, NEW c \in Controllers, AddController(c)
    PROVE  CallsInv'
<1>1. runs = 0 /\ runs' = runs /\ idle' = idle /\ sess' = sess
  BY DEF AddController, Registering, lifeVars
<1>2. \A n \in Conns : sess[n].st = "none"
  BY <1>1, Zenon DEF CallsInv
<1>3. ASSUME NEW n \in Conns
      PROVE  ~InHandler(n)' /\ sess'[n].st # "writing"
  BY <1>1, <1>2, <1>3 DEF InHandler
<1> QED
  BY <1>1, <1>2, <1>3, Zenon DEF CallsInv

LEMMA runCalls ==
    ASSUME CallsInv, run
    PROVE  CallsInv'
<1>1. registry' = registry /\ runs' = runs + 1 /\ idle' = thread_count /\ sess' = sess
  BY DEF run, configVars
<1>2. runs' \in Nat /\ runs' # 0 /\ idle' \in Nat
  BY <1>1, ThreadAssumption DEF CallsInv
<1> QED
  BY <1>1, <1>2, Zenon DEF CallsInv, InHandler

LEMMA ThreadReturnsCalls ==
    ASSUME CallsInv, ThreadReturns
    PROVE  CallsInv'
<1>1. /\ registry' = registry /\ runs' = runs /\ idle' = idle - 1 /\ sess' = sess
      /\ idle > 0
  BY DEF ThreadReturns, configVars, lifeVars
<1>2. runs # 0 /\ idle' \in Nat
  BY <1>1, FreeRuns
<1> QED
  BY <1>1, <1>2, Zenon DEF CallsInv, InHandler

LEMMA OthersCalls ==
    ASSUME CallsInv, UNCHANGED <<registry, runs, idle, sess>>
    PROVE  CallsInv'
BY Zenon DEF CallsInv, InHandler

LEMMA CallsNext == CallsInv /\ [Next]_vars => CallsInv'
<1> SUFFICES ASSUME CallsInv, [Next]_vars
             PROVE  CallsInv'
  OBVIOUS
<1>1. CASE \E k \in AsyncKinds : RunJob(k)
  <2>1. UNCHANGED <<registry, runs, idle, sess>>
    BY <1>1 DEF RunJob, configVars, lifeVars
  <2> QED
    BY <2>1, OthersCalls, Zenon
<1>2. CASE \/ listen \/ JoinAndStopCallbacks \/ ShutdownControllers
           \/ StopBegins \/ stop \/ Signal \/ Destroy
  <2>1. UNCHANGED <<registry, runs, idle, sess>>
    <3>1. CASE listen \/ JoinAndStopCallbacks
      <4>1. UNCHANGED configVars /\ UNCHANGED <<runs, idle, sess>>
        BY <3>1, Zenon DEF listen, JoinAndStopCallbacks
      <4> QED
        BY <4>1 DEF configVars
    <3>2. CASE ShutdownControllers \/ StopBegins
      BY <3>2 DEF ShutdownControllers, StopBegins, configVars
    <3>3. CASE stop \/ Signal \/ Destroy
      BY <3>3 DEF stop, Signal, Destroy, configVars
    <3> QED
      BY <1>2, <3>1, <3>2, <3>3, Zenon
  <2> QED
    BY <2>1, OthersCalls, Zenon
<1>3. CASE AcceptStarts \/ AcceptFails
  <2>1. UNCHANGED <<registry, runs, idle, sess>>
    BY <1>3 DEF AcceptStarts, AcceptFails, configVars, lifeVars
  <2> QED
    BY <2>1, OthersCalls, Zenon
<1>4. CASE UNCHANGED vars
  <2>1. UNCHANGED <<registry, runs, idle, sess>>
    BY <1>4 DEF vars
  <2> QED
    BY <2>1, OthersCalls, Zenon
<1> QED
  BY <1>1, <1>2, <1>3, <1>4, AddControllerCalls, runCalls, ThreadReturnsCalls, AcceptCalls,
     SessionCalls, Zenon DEF Next

LEMMA CallsInit == Init => CallsInv
<1> SUFFICES ASSUME Init
             PROVE  CallsInv
  OBVIOUS
<1>1. idle = 0 /\ runs = 0 /\ sess = [n \in Conns |-> NoSession]
  BY Zenon DEF Init
<1>2. NoSession.st = "none"
  BY DEF NoSession
<1>3. \A n \in Conns : sess[n].st = "none"
  BY <1>1, <1>2
<1>4. \A n \in Conns : ~InHandler(n) /\ sess[n].st # "writing"
  BY <1>3 DEF InHandler
<1>5. 0 \in Nat
  OBVIOUS
<1> QED
  BY <1>1, <1>3, <1>4, <1>5, Zenon DEF CallsInv

LEMMA RoutesInit == Init => RoutesInv
<1> SUFFICES ASSUME Init
             PROVE  RoutesInv
  OBVIOUS
<1>1. /\ registry = EmptyRegistry
      /\ own = [c \in Controllers |-> EmptyRegistry]
      /\ routes = [merged |-> <<>>, own |-> [c \in Controllers |-> <<>>]]
  BY Zenon DEF Init
<1>2. routes.merged = <<>> /\ routes.own = [c \in Controllers |-> <<>>]
  BY <1>1
<1>3. /\ routes = [merged |-> routes.merged, own |-> routes.own]
      /\ routes.own = [c \in Controllers |-> routes.own[c]]
      /\ own = [c \in Controllers |-> own[c]]
  BY <1>1, <1>2, Zenon
<1>4. \A c \in Controllers : own[c] = EmptyRegistry /\ routes.own[c] = <<>>
  BY <1>1, <1>2, Zenon
<1> QED
  BY <1>1, <1>2, <1>3, <1>4, RepresentsEmpty, Zenon DEF RoutesInv

(* Only add_controller touches the registries. *)
LEMMA ConfigFixed ==
    ASSUME [Next]_vars, ~\E c \in Controllers : AddController(c)
    PROVE  UNCHANGED configVars
<1>1. CASE \E k \in AsyncKinds : RunJob(k)
  BY <1>1, Zenon DEF RunJob
<1>2. CASE listen \/ run \/ JoinAndStopCallbacks \/ ShutdownControllers
  BY <1>2, Zenon DEF listen, run, JoinAndStopCallbacks, ShutdownControllers
<1>3. CASE StopBegins \/ stop \/ Signal \/ Destroy
  BY <1>3, Zenon DEF StopBegins, stop, Signal, Destroy
<1>4. CASE ThreadReturns \/ AcceptStarts \/ AcceptFails \/ \E n \in Conns : Accept(n)
  BY <1>4, Zenon DEF ThreadReturns, AcceptStarts, AcceptFails, Accept
<1>5. CASE \E n \in Conns : Session(n)
  <2>1. SessionStep
    BY <1>5, Zenon DEF Session, HandlerEnds, ReadRequest, ReadEnds, HandlerReads,
          HandlerSuspends, HandlerResumes, HandlerReturns, HandlerThrows, WriteDone, WriteFails
  <2> QED
    BY <2>1, Zenon DEF SessionStep
<1>6. CASE UNCHANGED vars
  BY <1>6 DEF vars, configVars
<1> QED
  BY <1>1, <1>2, <1>3, <1>4, <1>5, <1>6, Zenon DEF Next

LEMMA RoutesNext == RoutesInv /\ [Next]_vars => RoutesInv'
<1> SUFFICES ASSUME RoutesInv, [Next]_vars
             PROVE  RoutesInv'
  OBVIOUS
<1>1. CASE \E c \in Controllers : AddController(c)
  BY <1>1, AddControllerRoutes, Zenon
<1>2. CASE UNCHANGED configVars
  <2>1. UNCHANGED <<registry, own, routes>>
    BY <1>2 DEF configVars
  <2> QED
    BY <2>1, Zenon DEF RoutesInv
<1> QED
  BY <1>1, <1>2, ConfigFixed, Zenon

(* find_handler gives the route that the calls of add_route say, or none. *)
LEMMA FindsRight ==
    ASSUME RoutesInv, NEW r \in Requests, NEW f, f = find_handler(registry, r.method, r.path)
    PROVE  /\ f.found => IsFor(f, r)
           /\ ~f.found => ExactFor(r) \cup ParametricFor(r) = {}
<1>1. Represents(registry, routes.merged)
  BY Zenon DEF RoutesInv
<1>2. PICK key : key = make_route_key(r.method, r.path)
  BY Zenon
<1>3. CASE key \in DOMAIN registry.exact
  BY <1>1, <1>2, <1>3, FindsExact, Zenon
<1>4. CASE key \notin DOMAIN registry.exact
  BY <1>1, <1>2, <1>4, FindsParametric, Zenon
<1> QED
  BY <1>3, <1>4

(* However the controllers were added, a request reaches the handler of    *)
(* the route it is for, with the names of the route bound to the texts in  *)
(* their places, and the server answers 404 only where no route matches,   *)
(* for all controllers, routes, requests, connections and threads          *)
(* (RouteRegistry::merge, find_handler, Server::handle_request).           *)
THEOREM ServerRoutesRight == Spec => []RoutedRight
<1>1. Init => RoutesInv /\ CallsInv
  BY RoutesInit, CallsInit, Zenon
<1>2. RoutesInv /\ CallsInv /\ [Next]_vars => (RoutesInv /\ CallsInv)'
  BY RoutesNext, CallsNext, Zenon
<1>3. RoutesInv /\ CallsInv => RoutedRight
  <2> SUFFICES ASSUME RoutesInv, CallsInv
               PROVE  RoutedRight
    OBVIOUS
  <2>1. ASSUME NEW n \in Conns, InHandler(n)
        PROVE  LET r     == sess[n].ctx.request
                   route == RouteFor(r)
               IN  /\ ExactFor(r) \cup ParametricFor(r) # {}
                   /\ sess[n].handler = route.handler
                   /\ GroupsAreNames(route.path, r.path) =>
                         \A name \in Range(NamesOf(route.path)) :
                             \E i \in DOMAIN r.path : \E k \in DOMAIN route.path[i].names :
                                 /\ route.path[i].names[k] = name
                                 /\ path(sess[n].ctx, "string", name) =
                                       Some(Captures(route.path[i].text, r.path[i])[k])
    <3>1. PICK ctx, r, route : ctx = sess[n].ctx /\ r = ctx.request /\ route = RouteFor(r)
      BY Zenon
    <3>2. CalledRight(sess[n], registry)
      BY <2>1, Zenon DEF CallsInv
    <3>3. PICK f, h, p : /\ f = find_handler(registry, r.method, r.path)
                         /\ f = Found(h, p) /\ h = sess[n].handler /\ p = ctx.path_params
      BY <3>1, <3>2, Zenon DEF CalledRight
    <3>4. f.found = TRUE /\ f.handler = h /\ f.params = p
      BY <3>3 DEF Found
    <3>5. r \in Requests
      BY <3>1, <3>2, Zenon DEF CalledRight, ContextInv
    <3>6. IsFor(f, r)
      BY <3>3, <3>4, <3>5, FindsRight, Zenon
    <3>7. ASSUME GroupsAreNames(route.path, r.path), NEW name \in Range(NamesOf(route.path))
          PROVE  \E i \in DOMAIN r.path : \E k \in DOMAIN route.path[i].names :
                    /\ route.path[i].names[k] = name
                    /\ path(ctx, "string", name) = Some(Captures(route.path[i].text, r.path[i])[k])
      <4>1. PICK i, k :
                /\ i \in DOMAIN r.path /\ name \in DOMAIN p /\ k \in DOMAIN route.path[i].names
                /\ route.path[i].names[k] = name
                /\ p[name] = Captures(route.path[i].text, r.path[i])[k]
        <5>1. name \in DOMAIN p /\ HasGroupOf(name, p[name], route.path, r.path)
          BY <3>1, <3>4, <3>6, <3>7, Zenon DEF IsFor
        <5> QED
          BY <5>1, Zenon DEF HasGroupOf
      <4>2. PICK v, o : v = Captures(route.path[i].text, r.path[i])[k] /\ o = Some(v)
        BY Zenon
      <4>3. o.has = TRUE /\ o.val = v
        BY <4>2 DEF Some
      <4>4. path(ctx, "string", name) = o
        BY <3>3, <4>1, <4>2, <4>3, Zenon DEF path, Lookup, Converted, convert_string
      <4> QED
        BY <4>1, <4>2, <4>4, Zenon
    <3>8. ExactFor(r) \cup ParametricFor(r) # {} /\ sess[n].handler = route.handler
      BY <3>1, <3>3, <3>4, <3>6, Zenon DEF IsFor
    <3> QED
      BY <3>1, <3>7, <3>8, ZenonT(60)
  <2>2. ASSUME NEW n \in Conns, sess[n].st = "writing", sess[n].res.factory = "not_found"
        PROVE  ExactFor(sess[n].req) \cup ParametricFor(sess[n].req) = {}
    <3>1. RefusedRight(sess[n], registry)
      BY <2>2, Zenon DEF CallsInv
    <3>2. PICK r \in Requests : /\ r = sess[n].req
                                /\ find_handler(registry, r.method, r.path) = NotFound
      BY <3>1, Zenon DEF RefusedRight
    <3>3. ~NotFound.found
      BY DEF NotFound
    <3> QED
      BY <3>2, <3>3, FindsRight, Zenon
  <2> QED
    BY <2>1, <2>2, Zenon DEF RoutedRight
<1> QED
  BY <1>1, <1>2, <1>3, PTL DEF Spec

-----------------------------------------------------------------------------
(* What a handler reads of its request *)

(* The value of the last of the entries in hits. *)
LastOf(entries, hits) == IF hits = {} THEN nullopt ELSE Some(entries[Max(hits)].val)

LEMMA LookupLast ==
    ASSUME NEW e, NEW k, NEW hits, hits = {i \in DOMAIN e : e[i].key = k}
    PROVE  Lookup(LastWins(e), k) = LastOf(e, hits)
<1>1. DOMAIN LastWins(e) = {e[i].key : i \in DOMAIN e}
  BY Zenon DEF LastWins
<1>2. k \in DOMAIN LastWins(e) <=> hits # {}
  BY <1>1, Zenon
<1>3. k \in DOMAIN LastWins(e) => LastWins(e)[k] = e[Max(hits)].val
  BY Zenon DEF LastWins
<1> QED
  BY <1>2, <1>3, Zenon DEF Lookup, LastOf

(* The largest place of a sequence that is in hits is in hits. *)
LEMMA LastHit ==
    ASSUME NEW S, NEW es \in Seq(S), NEW hits, hits \subseteq DOMAIN es, hits # {}
    PROVE  Max(hits) \in hits
<1>1. Len(es) \in Nat /\ DOMAIN es = 1 .. Len(es)
  OBVIOUS
<1>2. PICK i \in hits : \A j \in hits : j <= i
  BY <1>1, GreatestOf, Zenon
<1>3. hits \subseteq Nat
  BY <1>1
<1>4. Max(hits) = i
  BY <1>2, <1>3, MaxIs, Zenon
<1> QED
  BY <1>2, <1>4, Zenon

LEMMA LastOfForm ==
    ASSUME NEW e, NEW hits, NEW o, o = LastOf(e, hits)
    PROVE  /\ o.has \in BOOLEAN
           /\ o.has => o = Some(o.val)
           /\ ~o.has => o = nullopt
<1>1. PICK v : o = nullopt \/ o = Some(v)
  BY Zenon DEF LastOf
<1>2. CASE o = nullopt
  BY <1>2 DEF nullopt
<1>3. CASE o = Some(v)
  BY <1>3 DEF Some
<1> QED
  BY <1>1, <1>2, <1>3

(* The lines of a header, whatever the case of its name. *)
LinesOf(fields, t) == {i \in DOMAIN fields : tolower(fields[i].name) = t}

(* The texts of a query or a form with the key k and a =. *)
TextsFor(pairs, k) == {i \in DOMAIN pairs : pairs[i].eq /\ pairs[i].key = k}

LEMMA HeadersParsed ==
    ASSUME NEW S, NEW fields \in Seq(S), NEW t
    PROVE  Lookup(parse_headers(fields), t) = LastOf(fields, LinesOf(fields, t))
<1>1. PICK e : e = [i \in DOMAIN fields |-> [key |-> tolower(fields[i].name), val |-> fields[i].val]]
  BY Zenon
<1>2. DOMAIN e = DOMAIN fields /\ \A i \in DOMAIN fields : e[i].key = tolower(fields[i].name) /\ e[i].val = fields[i].val
  <2>1. ASSUME NEW i \in DOMAIN fields, NEW a, NEW b, a = tolower(fields[i].name), b = fields[i].val
        PROVE  e[i].key = a /\ e[i].val = b
    <3>1. e[i] = [key |-> a, val |-> b]
      BY <1>1, <2>1, Zenon
    <3> QED
      BY <3>1
  <2> QED
    BY <1>1, <2>1, Zenon
<1>3. PICK hits : hits = LinesOf(fields, t)
  BY Zenon
<1>4. hits = {i \in DOMAIN e : e[i].key = t}
  BY <1>2, <1>3, Zenon DEF LinesOf
<1>5. Lookup(LastWins(e), t) = LastOf(e, hits)
  BY <1>4, LookupLast, Zenon
<1>6. hits # {} => Max(hits) \in DOMAIN fields
  <2>1. hits \subseteq DOMAIN fields
    BY <1>3, Zenon DEF LinesOf
  <2> QED
    BY <2>1, LastHit, Zenon
<1>7. LastOf(e, hits) = LastOf(fields, hits)
  BY <1>2, <1>6, Zenon DEF LastOf
<1> QED
  BY <1>1, <1>3, <1>5, <1>7, Zenon DEF parse_headers

LEMMA PairsParsed ==
    ASSUME NEW S, NEW pairs \in Seq(S), NEW k
    PROVE  Lookup(parse_query_params(pairs), k) = LastOf(pairs, TextsFor(pairs, k))
<1>1. PICK e : e = [i \in {j \in DOMAIN pairs : pairs[j].eq} |-> pairs[i]]
  BY Zenon
<1>2. PICK hits : hits = TextsFor(pairs, k)
  BY Zenon
<1>3. hits = {i \in DOMAIN e : e[i].key = k}
  BY <1>1, <1>2, Zenon DEF TextsFor
<1>4. Lookup(LastWins(e), k) = LastOf(e, hits)
  BY <1>3, LookupLast, Zenon
<1>5. hits # {} => Max(hits) \in DOMAIN e
  <2>1. hits \subseteq DOMAIN pairs
    BY <1>2, Zenon DEF TextsFor
  <2> QED
    BY <1>3, <2>1, LastHit, Zenon
<1>6. LastOf(e, hits) = LastOf(pairs, hits)
  BY <1>1, <1>5, Zenon DEF LastOf
<1> QED
  BY <1>1, <1>2, <1>4, <1>6, Zenon DEF parse_query_params

LEMMA ContextRead ==
    ASSUME NEW ctx, ContextInv(ctx), NEW r, r = ctx.request
    PROVE  /\ r \in Requests
           /\ \A name : header(ctx, name) = LastOf(r.fields, LinesOf(r.fields, tolower(name)))
           /\ \A k : Lookup(ctx.query_params, k) = LastOf(r.query, TextsFor(r.query, k))
           /\ \A k : Lookup(parse_query_params(r.body.form), k) =
                        LastOf(r.body.form, TextsFor(r.body.form, k))
<1>1. /\ r \in Requests
      /\ ctx = WithCaches(r, ctx.path_params, ctx.json, ctx.form, ctx.multipart)
  BY Zenon DEF ContextInv
<1>2. ctx.headers = parse_headers(r.fields) /\ ctx.query_params = parse_query_params(r.query)
  BY <1>1, CachesFields
<1>3. /\ r.fields \in Seq(Range(r.fields))
      /\ r.query \in Seq(Range(r.query))
      /\ r.body.form \in Seq(Range(r.body.form))
  BY <1>1, RequestsAssumption, Zenon
<1>4. PICK fields, pairs, form : fields = r.fields /\ pairs = r.query /\ form = r.body.form
  BY Zenon
<1>5. fields \in Seq(Range(fields)) /\ pairs \in Seq(Range(pairs)) /\ form \in Seq(Range(form))
  BY <1>3, <1>4, Zenon
<1>6. /\ \A t : Lookup(parse_headers(fields), t) = LastOf(fields, LinesOf(fields, t))
      /\ \A k : Lookup(parse_query_params(pairs), k) = LastOf(pairs, TextsFor(pairs, k))
      /\ \A k : Lookup(parse_query_params(form), k) = LastOf(form, TextsFor(form, k))
  BY <1>5, HeadersParsed, PairsParsed, Zenon
<1> QED
  BY <1>1, <1>2, <1>4, <1>6, Zenon DEF header

LEMMA QueryRead ==
    ASSUME NEW ctx, ContextInv(ctx), NEW r, r = ctx.request, NEW k
    PROVE  query(ctx, "string", k) = LastOf(r.query, TextsFor(r.query, k))
<1>1. PICK o : o = LastOf(r.query, TextsFor(r.query, k))
  BY Zenon
<1>2. Lookup(ctx.query_params, k) = o
  BY <1>1, ContextRead, Zenon
<1>3. o.has \in BOOLEAN /\ (o.has => o = Some(o.val)) /\ (~o.has => o = nullopt)
  BY <1>1, LastOfForm, Zenon
<1> QED
  BY <1>1, <1>2, <1>3, Zenon DEF query, Converted, convert_string

(* The last Content-Type line has the text kind. *)
TypedAs(r, kind) ==
    LET h == LastOf(r.fields, LinesOf(r.fields, "content-type")) IN h.has /\ kind \in h.val

LEMMA TypeRead ==
    ASSUME NEW ctx, ContextInv(ctx), NEW r, r = ctx.request
    PROVE  /\ is_json(ctx) <=> TypedAs(r, "application/json")
           /\ is_form_data(ctx) <=> TypedAs(r, "application/x-www-form-urlencoded")
<1>1. tolower("content-type") = "content-type"
  BY TolowerAssumption, Zenon
<1>2. header(ctx, "content-type") = LastOf(r.fields, LinesOf(r.fields, "content-type"))
  BY <1>1, ContextRead, Zenon
<1>3. \A kind : HeaderHas(ctx, "content-type", {kind}) <=> TypedAs(r, kind)
  BY <1>2, Zenon DEF HeaderHas, TypedAs
<1> QED
  BY <1>3, Zenon DEF is_json, is_form_data

LEMMA OptionalFields ==
    /\ nullopt.has = FALSE
    /\ \A v : Some(v).has = TRUE /\ Some(v).val = v
BY DEF nullopt, Some

LEMMA JsonRead ==
    ASSUME NEW ctx, ContextInv(ctx), NEW r, r = ctx.request
    PROVE  json(ctx).result =
               IF TypedAs(r, "application/json") /\ r.body.json \notin {"malformed", "throws"}
               THEN Some(r.body.json) ELSE nullopt
<1>1. is_json(ctx) <=> TypedAs(r, "application/json")
  BY TypeRead, Zenon
<1>2. JsonCache(ctx.json, r)
  BY Zenon DEF ContextInv
<1>3. CASE ~is_json(ctx)
  <2>1. json(ctx) = Read(ctx, nullopt, FALSE)
    BY <1>3, Zenon DEF json
  <2>2. json(ctx).result = nullopt
    BY <2>1 DEF Read
  <2> QED
    BY <1>1, <1>3, <2>2, Zenon
<1>4. CASE is_json(ctx) /\ ctx.json.has
  <2>1. json(ctx) = Read(ctx, ctx.json, FALSE)
    BY <1>4, Zenon DEF json
  <2>2. ctx.json # nullopt
    BY <1>4, OptionalFields, Zenon
  <2>3. json(ctx).result = ctx.json
    BY <2>1 DEF Read
  <2> QED
    BY <1>1, <1>2, <1>4, <2>2, <2>3, Zenon DEF JsonCache
<1>5. CASE is_json(ctx) /\ ~ctx.json.has
  <2>1. CASE r.body.json \in {"malformed", "throws"}
    <3>1. json(ctx) = Read(ctx, nullopt, TRUE) \/ json(ctx) = Read(ctx, nullopt, FALSE)
      BY <1>5, <2>1, Zenon DEF json
    <3>2. json(ctx).result = nullopt
      BY <3>1 DEF Read
    <3> QED
      BY <2>1, <3>2, Zenon
  <2>2. CASE r.body.json \notin {"malformed", "throws"}
    <3>1. PICK v, d : v = Some(r.body.json) /\ d = [ctx EXCEPT !.json = v]
      BY Zenon
    <3>2. json(ctx) = Read(d, v, FALSE)
      BY <1>5, <2>2, <3>1, Zenon DEF json
    <3>3. json(ctx).result = v
      BY <3>2 DEF Read
    <3> QED
      BY <1>1, <1>5, <2>2, <3>1, <3>3, Zenon
  <2> QED
    BY <2>1, <2>2
<1> QED
  BY <1>3, <1>4, <1>5, Zenon

LEMMA FormRead ==
    ASSUME NEW ctx, ContextInv(ctx), NEW r, r = ctx.request
    PROVE  form_data(ctx).result =
               IF TypedAs(r, "application/x-www-form-urlencoded")
               THEN Some(parse_query_params(r.body.form)) ELSE nullopt
<1>1. is_form_data(ctx) <=> TypedAs(r, "application/x-www-form-urlencoded")
  BY TypeRead, Zenon
<1>2. FormCache(ctx.form, r)
  BY Zenon DEF ContextInv
<1>3. CASE ~is_form_data(ctx)
  <2>1. form_data(ctx) = Read(ctx, nullopt, FALSE)
    BY <1>3, Zenon DEF form_data
  <2>2. form_data(ctx).result = nullopt
    BY <2>1 DEF Read
  <2> QED
    BY <1>1, <1>3, <2>2, Zenon
<1>4. CASE is_form_data(ctx)
  <2>1. ctx.form.has => ctx.form = Some(parse_query_params(r.body.form))
    BY <1>2, OptionalFields, Zenon DEF FormCache
  <2>2. PICK v : v = IF ctx.form.has THEN ctx.form ELSE Some(parse_form_data_body(ctx))
    BY Zenon
  <2>3. v = Some(parse_query_params(r.body.form))
    BY <2>1, <2>2, Zenon DEF parse_form_data_body
  <2>4. PICK d : d = [ctx EXCEPT !.form = v]
    BY Zenon
  <2>5. form_data(ctx) = Read(d, v, FALSE)
    BY <1>4, <2>2, <2>4, Zenon DEF form_data
  <2>6. form_data(ctx).result = v
    BY <2>5 DEF Read
  <2> QED
    BY <1>1, <1>4, <2>3, <2>6, Zenon
<1> QED
  BY <1>3, <1>4, Zenon

(* ContextFaithful of one context. *)
Faithful(ctx) ==
    LET r == ctx.request
        typed(kind) == LET h == LastWith(r.fields, LAMBDA f : tolower(f.name) = "content-type")
                       IN  h.has /\ kind \in h.val
    IN  /\ \A i \in DOMAIN r.fields :
              header(ctx, r.fields[i].name) =
                 LastWith(r.fields, LAMBDA f : tolower(f.name) = tolower(r.fields[i].name))
        /\ \A i \in DOMAIN r.query :
              query(ctx, "string", r.query[i].key) =
                 LastWith(r.query, LAMBDA p : p.eq /\ p.key = r.query[i].key)
        /\ json(ctx).result =
              IF typed("application/json") /\ r.body.json \notin {"malformed", "throws"}
              THEN Some(r.body.json) ELSE nullopt
        /\ LET form == form_data(ctx).result
           IN  /\ form.has = typed("application/x-www-form-urlencoded")
               /\ form.has => \A i \in DOMAIN r.body.form :
                     Lookup(form.val, r.body.form[i].key) =
                        LastWith(r.body.form, LAMBDA p : p.eq /\ p.key = r.body.form[i].key)

LEMMA ContextIsFaithful ==
    ASSUME NEW ctx, ContextInv(ctx)
    PROVE  Faithful(ctx)
<1> DEFINE r == ctx.request
           typed(kind) == LET h == LastWith(r.fields, LAMBDA f : tolower(f.name) = "content-type")
                          IN  h.has /\ kind \in h.val
           form == form_data(ctx).result
<1>1. ASSUME NEW i \in DOMAIN r.fields
      PROVE  header(ctx, r.fields[i].name) =
                LastWith(r.fields, LAMBDA f : tolower(f.name) = tolower(r.fields[i].name))
  <2>1. header(ctx, r.fields[i].name) = LastOf(r.fields, LinesOf(r.fields, tolower(r.fields[i].name)))
    BY ContextRead, Zenon
  <2> QED
    BY <2>1, Zenon DEF LastWith, LastOf, LinesOf
<1>2. ASSUME NEW i \in DOMAIN r.query
      PROVE  query(ctx, "string", r.query[i].key) =
                LastWith(r.query, LAMBDA p : p.eq /\ p.key = r.query[i].key)
  <2>1. query(ctx, "string", r.query[i].key) = LastOf(r.query, TextsFor(r.query, r.query[i].key))
    BY QueryRead, Zenon
  <2> QED
    BY <2>1, Zenon DEF LastWith, LastOf, TextsFor
<1>3. \A kind : typed(kind) = TypedAs(r, kind)
  BY Zenon DEF TypedAs, LastWith, LastOf, LinesOf
<1>4. json(ctx).result =
          IF typed("application/json") /\ r.body.json \notin {"malformed", "throws"}
          THEN Some(r.body.json) ELSE nullopt
  BY <1>3, JsonRead, Zenon
<1>5. form = IF TypedAs(r, "application/x-www-form-urlencoded")
             THEN Some(parse_query_params(r.body.form)) ELSE nullopt
  BY FormRead, Zenon
<1>6. form.has = typed("application/x-www-form-urlencoded")
  <2>1. form.has = TypedAs(r, "application/x-www-form-urlencoded")
    BY <1>5, OptionalFields, Zenon DEF TypedAs
  <2> QED
    BY <1>3, <2>1, Zenon
<1>7. ASSUME form.has, NEW i \in DOMAIN r.body.form
      PROVE  Lookup(form.val, r.body.form[i].key) =
                LastWith(r.body.form, LAMBDA p : p.eq /\ p.key = r.body.form[i].key)
  <2>1. form.val = parse_query_params(r.body.form)
    BY <1>5, <1>7, OptionalFields, Zenon
  <2>2. PICK map : map = form.val
    BY Zenon
  <2>3. \A k : Lookup(map, k) = LastOf(r.body.form, TextsFor(r.body.form, k))
    <3>1. map = parse_query_params(r.body.form)
      BY <2>1, <2>2, Zenon
    <3> QED
      BY <3>1, ContextRead, Zenon
  <2> QED
    BY <2>2, <2>3, Zenon DEF LastWith, LastOf, TextsFor
<1> HIDE DEF form
<1> QED
  BY <1>1, <1>2, <1>4, <1>6, <1>7, Zenon DEF Faithful, form

(* What a handler reads is what its own client sent: its headers whatever  *)
(* the case of their names, its query, and its body as the content type    *)
(* says, as often as it is read, for all requests, routes, connections     *)
(* and interleavings of the sessions (RequestContext).                     *)
THEOREM ServerContextFaithful == Spec => []ContextFaithful
<1>1. Init => CallsInv
  BY CallsInit, Zenon
<1>2. CallsInv /\ [Next]_vars => CallsInv'
  BY CallsNext, Zenon
<1>3. CallsInv => ContextFaithful
  <2> SUFFICES ASSUME CallsInv
               PROVE  ContextFaithful
    OBVIOUS
  <2>1. ASSUME NEW n \in Conns, InHandler(n)
        PROVE  Faithful(sess[n].ctx)
    BY <2>1, ContextIsFaithful, Zenon DEF CallsInv, CalledRight
  <2> QED
    BY <2>1, Zenon DEF ContextFaithful, Faithful
<1> QED
  BY <1>1, <1>2, <1>3, PTL DEF Spec
=============================================================================
