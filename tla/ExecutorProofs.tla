-------------------------- MODULE ExecutorProofs --------------------------
(***************************************************************************)
(* Proofs about Executor.  The inductive invariant has five parts.         *)
(*                                                                         *)
(* LinkInv: libpq and the server have one query between them at a time;    *)
(* its ReadyForQuery is the last message on its way, and nothing is on its *)
(* way while libpq is idle.                                                *)
(*                                                                         *)
(* HolderInv: one executor at most holds the connection, it does exactly   *)
(* while the holder is USED and not being cleaned, and a connection that   *)
(* is FREE or being cleaned is in order for libpq.                         *)
(*                                                                         *)
(* MadeInv: the results made for a call are those of its statements, one   *)
(* each, in order, none after an error or a COPY.                          *)
(*                                                                         *)
(* CallInv: before it has sent its query nothing belongs to the call in    *)
(* progress, and afterwards everything on the connection does; as long as  *)
(* it reads all results, those still to be read and the one it has are all *)
(* that were made for it, except what a broken connection has lost.        *)
(*                                                                         *)
(* DoneInv: what a call returned agrees with the results made for it, and  *)
(* will: neither a success of the synchronous executor nor an error that   *)
(* is not retryable leaves a part of the query to be run.                  *)
(***************************************************************************)
EXTENDS Executor, TLAPS

-----------------------------------------------------------------------------
(* Types *)

PgResults ==
    [serial : Nat, stmt : Nat, status : {"TUPLES_OK", "COMMAND_OK", "COPY_IN", "FATAL_ERROR"},
     sqlstate : Sqlstates \cup {NoSqlstate, <<"57", "014">>}]

Messages == [k : {"part", "ready"}] \cup [k : {"result"}, r : PgResults]

(* Statements; the prover does not know that a literal is in STRING. *)
Words == STRING \cup {"", "DiscardAll"}

InFlight == [serial : Nat, stmts : Seq(Words), next : Nat]

Links ==
    [status : {"OK", "BAD"}, fd : {1, 2}, async : {"idle", "busy", "copy"},
     unsent : InFlight \cup {Nil}, inbuf : Seq(Messages)]

Servers == [up : BOOLEAN, todo : InFlight \cup {Nil}, wire : Seq(Messages)]

Cleanups ==
    [pc : {"discard", "exec"}, kind : {"cleanup"}, stmts : Seq(Words), serial : {0},
     result : PgResults \cup {Null}]

Executes ==
    [pc : {"start", "discard", "exec", "flush", "write", "read", "collect", "drain"},
     kind : {"execute"}, x : Objects, stmts : Seq(Words), serial : Nat \ {0},
     why : {"and_then", "or_else"}, result : PgResults \cup {Null}]

Calls == {NoCall} \cup Cleanups \cup Executes

-----------------------------------------------------------------------------
(* The connection *)

(* What is between the server and the reader. *)
Input == conn.inbuf \o server.wire

CopyWaits(todo) == todo # Nil /\ todo.next > Len(todo.stmts)

IsCopy(m) == m.k = "result" /\ m.r.status = "COPY_IN"

(* One query at a time is on the connection: its "ready" is the last       *)
(* message, and there is nothing at all when libpq is idle.                *)
Shape(async, unsent, up, todo, in) ==
    /\ async = "idle" => in = <<>> /\ todo = Nil /\ unsent = Nil
    /\ async = "copy" => in = <<>> /\ unsent = Nil /\ (up => CopyWaits(todo))
    /\ unsent # Nil => in = <<>> /\ todo = Nil
    /\ ~up => todo = Nil
    /\ \A n \in 1 .. Len(in) :
          /\ in[n] = Ready => n = Len(in) /\ todo = Nil
          /\ IsCopy(in[n]) => n = Len(in) /\ (up => CopyWaits(todo))

LinkInv ==
    /\ conn \in Links
    /\ server \in Servers
    /\ call \in Calls
    /\ Shape(conn.async, conn.unsent, server.up, server.todo, Input)

-----------------------------------------------------------------------------
(* Who holds it *)

HolderInv ==
    LET cleaning == call \in Cleanups
    IN  /\ holder \in [status : {"FREE", "USED", "DEAD"}, cleanup : Words]
        /\ obj \in [Objects -> [holds : BOOLEAN, fd : {0, 1, 2}, watching : BOOLEAN]]
        /\ terminated = FALSE
        /\ holder.status = "FREE" => conn.status = "OK"
        /\ cleaning => holder.status = "USED" /\ conn.status = "OK"
        /\ holder.status = "USED" /\ ~cleaning => \E x \in Objects : obj[x].holds
        /\ holder.status # "USED" \/ cleaning => \A x \in Objects : ~obj[x].holds
        /\ \A x, y \in Objects : obj[x].holds /\ obj[y].holds => x = y
        /\ call \in Executes /\ call.pc # "start" => obj[call.x].holds

-----------------------------------------------------------------------------
(* Results and the calls they belong to *)

Own(mk, n) == {r \in mk : r.serial = n}

Texts == [n \in DOMAIN issued |-> Queries[issued[n].q].stmts]

Final(r) == r.status \in {"FATAL_ERROR", "COPY_IN"}

IsSeq(s) == s \in Seq({s[n] : n \in DOMAIN s})

IssuedType ==
    /\ IsSeq(issued)
    /\ \A n \in 1 .. Len(issued) :
          /\ issued[n] = [q |-> issued[n].q, sync |-> issued[n].sync, out |-> issued[n].out]
          /\ issued[n].q \in DOMAIN Queries

(* A query on its way is one of the client's, or a cleanup. *)
Known(t, len, texts) ==
    t # Nil =>
        /\ t.serial <= len
        /\ t.serial # 0 => t.stmts = texts[t.serial]
        /\ t.next \in 1 .. Len(t.stmts) + 1

(* The results of a query are numbered, and the server stops at an error   *)
(* and at a COPY.                                                          *)
Numbered(mk, len, texts, todo, unsent) ==
    /\ mk \subseteq PgResults
    /\ Known(todo, len, texts)
    /\ Known(unsent, len, texts)
    /\ \A r \in mk :
          /\ r.serial \in 1 .. len
          /\ r.stmt \in 1 .. Len(texts[r.serial])
          /\ r.status = "FATAL_ERROR" => r.sqlstate \in Sqlstates
          /\ r.serial # unsent.serial
          /\ todo # Nil /\ r.serial = todo.serial =>
                /\ r.stmt < todo.next
                /\ todo.next <= Len(todo.stmts) => ~Final(r)
    /\ \A r1, r2 \in mk :
          r1.serial = r2.serial =>
             /\ r1.stmt = r2.stmt => r1 = r2
             /\ Final(r1) => r2.stmt <= r1.stmt

MadeInv == IssuedType /\ Numbered(made, Len(issued), Texts, server.todo, conn.unsent)

(* The call in progress is the last one issued.  Before it has sent its    *)
(* query nothing belongs to it; then everything on the connection does.    *)
NotSent(serial, mk, todo, unsent) ==
    /\ Own(mk, serial) = {}
    /\ serial # todo.serial
    /\ serial # unsent.serial

Current(serial, mk, todo, unsent, in) ==
    /\ todo # Nil => todo.serial = serial
    /\ unsent # Nil => unsent.serial = serial
    /\ \A n \in 1 .. Len(in) : in[n].k = "result" => in[n].r \in Own(mk, serial)

(* As long as all results count, they come in order and none is missing,   *)
(* unless the connection broke; then the end of the query is missing too.  *)
Complete(own, result, len, up, in) ==
    /\ result = Null \/ result \in own
    /\ \A n \in 1 .. Len(in) : in[n].k = "result" => result.stmt < in[n].r.stmt
    /\ \A m, n \in 1 .. Len(in) :
          m < n /\ in[m].k = "result" /\ in[n].k = "result" => in[m].r.stmt < in[n].r.stmt
    /\ \A r \in own :
          \/ r.stmt <= result.stmt
          \/ \E n \in 1 .. Len(in) : in[n] = ResultMsg(r)
          \/ ~up /\ \A n \in 1 .. Len(in) : in[n] # Ready
    /\ \A n \in 1 .. Len(in) : in[n] = Ready => \E r \in own : r.status = "FATAL_ERROR" \/ r.stmt = len

BeforeSend == {"start", "discard"}

Reading == {"exec", "flush", "write", "read", "collect"}

CallInv ==
    call \in Executes =>
        /\ call.serial = Len(issued)
        /\ issued[call.serial].out = Pending
        /\ issued[call.serial].sync = (call.x \in SyncObjects)
        /\ call.stmts = Texts[call.serial]
        /\ call.pc \in {"discard", "exec"} => call.x \in SyncObjects
        /\ call.pc \in {"flush", "write", "read", "collect", "drain"} => call.x \in AsyncObjects
        /\ call.pc \notin {"exec", "drain"} => call.result = Null
        /\ call.pc \in BeforeSend => NotSent(call.serial, made, server.todo, conn.unsent)
        /\ call.pc \notin BeforeSend => Current(call.serial, made, server.todo, conn.unsent, Input)
        /\ call.pc \in Reading =>
              Complete(Own(made, call.serial), call.result, Len(call.stmts), server.up, Input)
        /\ call.pc = "drain" => call.result \in Own(made, call.serial) \cup {Lost}

(* What the properties say of call n, which returned out, and what keeps   *)
(* it true: neither a success of the synchronous executor nor a definite   *)
(* error leaves anything of the query to be run.                           *)
Settled(n, out, sync, own, len, todo, unsent) ==
    IF is_success(out)
    THEN /\ out.value \in own
         /\ is_success_status(out.value.status)
         /\ sync =>
               /\ \A r \in own : is_success_status(r.status)
               /\ out.value.stmt = len \/ out.value.status = "COPY_IN"
               /\ n # unsent.serial
               /\ n = todo.serial => todo.next > Len(todo.stmts)
    ELSE /\ out.error.sqlstate # NoSqlstate =>
              \E r \in own : r.status = "FATAL_ERROR" /\ r.sqlstate = out.error.sqlstate
         /\ ~is_retryable(out.error.code) =>
              /\ \A r \in own : r.stmt = len => ~is_success_status(r.status)
              /\ n # todo.serial
              /\ n # unsent.serial

DoneInv ==
    \A n \in 1 .. Len(issued) :
        issued[n].out # Pending =>
            Settled(n, issued[n].out, issued[n].sync, Own(made, n), Len(Texts[n]), server.todo, conn.unsent)

-----------------------------------------------------------------------------
(* Error codes *)

LEMMA RuntimeErrorRetryable ==
    /\ is_retryable(Server("RuntimeError"))
    /\ is_retryable(Server("ConnectionLost"))
BY DEF is_retryable, Server, ServerErrorCode

-----------------------------------------------------------------------------
(* Sequences *)

LEMMA SeqHas ==
    ASSUME NEW S, NEW s \in Seq(S)
    PROVE  Len(s) \in Nat /\ DOMAIN s = 1 .. Len(s) /\ \A i \in 1 .. Len(s) : s[i] \in S
OBVIOUS

LEMMA SeqEmpty == \A S : <<>> \in Seq(S) /\ \A s \in Seq(S) : Len(s) = 0 => s = <<>>
OBVIOUS

LEMMA ConcatIs ==
    ASSUME NEW S, NEW a \in Seq(S), NEW b \in Seq(S)
    PROVE  /\ a \o b \in Seq(S) /\ Len(a \o b) = Len(a) + Len(b)
           /\ \A i \in 1 .. Len(a) + Len(b) : (a \o b)[i] = IF i <= Len(a) THEN a[i] ELSE b[i - Len(a)]
OBVIOUS

LEMMA ConcatEmpty == \A S : \A s \in Seq(S) : s \o <<>> = s /\ <<>> \o s = s
OBVIOUS

LEMMA SubSeqIs ==
    ASSUME NEW S, NEW s \in Seq(S), NEW m \in Nat \ {0}, NEW n \in 0 .. Len(s)
    PROVE  /\ SubSeq(s, m, n) \in Seq(S) /\ Len(SubSeq(s, m, n)) = IF m <= n THEN n - m + 1 ELSE 0
           /\ \A i \in 1 .. n - m + 1 : SubSeq(s, m, n)[i] = s[m + i - 1]
OBVIOUS

-----------------------------------------------------------------------------
(* What is read *)

LEMMA InputIs ==
    ASSUME conn \in Links, server \in Servers
    PROVE  /\ Input \in Seq(Messages) /\ Len(Input) \in Nat /\ DOMAIN Input = 1 .. Len(Input)
           /\ conn.inbuf \in Seq(Messages) /\ server.wire \in Seq(Messages)
           /\ Len(Input) = Len(conn.inbuf) + Len(server.wire)
<1>1. conn.inbuf \in Seq(Messages) /\ server.wire \in Seq(Messages)
  BY DEF Links, Servers
<1>2. Input \in Seq(Messages) /\ Len(Input) = Len(conn.inbuf) + Len(server.wire)
  BY <1>1, ConcatIs DEF Input
<1>3. Len(Input) \in Nat /\ DOMAIN Input = 1 .. Len(Input)
  BY <1>2, SeqHas, Zenon
<1> QED
  BY <1>1, <1>2, <1>3, Zenon

LEMMA MessagesAre ==
    /\ Part \in Messages /\ Ready \in Messages
    /\ \A r \in PgResults : ResultMsg(r) \in Messages
BY DEF Part, Ready, ResultMsg, Messages

-----------------------------------------------------------------------------
(* Queries on their way, fresh connections, longer inputs *)

LEMMA FlightIs ==
    /\ Nil \notin InFlight /\ Nil.serial = 0
    /\ \A t \in InFlight : t # Nil
    /\ \A n \in Nat, s \in Seq(Words) :
          /\ Sent(n, s) \in InFlight /\ Sent(n, s).serial = n
          /\ Sent(n, s).stmts = s /\ Sent(n, s).next = 1
<1>1. Nil.serial = 0 /\ DOMAIN Nil = {"serial"}
  BY DEF Nil
<1>2. \A t \in InFlight : DOMAIN t = {"serial", "stmts", "next"}
  BY DEF InFlight
<1>3. \A t \in InFlight : t # Nil
  BY <1>1, <1>2
<1>4. \A n \in Nat, s \in Seq(Words) :
          /\ Sent(n, s) \in InFlight /\ Sent(n, s).serial = n
          /\ Sent(n, s).stmts = s /\ Sent(n, s).next = 1
  BY DEF Sent, InFlight
<1> QED
  BY <1>1, <1>3, <1>4, Zenon

LEMMA FreshIs ==
    ASSUME NEW fd \in {1, 2}
    PROVE  /\ Fresh(fd) \in Links /\ Fresh(fd).status = "OK" /\ Fresh(fd).async = "idle"
           /\ Fresh(fd).unsent = Nil /\ Fresh(fd).inbuf = <<>>
           /\ FreshServer \in Servers /\ FreshServer.up = TRUE /\ FreshServer.todo = Nil
           /\ FreshServer.wire = <<>>
<1>1. <<>> \in Seq(Messages)
  BY SeqEmpty, Zenon
<1>2. Fresh(fd) \in Links
  BY <1>1 DEF Fresh, Links
<1>3. FreshServer \in Servers
  BY <1>1 DEF FreshServer, Servers
<1> QED
  BY <1>2, <1>3 DEF Fresh, FreshServer

LEMMA AppendTwo ==
    ASSUME NEW S, NEW s \in Seq(S), NEW m \in S, NEW k \in S
    PROVE  /\ s \o <<m, k>> \in Seq(S) /\ Len(s \o <<m, k>>) = Len(s) + 2
           /\ \A i \in 1 .. Len(s) : (s \o <<m, k>>)[i] = s[i]
           /\ (s \o <<m, k>>)[Len(s) + 1] = m
           /\ (s \o <<m, k>>)[Len(s) + 2] = k
BY ConcatIs

-----------------------------------------------------------------------------
(* How the shape of the connection is kept *)

LEMMA ShapeOver ==
    ASSUME NEW async, async \notin {"idle", "copy"}, NEW in \in Seq(Messages),
           \A n \in 1 .. Len(in) : in[n] # Ready /\ ~IsCopy(in[n]),
           NEW m \in Messages, m # Ready, ~IsCopy(m)
    PROVE  Shape(async, Nil, TRUE, Nil, in \o <<m, Ready>>)
<1>1. PICK in2, l : in2 = in \o <<m, Ready>> /\ l = Len(in)
  BY Zenon
<1>2. /\ Len(in2) = l + 2 /\ l \in Nat
      /\ \A i \in 1 .. l : in2[i] = in[i]
      /\ in2[l + 1] = m /\ in2[l + 2] = Ready
  <2>1. Len(in) \in Nat
    BY SeqHas, Zenon
  <2>3. Ready \in Messages
    BY MessagesAre, Zenon
  <2>2. /\ in \o <<m, Ready>> \in Seq(Messages) /\ Len(in \o <<m, Ready>>) = Len(in) + 2
        /\ \A i \in 1 .. Len(in) : (in \o <<m, Ready>>)[i] = in[i]
        /\ (in \o <<m, Ready>>)[Len(in) + 1] = m
        /\ (in \o <<m, Ready>>)[Len(in) + 2] = Ready
    BY <2>3, AppendTwo
  <2> QED
    BY <1>1, <2>1, <2>2, Zenon
<1>3. \A n \in 1 .. l : in2[n] # Ready /\ ~IsCopy(in2[n])
  BY <1>1, <1>2, Zenon
<1>4. Shape(async, Nil, TRUE, Nil, in2)
  <2> SUFFICES ASSUME NEW n \in 1 .. l + 2
               PROVE  (in2[n] = Ready => n = l + 2) /\ ~IsCopy(in2[n])
    BY <1>2, Zenon DEF Shape
  <2>0. ~IsCopy(Ready)
    BY DEF IsCopy, Ready
  <2>1. CASE n = l + 1
    BY <1>2, <2>1, Zenon
  <2>2. CASE n = l + 2
    BY <1>2, <2>0, <2>2, Zenon
  <2>3. CASE n # l + 1 /\ n # l + 2
    <3>1. n \in 1 .. l
      BY <1>2, <2>3
    <3> QED
      BY <1>3, <3>1, Zenon
  <2> QED
    BY <2>1, <2>2, <2>3, Zenon
<1> QED
  BY <1>1, <1>4, Zenon

LEMMA ShapeEmpty ==
    ASSUME NEW up \in BOOLEAN, NEW todo, ~up => todo = Nil, NEW unsent, unsent = Nil \/ todo = Nil
    PROVE  /\ Shape("busy", unsent, up, todo, <<>>)
           /\ todo = Nil /\ unsent = Nil => Shape("idle", unsent, up, todo, <<>>)
BY DEF Shape

-----------------------------------------------------------------------------
(* Calls *)

LEMMA CallIs ==
    /\ NoCall \in Calls /\ NoCall.pc = "none" /\ NoCall \notin Cleanups /\ NoCall \notin Executes
    /\ \A c \in Cleanups : c.kind = "cleanup" /\ c \notin Executes /\ c.pc \in {"discard", "exec"}
    /\ \A c \in Executes : c.kind = "execute" /\ c \notin Cleanups /\ c.pc # "none"
    /\ \A c \in Calls : c = NoCall \/ c \in Cleanups \/ c \in Executes
<1>1. NoCall.pc = "none"
  BY DEF NoCall
<1>2. \A c \in Cleanups : c.kind = "cleanup" /\ c.pc \in {"discard", "exec"}
  BY DEF Cleanups
<1>3. \A c \in Executes : c.kind = "execute" /\ c.pc # "none"
  BY DEF Executes
<1> QED
  BY <1>1, <1>2, <1>3 DEF Calls

Places == {"start", "discard", "exec", "flush", "write", "read", "collect", "drain"}

LEMMA CallMoves ==
    ASSUME NEW c \in Executes, NEW p \in Places
    PROVE  /\ [c EXCEPT !.pc = p] \in Executes /\ [c EXCEPT !.pc = p].pc = p
           /\ [c EXCEPT !.pc = p].serial = c.serial /\ [c EXCEPT !.pc = p].stmts = c.stmts
           /\ [c EXCEPT !.pc = p].x = c.x /\ [c EXCEPT !.pc = p].result = c.result
BY DEF Executes, Places

LEMMA PlaceOf ==
    ASSUME NEW c \in Calls
    PROVE  /\ c.pc \in {"start", "flush", "write", "read", "collect", "drain"} => c \in Executes
           /\ c.pc \in {"discard", "exec"} => c \in Cleanups \/ c \in Executes
BY CallIs

LEMMA LinkSame ==
    ASSUME LinkInv, UNCHANGED <<conn, server>>, call' \in Calls
    PROVE  LinkInv'
BY DEF LinkInv, Input

(* What Deliver does. *)
LEMMA DeliverIs ==
    ASSUME server \in Servers, NEW t \in InFlight
    PROVE  /\ Deliver(t) \in Servers /\ Deliver(t).up = server.up /\ Deliver(t).wire = server.wire
           /\ Deliver(t).todo = IF server.up THEN t ELSE server.todo
<1>1. CASE server.up
  <2>1. Deliver(t) = [server EXCEPT !.todo = t]
    BY <1>1, Zenon DEF Deliver
  <2> QED
    BY <1>1, <2>1, Zenon DEF Servers
<1>2. CASE ~server.up
  BY <1>2, Zenon DEF Deliver
<1> QED
  BY <1>1, <1>2, Zenon

-----------------------------------------------------------------------------
(* The server *)

LEMMA InputTypes ==
    ASSUME LinkInv
    PROVE  Input \in Seq(Messages) /\ Len(Input) \in Nat
BY InputIs, Zenon DEF LinkInv

-----------------------------------------------------------------------------
(* The client's side of the connection *)

LEMMA FlushLink ==
    ASSUME LinkInv, conn.unsent # Nil, server' = Deliver(conn.unsent),
           conn' = [conn EXCEPT !.unsent = Nil], call' \in Calls
    PROVE  /\ LinkInv' /\ Input' = Input /\ conn'.unsent = Nil /\ server'.todo \in {conn.unsent, Nil}
           /\ conn'.status = conn.status /\ server'.up = server.up
<1>1. /\ conn \in Links /\ server \in Servers /\ Input = <<>> /\ server.todo = Nil
      /\ conn.async \notin {"idle", "copy"} /\ conn.unsent \in InFlight
  BY DEF LinkInv, Shape, Links
<1>2. /\ server' \in Servers /\ server'.up = server.up /\ server'.wire = server.wire
      /\ server'.todo = IF server.up THEN conn.unsent ELSE Nil
  BY <1>1, DeliverIs, Zenon
<1>3. /\ conn' \in Links /\ conn'.async = conn.async /\ conn'.unsent = Nil /\ conn'.inbuf = conn.inbuf
      /\ conn'.status = conn.status
  BY <1>1, Zenon DEF Links
<1>4. Input' = <<>>
  BY <1>1, <1>2, <1>3, Zenon DEF Input
<1>5. server'.up \in BOOLEAN /\ (~server'.up => server'.todo = Nil) /\ conn.async = "busy"
  <2>1. conn.async = "busy"
    BY <1>1 DEF Links
  <2> QED
    BY <1>2, <2>1, Zenon DEF Servers
<1>6. Shape("busy", Nil, server'.up, server'.todo, <<>>)
  BY <1>5, ShapeEmpty, Zenon
<1> QED
  BY <1>1, <1>2, <1>3, <1>4, <1>5, <1>6, Zenon DEF LinkInv

-----------------------------------------------------------------------------
(* The calls issued *)

LEMMA FunctionIsSeq ==
    ASSUME NEW S, NEW n \in Nat, NEW s \in [1 .. n -> S]
    PROVE  s \in Seq(S)
OBVIOUS

LEMMA SeqIsFunction ==
    ASSUME NEW S, NEW s \in Seq(S)
    PROVE  s \in [1 .. Len(s) -> S] /\ Len(s) \in Nat
OBVIOUS

LEMMA SeqBy ==
    ASSUME NEW s, NEW n \in Nat, s = [i \in 1 .. n |-> s[i]]
    PROVE  IsSeq(s) /\ Len(s) = n /\ DOMAIN s = 1 .. n
<1> DEFINE S == {s[i] : i \in DOMAIN s}
<1>1. DOMAIN s = 1 .. n
  BY Zenon
<1>2. s \in [1 .. n -> S]
  BY <1>1, Zenon
<1>3. s \in Seq(S)
  BY <1>2, FunctionIsSeq, Zenon
<1>4. Len(s) \in Nat /\ DOMAIN s = 1 .. Len(s)
  BY <1>3, SeqHas, Zenon
<1>5. Len(s) = n
  BY <1>1, <1>4
<1> QED
  BY <1>1, <1>3, <1>5, Zenon DEF IsSeq

LEMMA SeqIs ==
    ASSUME NEW s, IsSeq(s)
    PROVE  Len(s) \in Nat /\ DOMAIN s = 1 .. Len(s) /\ s = [i \in 1 .. Len(s) |-> s[i]]
<1>1. Len(s) \in Nat /\ DOMAIN s = 1 .. Len(s)
  BY SeqHas, Zenon DEF IsSeq
<1>2. s \in [1 .. Len(s) -> {s[i] : i \in DOMAIN s}]
  BY SeqIsFunction, Zenon DEF IsSeq
<1>3. s = [i \in DOMAIN s |-> s[i]]
  BY <1>2, Zenon
<1> QED
  BY <1>1, <1>3, Zenon

Put(s, k, e) == [s EXCEPT ![k] = e]

LEMMA SeqPut ==
    ASSUME NEW s, IsSeq(s), NEW k \in 1 .. Len(s), NEW e
    PROVE  /\ IsSeq(Put(s, k, e)) /\ Len(Put(s, k, e)) = Len(s) /\ Put(s, k, e)[k] = e
           /\ \A i \in 1 .. Len(s) : i # k => Put(s, k, e)[i] = s[i]
<1> USE DEF Put
<1> DEFINE s2 == Put(s, k, e)
<1>1. Len(s) \in Nat /\ DOMAIN s = 1 .. Len(s) /\ s = [i \in 1 .. Len(s) |-> s[i]]
  BY SeqIs, Zenon
<1>2. s2[k] = e /\ \A i \in 1 .. Len(s) : i # k => s2[i] = s[i]
  BY <1>1, Zenon
<1>3. s2 = [i \in 1 .. Len(s) |-> s2[i]]
  BY <1>1, Zenon
<1>4. IsSeq(s2) /\ Len(s2) = Len(s)
  BY <1>1, <1>3, SeqBy, Zenon
<1> QED
  BY <1>2, <1>4, Zenon

LEMMA TextsIs ==
    ASSUME IssuedType
    PROVE  /\ Len(issued) \in Nat /\ DOMAIN issued = 1 .. Len(issued)
           /\ Texts = [n \in 1 .. Len(issued) |-> Queries[issued[n].q].stmts]
           /\ \A n \in 1 .. Len(issued) : Texts[n] = Queries[issued[n].q].stmts
<1>1. Len(issued) \in Nat /\ DOMAIN issued = 1 .. Len(issued)
  BY SeqIs, Zenon DEF IssuedType
<1> QED
  BY <1>1, Zenon DEF Texts

(* A call returned. *)
Returned(k, out) ==
    /\ Len(issued') = Len(issued) /\ Texts' = Texts /\ IssuedType'
    /\ issued'[k].out = out
    /\ \A n \in 1 .. Len(issued) :
          /\ issued'[n].sync = issued[n].sync
          /\ n # k => issued'[n].out = issued[n].out

LEMMA ReturnsIssued ==
    ASSUME IssuedType, NEW k \in 1 .. Len(issued), NEW out, issued' = [issued EXCEPT ![k].out = out]
    PROVE  Returned(k, out)
<1> DEFINE e == [issued[k] EXCEPT !.out = out]
<1>1. IsSeq(issued) /\ Len(issued) \in Nat
  BY TextsIs, Zenon DEF IssuedType
<1>2. issued' = [issued EXCEPT ![k] = e]
  BY Zenon
<1>3. e = [q |-> issued[k].q, sync |-> issued[k].sync, out |-> out]
  <2>1. issued[k] = [q |-> issued[k].q, sync |-> issued[k].sync, out |-> issued[k].out]
    BY Zenon DEF IssuedType
  <2>2. PICK q, s, o : q = issued[k].q /\ s = issued[k].sync /\ o = issued[k].out
    BY Zenon
  <2>3. issued[k] = [q |-> q, sync |-> s, out |-> o]
    BY <2>1, <2>2, Zenon
  <2>4. [[q |-> q, sync |-> s, out |-> o] EXCEPT !.out = out] = [q |-> q, sync |-> s, out |-> out]
    OBVIOUS
  <2> QED
    BY <2>2, <2>3, <2>4, Zenon
<1>4. e.q = issued[k].q /\ e.sync = issued[k].sync /\ e.out = out /\ e = [q |-> e.q, sync |-> e.sync, out |-> e.out]
  BY <1>3
<1> HIDE DEF e
<1>5. /\ IsSeq(issued') /\ Len(issued') = Len(issued) /\ issued'[k] = e
      /\ \A n \in 1 .. Len(issued) : n # k => issued'[n] = issued[n]
  <2>1. PICK s, d : s = issued /\ d = e
    BY Zenon
  <2>2. IsSeq(s) /\ k \in 1 .. Len(s)
    BY <1>1, <2>1, Zenon
  <2>3. /\ IsSeq(Put(s, k, d)) /\ Len(Put(s, k, d)) = Len(s) /\ Put(s, k, d)[k] = d
        /\ \A n \in 1 .. Len(s) : n # k => Put(s, k, d)[n] = s[n]
    BY <2>2, SeqPut
  <2>4. issued' = Put(s, k, d)
    BY <1>2, <2>1, Zenon DEF Put
  <2> QED
    BY <2>1, <2>3, <2>4, Zenon
<1>6. \A n \in 1 .. Len(issued) :
         /\ issued'[n].q = issued[n].q /\ issued'[n].sync = issued[n].sync
         /\ n # k => issued'[n].out = issued[n].out
         /\ issued'[n] = [q |-> issued'[n].q, sync |-> issued'[n].sync, out |-> issued'[n].out]
  BY <1>4, <1>5, Zenon DEF IssuedType
<1>7. IssuedType'
  BY <1>5, <1>6, Zenon DEF IssuedType
<1>8. Texts' = Texts
  <2>1. DOMAIN issued = 1 .. Len(issued)
    BY TextsIs, Zenon
  <2>2. DOMAIN issued' = 1 .. Len(issued)
    BY <1>5, SeqIs, Zenon
  <2> QED
    BY <1>6, <2>1, <2>2, ZenonT(40) DEF Texts
<1> QED
  BY <1>4, <1>5, <1>6, <1>7, <1>8, Zenon DEF Returned

-----------------------------------------------------------------------------
(* How the numbering of the results and the settled calls are kept *)

LEMMA NumberedAny ==
    ASSUME NEW mk, NEW len, NEW texts, NEW todo, NEW unsent, Numbered(mk, len, texts, todo, unsent),
           NEW todo2, Known(todo2, len, texts), todo2 = todo \/ todo2 = Nil \/ Own(mk, todo2.serial) = {},
           NEW unsent2, Known(unsent2, len, texts), unsent2 = unsent \/ unsent2 = Nil \/ Own(mk, unsent2.serial) = {}
    PROVE  Numbered(mk, len, texts, todo2, unsent2)
<1>1. ASSUME NEW r \in mk PROVE r.serial # 0
  BY DEF Numbered
<1>2. ASSUME NEW r \in mk PROVE r.serial # unsent2.serial
  <2>1. CASE unsent2 = unsent
    BY <2>1, Zenon DEF Numbered
  <2>2. CASE unsent2 = Nil
    BY <1>1, <2>2, FlightIs, Zenon
  <2>3. CASE Own(mk, unsent2.serial) = {}
    BY <2>3, Zenon DEF Own
  <2> QED
    BY <2>1, <2>2, <2>3, Zenon
<1>3. ASSUME NEW r \in mk, todo2 # Nil, r.serial = todo2.serial
      PROVE  r.stmt < todo2.next /\ (todo2.next <= Len(todo2.stmts) => ~Final(r))
  <2>1. todo2 = todo
    BY <1>3, Zenon DEF Own
  <2> QED
    BY <1>3, <2>1, Zenon DEF Numbered
<1> QED
  BY <1>2, <1>3, Zenon DEF Numbered

LEMMA SettledAny ==
    ASSUME NEW n, n # 0, NEW out, NEW sync, NEW own, NEW len, NEW todo, NEW unsent,
           Settled(n, out, sync, own, len, todo, unsent),
           NEW todo2, todo2 = todo \/ todo2 = unsent \/ todo2.serial # n,
           NEW unsent2, unsent2 = unsent \/ unsent2.serial # n
    PROVE  Settled(n, out, sync, own, len, todo2, unsent2)
<1>1. CASE is_success(out)
  BY <1>1, Zenon DEF Settled
<1>2. CASE ~is_success(out)
  BY <1>2, Zenon DEF Settled
<1> QED
  BY <1>1, <1>2, Zenon

(* A query that is sent now: nobody waits for its results yet. *)
NewQuery(t) ==
    /\ Known(t, Len(issued), Texts)
    /\ Own(made, t.serial) = {}
    /\ \A n \in 1 .. Len(issued) : issued[n].out # Pending => t.serial # n

LEMMA NumberedNow ==
    ASSUME MadeInv,
           server'.todo \in {server.todo, conn.unsent, Nil} \/ NewQuery(server'.todo),
           conn'.unsent \in {conn.unsent, Nil} \/ NewQuery(conn'.unsent)
    PROVE  Numbered(made, Len(issued), Texts, server'.todo, conn'.unsent)
<1>1. Numbered(made, Len(issued), Texts, server.todo, conn.unsent)
  BY Zenon DEF MadeInv
<1>2. Known(server'.todo, Len(issued), Texts) /\ Known(conn'.unsent, Len(issued), Texts)
  <2>1. Known(Nil, Len(issued), Texts)
    BY Zenon DEF Known
  <2> QED
    BY <1>1, <2>1, Zenon DEF Numbered, NewQuery
<1>3. Own(made, conn.unsent.serial) = {}
  BY <1>1, Zenon DEF Numbered, Own
<1>4. server'.todo = server.todo \/ server'.todo = Nil \/ Own(made, server'.todo.serial) = {}
  BY <1>3, Zenon DEF NewQuery
<1>5. conn'.unsent = conn.unsent \/ conn'.unsent = Nil \/ Own(made, conn'.unsent.serial) = {}
  BY Zenon DEF NewQuery
<1> QED
  BY <1>1, <1>2, <1>4, <1>5, NumberedAny, Zenon

LEMMA SettledNow ==
    ASSUME DoneInv, NEW n \in 1 .. Len(issued), issued[n].out # Pending,
           server'.todo \in {server.todo, conn.unsent, Nil} \/ NewQuery(server'.todo),
           conn'.unsent \in {conn.unsent, Nil} \/ NewQuery(conn'.unsent)
    PROVE  Settled(n, issued[n].out, issued[n].sync, Own(made, n), Len(Texts[n]), server'.todo, conn'.unsent)
<1>1. Settled(n, issued[n].out, issued[n].sync, Own(made, n), Len(Texts[n]), server.todo, conn.unsent)
  BY Zenon DEF DoneInv
<1>2. n # 0
  OBVIOUS
<1>3. server'.todo = server.todo \/ server'.todo = conn.unsent \/ server'.todo.serial # n
  BY <1>2, FlightIs, Zenon DEF NewQuery
<1>4. conn'.unsent = conn.unsent \/ conn'.unsent.serial # n
  BY <1>2, FlightIs, Zenon DEF NewQuery
<1> QED
  BY <1>1, <1>2, <1>3, <1>4, SettledAny, Zenon

(* A step that returns from no call. *)
LEMMA FrameInv ==
    ASSUME MadeInv, DoneInv, made' = made, issued' = issued,
           server'.todo \in {server.todo, conn.unsent, Nil} \/ NewQuery(server'.todo),
           conn'.unsent \in {conn.unsent, Nil} \/ NewQuery(conn'.unsent)
    PROVE  MadeInv' /\ DoneInv'
<1>1. Texts' = Texts /\ Len(issued') = Len(issued)
  BY Zenon DEF Texts
<1>2. MadeInv'
  <2>1. IssuedType'
    BY Zenon DEF MadeInv, IssuedType
  <2>2. Numbered(made, Len(issued), Texts, server'.todo, conn'.unsent)
    BY NumberedNow, Zenon
  <2> QED
    BY <1>1, <2>1, <2>2, Zenon DEF MadeInv
<1>3. DoneInv'
  BY <1>1, SettledNow, Zenon DEF DoneInv
<1> QED
  BY <1>2, <1>3, Zenon

(* A step that returns from the call in progress. *)
LEMMA ReturnsInv ==
    ASSUME MadeInv, CallInv, DoneInv, call \in Executes, NEW out, Returns(call, out), made' = made,
           server'.todo \in {server.todo, conn.unsent, Nil}, conn'.unsent \in {conn.unsent, Nil},
           Settled(call.serial, out, call.x \in SyncObjects, Own(made, call.serial), Len(call.stmts),
                   server'.todo, conn'.unsent)
    PROVE  MadeInv' /\ CallInv' /\ DoneInv'
<1>1. call' = NoCall /\ issued' = [issued EXCEPT ![call.serial].out = out]
  BY Zenon DEF Returns
<1>2. PICK k : k = call.serial
  BY Zenon
<1>3. /\ k = Len(issued) /\ k # 0 /\ issued[k].sync = (call.x \in SyncObjects) /\ call.stmts = Texts[k]
      /\ k \in 1 .. Len(issued)
  <2>1. /\ k = Len(issued) /\ issued[k].sync = (call.x \in SyncObjects) /\ call.stmts = Texts[k]
    BY <1>2, Zenon DEF CallInv
  <2>2. k \in Nat \ {0}
    BY <1>2 DEF Executes
  <2>3. k \in 1 .. k
    BY <2>2
  <2> QED
    BY <2>1, <2>2, <2>3, Zenon
<1>4. Returned(k, out)
  BY <1>1, <1>2, <1>3, ReturnsIssued, Zenon DEF MadeInv
<1>5. MadeInv'
  <2>1. Numbered(made, Len(issued), Texts, server'.todo, conn'.unsent)
    BY NumberedNow, Zenon
  <2> QED
    BY <1>4, <2>1, Zenon DEF MadeInv, Returned
<1>6. CallInv'
  BY <1>1, CallIs, Zenon DEF CallInv
<1>7. DoneInv'
  <2> SUFFICES ASSUME NEW n \in 1 .. Len(issued), issued'[n].out # Pending
               PROVE  Settled(n, issued'[n].out, issued'[n].sync, Own(made, n), Len(Texts[n]), server'.todo, conn'.unsent)
    BY <1>4, Zenon DEF DoneInv, Returned
  <2>1. CASE n = k
    <3>1. issued'[n].out = out /\ issued'[n].sync = issued[n].sync
      BY <1>4, <2>1, Zenon DEF Returned
    <3> QED
      BY <1>2, <1>3, <2>1, <3>1, Zenon
  <2>2. CASE n # k
    <3>1. issued'[n].out = issued[n].out /\ issued'[n].sync = issued[n].sync
      BY <1>4, <2>2, Zenon DEF Returned
    <3>2. Settled(n, issued[n].out, issued[n].sync, Own(made, n), Len(Texts[n]), server'.todo, conn'.unsent)
      BY <3>1, SettledNow, Zenon
    <3> QED
      BY <3>1, <3>2, Zenon
  <2> QED
    BY <2>1, <2>2, Zenon
<1> QED
  BY <1>5, <1>6, <1>7, Zenon

-----------------------------------------------------------------------------
(* What the outcomes say *)

LEMMA OutcomeIs ==
    ASSUME NEW r, NEW c, NEW s
    PROVE  /\ is_success(success(Errors, r)) /\ success(Errors, r).value = r
           /\ ~is_success(failure(Errors, ErrorContext(c, s)))
           /\ failure(Errors, ErrorContext(c, s)).error.code = c
           /\ failure(Errors, ErrorContext(c, s)).error.sqlstate = s
           /\ success(Errors, r) # Pending /\ failure(Errors, ErrorContext(c, s)) # Pending
<1>1. DOMAIN Pending = {"k"} /\ DOMAIN success(Errors, r) = {"errors", "ok", "value"}
      /\ DOMAIN failure(Errors, ErrorContext(c, s)) = {"errors", "ok", "error"}
  BY DEF Pending, success, failure
<1>2. "ok" \notin {"k"} /\ "ok" \in {"errors", "ok", "value"} /\ "ok" \in {"errors", "ok", "error"}
  OBVIOUS
<1>3. success(Errors, r) # Pending /\ failure(Errors, ErrorContext(c, s)) # Pending
  BY <1>1, <1>2, Zenon
<1>4. is_success(success(Errors, r)) /\ success(Errors, r).value = r
  BY DEF is_success, success
<1>5. ~is_success(failure(Errors, ErrorContext(c, s)))
  BY DEF is_success, failure
<1>6. failure(Errors, ErrorContext(c, s)).error = ErrorContext(c, s)
  BY DEF failure
<1>7. ErrorContext(c, s).code = c /\ ErrorContext(c, s).sqlstate = s
  BY DEF ErrorContext
<1> QED
  BY <1>3, <1>4, <1>5, <1>6, <1>7, Zenon

(* An error that a retry may cure leaves everything open. *)
LEMMA RetryableSettles ==
    ASSUME NEW n, NEW c, is_retryable(c), NEW sync, NEW own, NEW len, NEW todo, NEW unsent
    PROVE  Settled(n, failure(Errors, ErrorContext(c, NoSqlstate)), sync, own, len, todo, unsent)
BY OutcomeIs, Zenon DEF Settled

(* Any error will do before the query is sent. *)
LEMMA NotSentSettles ==
    ASSUME NEW n, NEW c, NEW sync, NEW mk, NEW len, NEW todo, NEW unsent, NotSent(n, mk, todo, unsent)
    PROVE  Settled(n, failure(Errors, ErrorContext(c, NoSqlstate)), sync, Own(mk, n), len, todo, unsent)
BY OutcomeIs, Zenon DEF Settled, NotSent

-----------------------------------------------------------------------------
(* What is read belongs to the call, in order and without gaps *)

LEMMA CompleteEmpty ==
    ASSUME NEW len, NEW up
    PROVE  Complete({}, Null, len, up, <<>>)
BY DEF Complete

LEMMA CurrentEnd ==
    ASSUME NEW serial, NEW mk, NEW todo, todo # Nil => todo.serial = serial,
           NEW unsent, unsent # Nil => unsent.serial = serial
    PROVE  Current(serial, mk, todo, unsent, <<>>) /\ Current(serial, mk, todo, unsent, <<Ready>>)
BY DEF Current, Ready

-----------------------------------------------------------------------------
(* The invariant, action by action *)

ExecutorInv == LinkInv /\ HolderInv /\ MadeInv /\ CallInv /\ DoneInv

LEMMA HolderSame ==
    ASSUME HolderInv, UNCHANGED ownVars, conn'.status = conn.status,
           call' \in Cleanups <=> call \in Cleanups,
           call' \in Executes /\ call'.pc # "start" => obj[call'.x].holds
    PROVE  HolderInv'
<1>1. holder' = holder /\ obj' = obj /\ terminated' = terminated
  BY DEF ownVars
<1> QED
  BY <1>1, Zenon DEF HolderInv

(* While an executor reads or writes, the connection may turn out broken. *)
LEMMA HolderBusy ==
    ASSUME HolderInv, UNCHANGED ownVars, call \in Executes, call.pc # "start", call' \notin Cleanups,
           call' \in Executes => call'.x = call.x
    PROVE  HolderInv'
<1>1. holder' = holder /\ obj' = obj /\ terminated' = terminated
  BY DEF ownVars
<1>2. call \notin Cleanups /\ call.x \in Objects
  BY CallIs, Zenon DEF Executes
<1>3. obj[call.x].holds /\ holder.status = "USED"
  BY <1>2, Zenon DEF HolderInv
<1> QED
  BY <1>1, <1>2, <1>3 DEF HolderInv

Dynamic(c) ==
    /\ c.pc \in BeforeSend => NotSent(c.serial, made, server.todo, conn.unsent)
    /\ c.pc \notin BeforeSend => Current(c.serial, made, server.todo, conn.unsent, Input)
    /\ c.pc \in Reading => Complete(Own(made, c.serial), c.result, Len(c.stmts), server.up, Input)
    /\ c.pc = "drain" => c.result \in Own(made, c.serial) \cup {Lost}

LEMMA CallMoved ==
    ASSUME CallInv, issued' = issued, call \in Executes, call' \in Executes,
           call'.serial = call.serial, call'.stmts = call.stmts, call'.x = call.x,
           call'.pc \in {"discard", "exec"} => call.x \in SyncObjects,
           call'.pc \in {"flush", "write", "read", "collect", "drain"} => call.x \in AsyncObjects,
           call'.pc \notin {"exec", "drain"} => call'.result = Null,
           Dynamic(call)'
    PROVE  CallInv'
<1>1. Texts' = Texts
  BY DEF Texts
<1> QED
  BY <1>1, Zenon DEF CallInv, Dynamic

LEMMA CallStays ==
    ASSUME CallInv, issued' = issued, call' = call, call \in Executes => Dynamic(call)'
    PROVE  CallInv'
<1>1. CASE call \in Executes
  <2>1. /\ call.pc \in {"discard", "exec"} => call.x \in SyncObjects
        /\ call.pc \in {"flush", "write", "read", "collect", "drain"} => call.x \in AsyncObjects
        /\ call.pc \notin {"exec", "drain"} => call.result = Null
    BY <1>1, Zenon DEF CallInv
  <2>2. /\ call'.pc \in {"discard", "exec"} => call.x \in SyncObjects
        /\ call'.pc \in {"flush", "write", "read", "collect", "drain"} => call.x \in AsyncObjects
        /\ call'.pc \notin {"exec", "drain"} => call'.result = Null
        /\ call'.serial = call.serial /\ call'.stmts = call.stmts /\ call'.x = call.x /\ call' \in Executes
    BY <1>1, <2>1, Zenon
  <2> QED
    BY <1>1, <2>2, CallMoved, Zenon
<1>2. CASE call \notin Executes
  BY <1>2, Zenon DEF CallInv
<1> QED
  BY <1>1, <1>2, Zenon

LEMMA NotSentAny ==
    ASSUME NEW serial \in Nat \ {0}, NEW mk, NEW todo, NEW unsent, NotSent(serial, mk, todo, unsent),
           NEW todo2 \in {todo, unsent, Nil}, NEW unsent2 \in {unsent, Nil}
    PROVE  NotSent(serial, mk, todo2, unsent2)
<1>1. serial # Nil.serial
  BY FlightIs
<1> QED
  BY <1>1, Zenon DEF NotSent

LEMMA CurrentAny ==
    ASSUME NEW serial, NEW mk, NEW todo, NEW unsent, NEW in, Current(serial, mk, todo, unsent, in),
           NEW todo2 \in {todo, unsent, Nil}, NEW unsent2 \in {unsent, Nil}
    PROVE  Current(serial, mk, todo2, unsent2, in)
BY Zenon DEF Current

LEMMA SerialIs ==
    ASSUME call \in Executes
    PROVE  call.serial \in Nat \ {0} /\ call.x \in Objects /\ call.pc \in Places
           /\ call.result \in PgResults \cup {Null} /\ call \notin Cleanups
BY CallIs DEF Executes, Places

LEMMA NowDynamic ==
    ASSUME CallInv, call \in Executes
    PROVE  Dynamic(call)
BY Zenon DEF CallInv, Dynamic

Executors == [holds : BOOLEAN, fd : {0, 1, 2}, watching : BOOLEAN]

LEMMA EmptyIs == Empty \in Executors /\ ~Empty.holds
BY DEF Empty, Executors

LEMMA ConnectionCodes ==
    /\ is_success_code(check_connection("OK"))
    /\ ~is_success_code(check_connection("BAD"))
    /\ ~is_success_code(check_connection("null"))
<1>1. check_connection("OK") = Success /\ check_connection("BAD") = Server("ConnectionLost")
      /\ check_connection("null") = Client("NotConnected")
  BY DEF check_connection
<1>2. Success.category = "success" /\ Server("ConnectionLost").category = "server"
      /\ Client("NotConnected").category = "client"
  BY DEF Success, Server, Client
<1> QED
  BY <1>1, <1>2 DEF is_success_code

LEMMA HolderTypes ==
    ASSUME HolderInv
    PROVE  /\ holder \in [status : {"FREE", "USED", "DEAD"}, cleanup : Words]
           /\ obj \in [Objects -> Executors]
           /\ \A x \in Objects : obj[x] \in Executors
BY Zenon DEF HolderInv, Executors

LEMMA HolderIdleNext ==
    ASSUME call' \notin Executes, call' \notin Cleanups,
           holder' \in [status : {"FREE", "USED", "DEAD"}, cleanup : Words],
           obj' \in [Objects -> Executors], terminated' = FALSE,
           holder'.status = "FREE" => conn'.status = "OK",
           holder'.status = "USED" => \E x \in Objects : obj'[x].holds,
           holder'.status # "USED" => \A x \in Objects : ~obj'[x].holds,
           \A x, y \in Objects : obj'[x].holds /\ obj'[y].holds => x = y
    PROVE  HolderInv'
BY Zenon DEF HolderInv, Executors

Answers(out, todo, unsent) ==
    Settled(call.serial, out, call.x \in SyncObjects, Own(made, call.serial), Len(call.stmts), todo, unsent)

LEMMA ConnectionErrors ==
    /\ extract_connection_error("BAD") = ErrorContext(Server("ConnectionLost"), NoSqlstate)
    /\ \A s : \E c : extract_connection_error(s) = ErrorContext(c, NoSqlstate)
    /\ \A c, s : ErrorContext(c, s) # NoError
<1>1. \A c, s : ErrorContext(c, s) # NoError
  BY DEF ErrorContext, NoError
<1>2. extract_connection_error("BAD") = ErrorContext(Server("ConnectionLost"), NoSqlstate)
  BY DEF extract_connection_error
<1>3. \A s : \E c : extract_connection_error(s) = ErrorContext(c, NoSqlstate)
  BY Zenon DEF extract_connection_error
<1> QED
  BY <1>1, <1>2, <1>3, Zenon

(* The query that a call sends. *)
LEMMA SentIsNew ==
    ASSUME ExecutorInv, call \in Executes, call.pc \in BeforeSend, NEW t, t = Sent(call.serial, call.stmts)
    PROVE  t \in InFlight /\ NewQuery(t) /\ t.serial = call.serial /\ Own(made, call.serial) = {}
<1>1. call.serial \in Nat \ {0} /\ call.stmts \in Seq(Words) /\ Len(call.stmts) \in Nat
  BY DEF Executes
<1>2. /\ t \in InFlight /\ t.serial = call.serial /\ t.stmts = call.stmts /\ t.next = 1
  BY <1>1, FlightIs, Zenon
<1>3. Own(made, call.serial) = {}
  BY NowDynamic, Zenon DEF ExecutorInv, Dynamic, NotSent
<1>4. call.serial = Len(issued) /\ issued[call.serial].out = Pending /\ call.stmts = Texts[call.serial]
  BY Zenon DEF ExecutorInv, CallInv
<1>5. Known(t, Len(issued), Texts)
  <2>1. t.serial <= Len(issued)
    BY <1>1, <1>2, <1>4
  <2>2. t.next \in 1 .. Len(t.stmts) + 1
    BY <1>1, <1>2
  <2> QED
    BY <1>2, <1>4, <2>1, <2>2, Zenon DEF Known
<1> QED
  BY <1>2, <1>3, <1>4, <1>5, Zenon DEF NewQuery

-----------------------------------------------------------------------------
(* The server *)

(* The server ran a statement with result r. *)
Ran(r) ==
    LET t == server.todo
    IN  /\ server.up /\ t \in InFlight /\ t.next <= Len(t.stmts)
        /\ r \in PgResults /\ r.serial = t.serial /\ r.stmt = t.next
        /\ r.status = "FATAL_ERROR" => r.sqlstate \in Sqlstates
        /\ made' = IF r.serial = 0 THEN made ELSE made \cup {r}
        /\ conn' = conn /\ call' = call /\ server' \in Servers /\ server'.up = server.up

Over(r) ==
    /\ server'.todo = Nil
    /\ r.status # "COPY_IN"
    /\ r.status = "FATAL_ERROR" \/ r.stmt = Len(server.todo.stmts)
    /\ Input' = Input \o <<ResultMsg(r), Ready>>

GoesOn(r) ==
    /\ server'.todo \in InFlight
    /\ server'.todo.serial = server.todo.serial /\ server'.todo.stmts = server.todo.stmts
    /\ r.status # "FATAL_ERROR"
    /\ server'.todo.next = IF r.status = "COPY_IN" THEN Len(server.todo.stmts) + 1 ELSE server.todo.next + 1
    /\ server'.todo.next <= Len(server.todo.stmts) + 1
    /\ Input' = Input \o <<ResultMsg(r)>>

IsStart(in2, in) == Len(in2) <= Len(in) /\ \A i \in 1 .. Len(in2) : in2[i] = in[i]

Added(in2, l, in, m) ==
    /\ in2 = in \o <<m>> /\ l = Len(in) /\ l \in Nat /\ Len(in2) = l + 1
    /\ in2 \in Seq(Messages) /\ in2[l + 1] = m
    /\ \A n \in 1 .. l : in2[n] = in[n]
    /\ \A n \in 1 .. l + 1 : n = l + 1 \/ n \in 1 .. l
    /\ l + 1 \in 1 .. l + 1 /\ \A n \in 1 .. l : n \in 1 .. l + 1 /\ n < l + 1

(* What the server does, and the loss of the connection. *)
LEMMA ServerInv ==
    ExecutorInv /\ (ServerRuns \/ ServerSendsPart \/ ConnectionBreaks) => ExecutorInv'
<1>AppendOne.
    ASSUME NEW S, NEW s \in Seq(S), NEW m \in S
    PROVE  /\ s \o <<m>> \in Seq(S) /\ Len(s \o <<m>>) = Len(s) + 1
           /\ \A i \in 1 .. Len(s) : (s \o <<m>>)[i] = s[i]
           /\ (s \o <<m>>)[Len(s) + 1] = m
  BY <1>AppendOne, ConcatIs

(* A message that ends nothing, the result of a COPY, and the last result  *)
(* with "ready".                                                           *)
<1>ShapeRuns.
    ASSUME NEW async, NEW todo, NEW in \in Seq(Messages), NEW unsent,
           Shape(async, unsent, TRUE, todo, in), todo # Nil, ~CopyWaits(todo)
    PROVE  /\ unsent = Nil /\ async \notin {"idle", "copy"}
           /\ \A n \in 1 .. Len(in) : in[n] # Ready /\ ~IsCopy(in[n])
  BY <1>ShapeRuns DEF Shape

<1>ShapeMore.
    ASSUME NEW async, async \notin {"idle", "copy"}, NEW in \in Seq(Messages),
           \A n \in 1 .. Len(in) : in[n] # Ready /\ ~IsCopy(in[n]),
           NEW m \in Messages, m # Ready, NEW todo, IsCopy(m) => CopyWaits(todo)
    PROVE  Shape(async, Nil, TRUE, todo, in \o <<m>>)
  <2> USE <1>ShapeMore
  <2>1. PICK in2, l : in2 = in \o <<m>> /\ l = Len(in)
    BY Zenon
  <2>2. /\ Len(in2) = l + 1 /\ l \in Nat
        /\ \A i \in 1 .. l : in2[i] = in[i]
        /\ in2[l + 1] = m
    <3>1. Len(in) \in Nat
      BY SeqHas, Zenon
    <3>2. /\ Len(in \o <<m>>) = Len(in) + 1
          /\ \A i \in 1 .. Len(in) : (in \o <<m>>)[i] = in[i]
          /\ (in \o <<m>>)[Len(in) + 1] = m
      BY <1>AppendOne, ZenonT(40)
    <3> QED
      BY <2>1, <3>1, <3>2, Zenon
  <2>3. \A n \in 1 .. l : in2[n] # Ready /\ ~IsCopy(in2[n])
    BY <2>1, <2>2, Zenon
  <2>4. Shape(async, Nil, TRUE, todo, in2)
    <3> SUFFICES ASSUME NEW n \in 1 .. l + 1
                 PROVE  /\ in2[n] = Ready => n = l + 1 /\ todo = Nil
                        /\ IsCopy(in2[n]) => n = l + 1 /\ CopyWaits(todo)
      BY <2>2, Zenon DEF Shape
    <3>1. CASE n = l + 1
      BY <2>2, <3>1, Zenon
    <3>2. CASE n # l + 1
      <4>1. n \in 1 .. l
        BY <2>2, <3>2
      <4> QED
        BY <2>3, <4>1, Zenon
    <3> QED
      BY <3>1, <3>2, Zenon
  <2> QED
    BY <2>1, <2>4, Zenon

<1>ServerRan.
    ASSUME conn \in Links, server \in Servers, ServerRuns
    PROVE  \E r : Ran(r) /\ (Over(r) \/ GoesOn(r))
  <2> USE <1>ServerRan
  <2> DEFINE t == server.todo
  <2>1. t \in InFlight /\ server.up /\ t.next <= Len(t.stmts)
    BY DEF Servers, ServerRuns
  <2>2. t.serial \in Nat /\ t.next \in Nat /\ t.stmts \in Seq(Words) /\ Len(t.stmts) \in Nat
    <3>1. t.serial \in Nat /\ t.next \in Nat /\ t.stmts \in Seq(Words)
      BY <2>1 DEF InFlight
    <3> QED
      BY <3>1, SeqHas, Zenon
  <2> DEFINE Ends(r) == r.status # "COPY_IN" /\ (r.status = "FATAL_ERROR" \/ t.next = Len(t.stmts))
             NextOf(r) == IF r.status = "COPY_IN" THEN Len(t.stmts) + 1 ELSE t.next + 1
  <2>3. PICK r \in {Succeeds(t)} \cup {Fails(t, s) : s \in Sqlstates} :
           /\ made' = IF r.serial = 0 THEN made ELSE made \cup {r}
           /\ server' = [server EXCEPT
                 !.todo = IF Ends(r) THEN Nil ELSE [t EXCEPT !.next = NextOf(r)],
                 !.wire = @ \o IF Ends(r) THEN <<ResultMsg(r), Ready>> ELSE <<ResultMsg(r)>>]
    BY Zenon DEF ServerRuns
  <2>4. /\ r \in PgResults /\ r.serial = t.serial /\ r.stmt = t.next
        /\ r.status = "FATAL_ERROR" => r.sqlstate \in Sqlstates
    <3>1. CASE r = Succeeds(t)
      BY <2>2, <3>1 DEF Succeeds, Result, PgResults
    <3>2. ASSUME NEW s \in Sqlstates, r = Fails(t, s)
          PROVE  /\ r \in PgResults /\ r.serial = t.serial /\ r.stmt = t.next
                 /\ r.status = "FATAL_ERROR" => r.sqlstate \in Sqlstates
      BY <2>2, <3>2 DEF Fails, Result, PgResults
    <3> QED
      BY <3>1, <3>2, Zenon
  <2>5. conn' = conn /\ call' = call
    BY Zenon DEF ServerRuns
  <2>6. ResultMsg(r) \in Messages /\ Ready \in Messages
    BY <2>4, MessagesAre, Zenon
  <2>7. server.wire \in Seq(Messages) /\ conn.inbuf \in Seq(Messages)
    BY InputIs, Zenon
  <2>8. CASE Ends(r)
    <3>1. server' = [server EXCEPT !.todo = Nil, !.wire = @ \o <<ResultMsg(r), Ready>>]
      BY <2>3, <2>8, Zenon
    <3>2. <<ResultMsg(r), Ready>> \in Seq(Messages) /\ server.wire \o <<ResultMsg(r), Ready>> \in Seq(Messages)
      BY <2>6, <2>7, AppendTwo
    <3>3. /\ server' \in Servers /\ server'.todo = Nil /\ server'.up = server.up
          /\ server'.wire = server.wire \o <<ResultMsg(r), Ready>>
      BY <3>1, <3>2, Zenon DEF Servers
    <3>4. Input' = Input \o <<ResultMsg(r), Ready>>
      <4>1. PICK a, b, c : a = conn.inbuf /\ b = server.wire /\ c = <<ResultMsg(r), Ready>>
        BY Zenon
      <4>2. a \in Seq(Messages) /\ b \in Seq(Messages) /\ c \in Seq(Messages)
        BY <2>7, <3>2, <4>1, Zenon
      <4>3. (a \o b) \o c = a \o (b \o c)
        BY <4>2
      <4> QED
        BY <2>5, <3>3, <4>1, <4>3, Zenon DEF Input
    <3>5. Ran(r)
      BY <2>1, <2>3, <2>4, <2>5, <3>3, Zenon DEF Ran
    <3>6. Over(r)
      BY <2>4, <2>8, <3>3, <3>4, Zenon DEF Over
    <3> QED
      BY <3>5, <3>6, Zenon
  <2>9. CASE ~Ends(r)
    <3> DEFINE t2 == [t EXCEPT !.next = NextOf(r)]
    <3>1. server' = [server EXCEPT !.todo = t2, !.wire = @ \o <<ResultMsg(r)>>]
      BY <2>3, <2>9, Zenon
    <3>2. <<ResultMsg(r)>> \in Seq(Messages) /\ server.wire \o <<ResultMsg(r)>> \in Seq(Messages)
      BY <2>6, <2>7, <1>AppendOne
    <3>3. NextOf(r) \in Nat /\ NextOf(r) <= Len(t.stmts) + 1 /\ r.status # "FATAL_ERROR"
      BY <2>1, <2>2, <2>4, <2>9
    <3>4. t2 \in InFlight /\ t2.serial = t.serial /\ t2.stmts = t.stmts /\ t2.next = NextOf(r)
      BY <2>1, <3>3 DEF InFlight
    <3> HIDE DEF t2
    <3>5. /\ server' \in Servers /\ server'.todo = t2 /\ server'.up = server.up
          /\ server'.wire = server.wire \o <<ResultMsg(r)>>
      BY <3>1, <3>2, <3>4, Zenon DEF Servers
    <3>6. Input' = Input \o <<ResultMsg(r)>>
      <4>1. PICK a, b, c : a = conn.inbuf /\ b = server.wire /\ c = <<ResultMsg(r)>>
        BY Zenon
      <4>2. a \in Seq(Messages) /\ b \in Seq(Messages) /\ c \in Seq(Messages)
        BY <2>7, <3>2, <4>1, Zenon
      <4>3. (a \o b) \o c = a \o (b \o c)
        BY <4>2
      <4> QED
        BY <2>5, <3>5, <4>1, <4>3, Zenon DEF Input
    <3>7. Ran(r)
      BY <2>1, <2>3, <2>4, <2>5, <3>5, Zenon DEF Ran
    <3>8. GoesOn(r)
      BY <3>3, <3>4, <3>5, <3>6, Zenon DEF GoesOn
    <3> QED
      BY <3>7, <3>8, Zenon
  <2> QED
    BY <2>8, <2>9, Zenon

<1>ServerRunsLink.
    ASSUME LinkInv, ServerRuns
    PROVE  LinkInv'
  <2> USE <1>ServerRunsLink
  <2>1. /\ conn \in Links /\ server \in Servers /\ call \in Calls /\ Input \in Seq(Messages)
        /\ Shape(conn.async, conn.unsent, server.up, server.todo, Input)
    BY InputTypes, Zenon DEF LinkInv
  <2>2. PICK r : Ran(r) /\ (Over(r) \/ GoesOn(r))
    BY <2>1, <1>ServerRan, Zenon
  <2>3. server.up = TRUE /\ server.todo # Nil /\ ~CopyWaits(server.todo)
    <3>1. server.up = TRUE
      BY <2>1, <2>2 DEF Ran, Servers
    <3>2. server.todo \in InFlight /\ server.todo.next <= Len(server.todo.stmts)
      BY <2>2, Zenon DEF Ran
    <3>3. server.todo.next \in Nat /\ Len(server.todo.stmts) \in Nat
      BY <3>2, SeqHas DEF InFlight
    <3> QED
      BY <3>1, <3>2, <3>3, FlightIs DEF CopyWaits
  <2>4. /\ conn.unsent = Nil /\ conn.async \notin {"idle", "copy"}
        /\ \A n \in 1 .. Len(Input) : Input[n] # Ready /\ ~IsCopy(Input[n])
    <3>1. Shape(conn.async, conn.unsent, TRUE, server.todo, Input)
      BY <2>1, <2>3, Zenon
    <3> QED
      BY <2>1, <2>3, <3>1, <1>ShapeRuns, Zenon
  <2>5. ResultMsg(r) \in Messages /\ ResultMsg(r) # Ready /\ (IsCopy(ResultMsg(r)) <=> r.status = "COPY_IN")
    <3>1. r \in PgResults
      BY <2>2, Zenon DEF Ran
    <3> QED
      BY <3>1, MessagesAre DEF ResultMsg, Ready, IsCopy
  <2>6. /\ conn' = conn /\ call' = call /\ server' \in Servers /\ server'.up = TRUE
    BY <2>2, <2>3, Zenon DEF Ran
  <2>7. Shape(conn.async, Nil, TRUE, server'.todo, Input')
    <3>1. CASE Over(r)
      <4>1. Shape(conn.async, Nil, TRUE, Nil, Input \o <<ResultMsg(r), Ready>>)
        BY <2>1, <2>4, <2>5, <3>1, ShapeOver, Zenon DEF Over
      <4> QED
        BY <3>1, <4>1, Zenon DEF Over
    <3>2. CASE GoesOn(r)
      <4>1. r.status = "COPY_IN" => CopyWaits(server'.todo)
        <5>1. server.todo \in InFlight
          BY <2>2, Zenon DEF Ran
        <5>2. Len(server.todo.stmts) \in Nat
          BY <5>1, SeqHas DEF InFlight
        <5>3. server'.todo # Nil
          BY <3>2, FlightIs, Zenon DEF GoesOn
        <5> QED
          BY <3>2, <5>2, <5>3 DEF GoesOn, CopyWaits
      <4>2. IsCopy(ResultMsg(r)) => CopyWaits(server'.todo)
        BY <2>5, <4>1, Zenon
      <4>3. Shape(conn.async, Nil, TRUE, server'.todo, Input \o <<ResultMsg(r)>>)
        BY <2>1, <2>4, <2>5, <4>2, <1>ShapeMore, Zenon
      <4> QED
        BY <3>2, <4>3, Zenon DEF GoesOn
    <3> QED
      BY <2>2, <3>1, <3>2, Zenon
  <2> QED
    BY <2>1, <2>4, <2>6, <2>7, Zenon DEF LinkInv

<1>ServerSendsPartLink.
    ASSUME LinkInv, ServerSendsPart
    PROVE  LinkInv' /\ UNCHANGED <<conn, call, made, issued>> /\ server'.up = server.up
           /\ server'.todo = server.todo /\ Input' = Input \o <<Part>>
  <2> USE <1>ServerSendsPartLink
  <2>1. /\ conn \in Links /\ server \in Servers /\ call \in Calls /\ Input \in Seq(Messages)
        /\ Shape(conn.async, conn.unsent, server.up, server.todo, Input)
    BY InputTypes, Zenon DEF LinkInv
  <2>2. /\ server.up /\ server.todo # Nil /\ server.todo.next <= Len(server.todo.stmts)
        /\ server.wire = <<>> /\ server' = [server EXCEPT !.wire = <<Part>>]
        /\ conn' = conn /\ call' = call /\ made' = made /\ issued' = issued
    BY DEF ServerSendsPart, chainVars
  <2>3. <<Part>> \in Seq(Messages)
    BY MessagesAre
  <2>4. server' \in Servers /\ server'.up = server.up /\ server'.todo = server.todo /\ server'.wire = <<Part>>
    BY <2>1, <2>2, <2>3, Zenon DEF Servers
  <2>5. conn.inbuf \in Seq(Messages)
    BY <2>1, InputIs, Zenon
  <2>6. Input' = Input \o <<Part>>
    BY <2>2, <2>4, <2>5, ConcatEmpty, ZenonT(40) DEF Input
  <2>7. server.up = TRUE /\ ~CopyWaits(server.todo)
    <3>1. server.up = TRUE /\ server.todo \in InFlight
      BY <2>1, <2>2 DEF Servers
    <3>2. server.todo.next \in Nat /\ Len(server.todo.stmts) \in Nat
      BY <3>1, SeqHas DEF InFlight
    <3> QED
      BY <2>2, <3>1, <3>2 DEF CopyWaits
  <2>8. Shape(conn.async, Nil, TRUE, server.todo, Input \o <<Part>>) /\ conn.unsent = Nil
    <3>1. Shape(conn.async, conn.unsent, TRUE, server.todo, Input)
      BY <2>1, <2>7, Zenon
    <3>2. /\ conn.unsent = Nil /\ conn.async \notin {"idle", "copy"}
          /\ \A n \in 1 .. Len(Input) : Input[n] # Ready /\ ~IsCopy(Input[n])
      BY <2>1, <2>2, <2>7, <3>1, <1>ShapeRuns, Zenon
    <3>3. Part \in Messages /\ Part # Ready /\ ~IsCopy(Part)
      BY MessagesAre DEF Part, Ready, IsCopy
    <3> QED
      BY <2>1, <3>2, <3>3, <1>ShapeMore, Zenon
  <2> QED
    BY <2>1, <2>2, <2>4, <2>6, <2>7, <2>8, Zenon DEF LinkInv

(* What a broken connection still delivers. *)
<1>StartIs.
    ASSUME NEW S, NEW a \in Seq(S), NEW b \in Seq(S), NEW n \in 0 .. Len(b)
    PROVE  /\ SubSeq(b, 1, n) \in Seq(S) /\ a \o SubSeq(b, 1, n) \in Seq(S)
           /\ IsStart(a \o SubSeq(b, 1, n), a \o b)
  <2> USE <1>StartIs
  <2>1. PICK c, la, lb : c = SubSeq(b, 1, n) /\ la = Len(a) /\ lb = Len(b) /\ la \in Nat /\ lb \in Nat
    BY SeqHas, Zenon
  <2>2. n \in 0 .. lb
    BY <2>1, Zenon
  <2>3. c \in Seq(S) /\ Len(c) = n /\ \A i \in 1 .. n : c[i] = b[i]
    <3>1. /\ SubSeq(b, 1, n) \in Seq(S) /\ Len(SubSeq(b, 1, n)) = IF 1 <= n THEN n - 1 + 1 ELSE 0
          /\ \A i \in 1 .. n - 1 + 1 : SubSeq(b, 1, n)[i] = b[1 + i - 1]
      BY SubSeqIs
    <3> QED
      BY <2>1, <2>2, <3>1
  <2>4. /\ a \o c \in Seq(S) /\ Len(a \o c) = la + n
        /\ \A i \in 1 .. la + n : (a \o c)[i] = IF i <= la THEN a[i] ELSE c[i - la]
    <3>1. /\ a \o c \in Seq(S) /\ Len(a \o c) = Len(a) + Len(c)
          /\ \A i \in 1 .. Len(a) + Len(c) : (a \o c)[i] = IF i <= Len(a) THEN a[i] ELSE c[i - Len(a)]
      BY <2>3, ConcatIs, Zenon
    <3>2. Len(a) = la /\ Len(c) = n
      BY <2>1, <2>3, Zenon
    <3> QED
      BY <3>1, <3>2
  <2>5. Len(a \o b) = la + lb /\ \A i \in 1 .. la + lb : (a \o b)[i] = IF i <= la THEN a[i] ELSE b[i - la]
    BY <2>1, ConcatIs, Zenon
  <2>6. ASSUME NEW i \in 1 .. la + n PROVE (a \o c)[i] = (a \o b)[i]
    <3>1. i \in 1 .. la + lb /\ (~(i <= la) => i - la \in 1 .. n)
      BY <2>1, <2>2
    <3> QED
      BY <2>3, <2>4, <2>5, <3>1, Zenon
  <2>7. la + n <= la + lb
    BY <2>1, <2>2
  <2>8. IsStart(a \o c, a \o b)
    BY <2>4, <2>5, <2>6, <2>7, Zenon DEF IsStart
  <2> QED
    BY <2>1, <2>3, <2>4, <2>8, Zenon

<1>StartHas.
    ASSUME NEW in \in Seq(Messages), NEW in2 \in Seq(Messages), IsStart(in2, in)
    PROVE  /\ \A i \in 1 .. Len(in2) : i \in 1 .. Len(in) /\ in2[i] = in[i] /\ (i = Len(in) => i = Len(in2))
           /\ \A i \in 1 .. Len(in) : i \notin 1 .. Len(in2) => \A j \in 1 .. Len(in2) : j # Len(in)
           /\ in = <<>> => in2 = <<>>
  <2> USE <1>StartHas
  <2>1. Len(in) \in Nat /\ Len(in2) \in Nat
    BY SeqHas, Zenon
  <2>2. Len(in2) <= Len(in) /\ \A i \in 1 .. Len(in2) : in2[i] = in[i]
    BY Zenon DEF IsStart
  <2>3. ASSUME in = <<>> PROVE in2 = <<>>
    <3>1. Len(in2) = 0
      BY <2>1, <2>2, <2>3
    <3> QED
      BY <3>1, SeqEmpty, Zenon
  <2> QED
    BY <2>1, <2>2, <2>3

<1>ShapeStart.
    ASSUME NEW async, NEW unsent, NEW up, NEW todo, NEW in \in Seq(Messages), NEW in2 \in Seq(Messages),
           IsStart(in2, in), Shape(async, unsent, up, todo, in)
    PROVE  Shape(async, unsent, FALSE, Nil, in2)
  <2> USE <1>ShapeStart
  <2>1. /\ in = <<>> => in2 = <<>>
        /\ \A i \in 1 .. Len(in2) : i \in 1 .. Len(in) /\ in2[i] = in[i] /\ (i = Len(in) => i = Len(in2))
    BY <1>StartHas, Zenon
  <2>2. /\ async = "idle" => in = <<>> /\ unsent = Nil
        /\ async = "copy" => in = <<>> /\ unsent = Nil
        /\ unsent # Nil => in = <<>>
        /\ \A n \in 1 .. Len(in) : (in[n] = Ready => n = Len(in)) /\ (IsCopy(in[n]) => n = Len(in))
    BY Zenon DEF Shape
  <2>3. ASSUME NEW n \in 1 .. Len(in2)
        PROVE  (in2[n] = Ready => n = Len(in2)) /\ (IsCopy(in2[n]) => n = Len(in2))
    BY <2>1, <2>2, Zenon
  <2>4. /\ async = "idle" => in2 = <<>> /\ Nil = Nil /\ unsent = Nil
        /\ async = "copy" => in2 = <<>> /\ unsent = Nil
        /\ unsent # Nil => in2 = <<>> /\ Nil = Nil
    BY <2>1, <2>2, Zenon
  <2> QED
    BY <2>3, <2>4 DEF Shape

<1>CurrentStart.
    ASSUME NEW serial, NEW mk, NEW todo, NEW unsent, NEW in \in Seq(Messages), NEW in2 \in Seq(Messages),
           IsStart(in2, in), Current(serial, mk, todo, unsent, in)
    PROVE  Current(serial, mk, Nil, unsent, in2)
  BY <1>CurrentStart, <1>StartHas, Zenon DEF Current

<1>CompleteStart.
    ASSUME NEW own, NEW result, NEW len, NEW up, NEW in \in Seq(Messages), NEW in2 \in Seq(Messages),
           IsStart(in2, in), Complete(own, result, len, up, in),
           \A n \in 1 .. Len(in) : in[n] = Ready => n = Len(in)
    PROVE  Complete(own, result, len, FALSE, in2)
  <2> USE <1>CompleteStart
  <2>1. /\ \A i \in 1 .. Len(in2) : i \in 1 .. Len(in) /\ in2[i] = in[i]
        /\ \A i \in 1 .. Len(in) : i \notin 1 .. Len(in2) => \A j \in 1 .. Len(in2) : j # Len(in)
    BY <1>StartHas, Zenon
  <2>2. ASSUME NEW i \in 1 .. Len(in2), NEW j \in 1 .. Len(in2), i < j, in2[i].k = "result", in2[j].k = "result"
        PROVE  in2[i].r.stmt < in2[j].r.stmt
    BY <2>1, <2>2, Zenon DEF Complete
  <2>3. ASSUME NEW r \in own, ~(r.stmt <= result.stmt), ~ \E i \in 1 .. Len(in2) : in2[i] = ResultMsg(r)
        PROVE  \A i \in 1 .. Len(in2) : in2[i] # Ready
    <3>1. CASE \E n \in 1 .. Len(in) : in[n] = ResultMsg(r)
      <4>1. PICK n \in 1 .. Len(in) : in[n] = ResultMsg(r)
        BY <3>1, Zenon
      <4>2. n \notin 1 .. Len(in2)
        BY <2>1, <2>3, <4>1, Zenon
      <4> QED
        BY <2>1, <4>2, Zenon
    <3>2. CASE \A n \in 1 .. Len(in) : in[n] # Ready
      BY <2>1, <3>2, Zenon
    <3> QED
      BY <2>3, <3>1, <3>2, Zenon DEF Complete
  <2>4. /\ result = Null \/ result \in own
        /\ \A i \in 1 .. Len(in2) : in2[i].k = "result" => result.stmt < in2[i].r.stmt
        /\ \A i \in 1 .. Len(in2) : in2[i] = Ready => \E r \in own : r.status = "FATAL_ERROR" \/ r.stmt = len
    BY <2>1, Zenon DEF Complete
  <2> QED
    BY <2>2, <2>3, <2>4, Zenon DEF Complete

<1>ConnectionBreaksLink.
    ASSUME LinkInv, ConnectionBreaks
    PROVE  /\ LinkInv' /\ UNCHANGED <<conn, call, made, issued>> /\ server'.todo = Nil /\ server'.up = FALSE
           /\ Input' \in Seq(Messages) /\ IsStart(Input', Input)
  <2> USE <1>ConnectionBreaksLink
  <2>1. PICK n \in 0 .. Len(server.wire) :
           server' = [server EXCEPT !.up = FALSE, !.todo = Nil, !.wire = SubSeq(@, 1, n)]
    BY Zenon DEF ConnectionBreaks
  <2>2. conn' = conn /\ call' = call /\ made' = made /\ issued' = issued
    BY DEF ConnectionBreaks, chainVars
  <2>3. /\ conn \in Links /\ server \in Servers /\ call \in Calls /\ Input \in Seq(Messages)
        /\ conn.inbuf \in Seq(Messages) /\ server.wire \in Seq(Messages)
    BY InputIs, Zenon DEF LinkInv
  <2>4. PICK a, b, c : a = conn.inbuf /\ b = server.wire /\ c = SubSeq(b, 1, n) /\ n \in 0 .. Len(b)
    BY Zenon
  <2>5. c \in Seq(Messages) /\ a \o c \in Seq(Messages) /\ IsStart(a \o c, a \o b)
    BY <2>3, <2>4, <1>StartIs, Zenon
  <2>6. server' \in Servers /\ server'.up = FALSE /\ server'.todo = Nil /\ server'.wire = c
    BY <2>1, <2>3, <2>4, <2>5, Zenon DEF Servers
  <2>7. Input' = a \o c /\ Input = a \o b
    BY <2>2, <2>4, <2>6, Zenon DEF Input
  <2>8. PICK i, i2 : i = Input /\ i2 = Input' /\ i \in Seq(Messages) /\ i2 \in Seq(Messages) /\ IsStart(i2, i)
    BY <2>3, <2>5, <2>7, Zenon
  <2>9. Shape(conn.async, conn.unsent, FALSE, Nil, i2)
    BY <2>8, <1>ShapeStart, Zenon DEF LinkInv
  <2> QED
    BY <2>2, <2>3, <2>6, <2>8, <2>9, Zenon DEF LinkInv

(* The server has run the statement todo.next. *)
<1>NumberedRuns.
    ASSUME NEW mk, NEW len \in Nat, NEW texts, NEW todo \in InFlight, NEW unsent,
           Numbered(mk, len, texts, todo, unsent), unsent = Nil, todo.next <= Len(todo.stmts),
           NEW r \in PgResults, r.serial = todo.serial, r.stmt = todo.next, r.serial # 0,
           r.status = "FATAL_ERROR" => r.sqlstate \in Sqlstates,
           NEW todo2,
           \/ todo2 = Nil
           \/ /\ todo2 \in InFlight /\ todo2.serial = todo.serial /\ todo2.stmts = todo.stmts
              /\ r.status # "FATAL_ERROR" /\ todo2.next <= Len(todo.stmts) + 1
              /\ todo2.next = IF r.status = "COPY_IN" THEN Len(todo.stmts) + 1 ELSE todo.next + 1
    PROVE  Numbered(mk \cup {r}, len, texts, todo2, unsent)
  <2> USE <1>NumberedRuns
  <2>1. todo # Nil /\ Nil.serial = 0
    BY FlightIs, Zenon
  <2>2. /\ todo.serial \in 1 .. len /\ todo.stmts = texts[todo.serial] /\ todo.next \in 1 .. Len(todo.stmts)
        /\ todo.stmts \in Seq(Words) /\ Len(todo.stmts) \in Nat
    <3>1. todo.serial \in Nat /\ todo.next \in Nat /\ todo.stmts \in Seq(Words)
      BY DEF InFlight
    <3>2. Len(todo.stmts) \in Nat
      BY <3>1, SeqHas, Zenon
    <3>3. todo.serial <= len /\ todo.stmts = texts[todo.serial] /\ todo.next \in 1 .. Len(todo.stmts) + 1
      BY <2>1, Zenon DEF Numbered, Known
    <3> QED
      BY <3>1, <3>2, <3>3
  <2>3. /\ mk \subseteq PgResults /\ mk \cup {r} \subseteq PgResults
        /\ \A s \in mk : s.stmt \in Nat
    BY DEF Numbered, PgResults
  <2>4. \A s \in mk : s.serial = todo.serial => s.stmt < todo.next /\ ~Final(s)
    BY <2>1, Zenon DEF Numbered
  <2>5. Known(todo2, len, texts) /\ Known(unsent, len, texts)
    BY <2>1, <2>2 DEF Known, Numbered
  <2>6. ASSUME NEW s \in mk \cup {r}
        PROVE  /\ s.serial \in 1 .. len
               /\ s.stmt \in 1 .. Len(texts[s.serial])
               /\ s.status = "FATAL_ERROR" => s.sqlstate \in Sqlstates
               /\ s.serial # unsent.serial
    <3>1. CASE s = r
      BY <2>1, <2>2, <3>1
    <3>2. CASE s \in mk
      BY <3>2, Zenon DEF Numbered
    <3> QED
      BY <3>1, <3>2, Zenon
  <2>7. ASSUME NEW s \in mk \cup {r}, todo2 # Nil, s.serial = todo2.serial
        PROVE  s.stmt < todo2.next /\ (todo2.next <= Len(todo2.stmts) => ~Final(s))
    <3>1. /\ todo2.serial = todo.serial /\ todo2.stmts = todo.stmts /\ r.status # "FATAL_ERROR"
          /\ todo2.next = IF r.status = "COPY_IN" THEN Len(todo.stmts) + 1 ELSE todo.next + 1
      BY <2>7, Zenon
    <3>2. CASE s = r
      BY <2>2, <3>1, <3>2 DEF Final
    <3>3. CASE s \in mk
      BY <2>2, <2>3, <2>4, <2>7, <3>1, <3>3
    <3> QED
      BY <3>2, <3>3, Zenon
  <2>8. ASSUME NEW s1 \in mk \cup {r}, NEW s2 \in mk \cup {r}, s1.serial = s2.serial
        PROVE  (s1.stmt = s2.stmt => s1 = s2) /\ (Final(s1) => s2.stmt <= s1.stmt)
    <3>1. CASE s1 = r /\ s2 = r
      BY <2>2, <3>1
    <3>2. CASE s1 = r /\ s2 \in mk
      BY <2>2, <2>3, <2>4, <2>8, <3>2
    <3>3. CASE s1 \in mk /\ s2 = r
      BY <2>2, <2>3, <2>4, <2>8, <3>3
    <3>4. CASE s1 \in mk /\ s2 \in mk
      BY <2>8, <3>4, Zenon DEF Numbered
    <3> QED
      BY <3>1, <3>2, <3>3, <3>4, Zenon
  <2> QED
    BY <2>3, <2>5, <2>6, <2>7, <2>8, Zenon DEF Numbered

<1>SettledRuns.
    ASSUME NEW n, NEW out, NEW sync, NEW own, NEW len, NEW todo, NEW unsent,
           Settled(n, out, sync, own, len, todo, unsent), n = todo.serial, ~(todo.next > Len(todo.stmts)),
           NEW r, NEW todo2
    PROVE  Settled(n, out, sync, own \cup {r}, len, todo2, unsent)
  <2> USE <1>SettledRuns
  <2>1. CASE is_success(out)
    BY <2>1, Zenon DEF Settled
  <2>2. CASE ~is_success(out)
    BY <2>2, Zenon DEF Settled
  <2> QED
    BY <2>1, <2>2, Zenon

<1>AppendTwice.
    ASSUME NEW S, NEW s \in Seq(S), NEW m \in S, NEW k \in S
    PROVE  s \o <<m, k>> = (s \o <<m>>) \o <<k>>
  <2> USE <1>AppendTwice
  <2>0. <<m>> \in Seq(S) /\ <<k>> \in Seq(S)
    OBVIOUS
  <2>2. PICK a, b : a = <<m>> /\ b = <<k>>
    BY Zenon
  <2>3. a \in Seq(S) /\ b \in Seq(S)
    BY <2>0, <2>2, Zenon
  <2>1. <<m, k>> = <<m>> \o <<k>>
    <3>1. /\ Len(a) = 1 /\ Len(b) = 1 /\ a[1] = m /\ b[1] = k
      BY <2>2
    <3>0. PICK x, y, c : x = Len(a) /\ y = Len(b) /\ c = a \o b
      BY Zenon
    <3>2. /\ a \o b \in Seq(S) /\ Len(a \o b) = 2 /\ (a \o b)[1] = m /\ (a \o b)[2] = k
      <4>1. /\ c \in Seq(S) /\ Len(c) = x + y
            /\ \A i \in 1 .. x + y : c[i] = IF i <= x THEN a[i] ELSE b[i - x]
        BY <2>3, <3>0, ConcatIs, Zenon
      <4>2. x = 1 /\ y = 1
        BY <3>0, <3>1, Zenon
      <4>3. Len(c) = 2 /\ c[1] = a[1] /\ c[2] = b[1]
        BY <4>1, <4>2
      <4> QED
        BY <3>0, <3>1, <4>1, <4>3, Zenon
    <3>3. /\ <<m, k>> \in Seq(S) /\ Len(<<m, k>>) = 2 /\ <<m, k>>[1] = m /\ <<m, k>>[2] = k
      OBVIOUS
    <3>4. PICK d : c = a \o b /\ d = <<m, k>>
      BY <3>0, Zenon
    <3>5. /\ c \in Seq(S) /\ d \in Seq(S) /\ Len(c) = 2 /\ Len(d) = 2
          /\ c[1] = d[1] /\ c[2] = d[2]
      BY <3>2, <3>3, <3>4, Zenon
    <3>6. /\ \A i \in 1 .. 2 : c[i] = d[i]
      <4>1. \A i \in 1 .. 2 : i = 1 \/ i = 2
        OBVIOUS
      <4> QED
        BY <3>5, <4>1, Zenon
    <3>7. c = d
      BY <3>5, <3>6
    <3> QED
      BY <2>2, <3>4, <3>7, Zenon
  <2>4. (s \o a) \o b = s \o (a \o b)
    BY <2>3
  <2> QED
    BY <2>1, <2>2, <2>4, Zenon

<1>AddedIs.
    ASSUME NEW in \in Seq(Messages), NEW m \in Messages
    PROVE  \E in2, l : Added(in2, l, in, m)
  <2> USE <1>AddedIs
  <2>1. Len(in) \in Nat
    BY SeqHas, Zenon
  <2>2. /\ in \o <<m>> \in Seq(Messages) /\ Len(in \o <<m>>) = Len(in) + 1
        /\ \A i \in 1 .. Len(in) : (in \o <<m>>)[i] = in[i]
        /\ (in \o <<m>>)[Len(in) + 1] = m
    BY <1>AppendOne, Zenon
  <2>3. PICK in2, l : in2 = in \o <<m>> /\ l = Len(in)
    BY Zenon
  <2>4. /\ l \in Nat /\ Len(in2) = l + 1 /\ in2 \in Seq(Messages) /\ in2[l + 1] = m
        /\ \A n \in 1 .. l : in2[n] = in[n]
    BY <2>1, <2>2, <2>3, Zenon
  <2>5. \A n \in 1 .. l + 1 : n = l + 1 \/ n \in 1 .. l
    BY <2>4
  <2>6. l + 1 \in 1 .. l + 1 /\ \A n \in 1 .. l : n \in 1 .. l + 1 /\ n < l + 1
    BY <2>4
  <2> QED
    BY <2>3, <2>4, <2>5, <2>6, Zenon DEF Added

(* "part" and "ready" are nobody's results. *)
<1>CurrentNote.
    ASSUME NEW serial, NEW mk, NEW todo, NEW unsent, NEW in \in Seq(Messages), NEW m \in Messages,
           Current(serial, mk, todo, unsent, in), m.k # "result"
    PROVE  Current(serial, mk, todo, unsent, in \o <<m>>)
  <2> USE <1>CurrentNote
  <2>1a. PICK in2, l : Added(in2, l, in, m)
    BY <1>AddedIs, Zenon
  <2>1. /\ in2 = in \o <<m>> /\ l = Len(in) /\ Len(in2) = l + 1
        /\ in2[l + 1] = m
        /\ \A n \in 1 .. l : in2[n] = in[n]
        /\ \A n \in 1 .. l + 1 : n = l + 1 \/ n \in 1 .. l
    BY <2>1a, Zenon DEF Added
  <2>2. ASSUME NEW n \in 1 .. l + 1, in2[n].k = "result" PROVE in2[n].r \in Own(mk, serial)
    BY <2>1, <2>2, Zenon DEF Current
  <2> QED
    BY <2>1, <2>2, Zenon DEF Current

<1>CompleteNote.
    ASSUME NEW own, NEW result, NEW len, NEW in \in Seq(Messages), NEW m \in Messages,
           Complete(own, result, len, TRUE, in), m.k # "result",
           m = Ready => \E r \in own : r.status = "FATAL_ERROR" \/ r.stmt = len
    PROVE  Complete(own, result, len, TRUE, in \o <<m>>)
  <2> USE <1>CompleteNote
  <2>1a. PICK in2, l : Added(in2, l, in, m)
    BY <1>AddedIs, Zenon
  <2>1. /\ in2 = in \o <<m>> /\ l = Len(in) /\ Len(in2) = l + 1
        /\ in2[l + 1] = m
        /\ \A n \in 1 .. l : in2[n] = in[n]
        /\ \A n \in 1 .. l + 1 : n = l + 1 \/ n \in 1 .. l
        /\ \A n \in 1 .. l : n \in 1 .. l + 1
    BY <2>1a, Zenon DEF Added
  <2>2. ASSUME NEW n \in 1 .. l + 1, in2[n].k = "result" PROVE n \in 1 .. l /\ in2[n] = in[n]
    BY <2>1, <2>2, Zenon
  <2>3. ASSUME NEW n \in 1 .. l + 1, in2[n].k = "result" PROVE result.stmt < in2[n].r.stmt
    BY <2>1, <2>2, <2>3, Zenon DEF Complete
  <2>4. ASSUME NEW i \in 1 .. l + 1, NEW n \in 1 .. l + 1, i < n, in2[i].k = "result", in2[n].k = "result"
        PROVE  in2[i].r.stmt < in2[n].r.stmt
    <3>1. i \in 1 .. l /\ in2[i] = in[i] /\ n \in 1 .. l /\ in2[n] = in[n]
      BY <2>2, <2>4, Zenon
    <3>2. in[i].r.stmt < in[n].r.stmt
      BY <2>1, <2>4, <3>1, Zenon DEF Complete
    <3> QED
      BY <3>1, <3>2, Zenon
  <2>5. ASSUME NEW r \in own, ~(r.stmt <= result.stmt) PROVE \E n \in 1 .. l + 1 : in2[n] = ResultMsg(r)
    <3>1. PICK n \in 1 .. l : in[n] = ResultMsg(r)
      BY <2>1, <2>5, Zenon DEF Complete
    <3> QED
      BY <2>1, <3>1, Zenon
  <2>6. ASSUME NEW n \in 1 .. l + 1, in2[n] = Ready PROVE \E r \in own : r.status = "FATAL_ERROR" \/ r.stmt = len
    BY <2>1, <2>6, Zenon DEF Complete
  <2>7. Complete(own, result, len, TRUE, in2)
    BY <2>1, <2>3, <2>4, <2>5, <2>6, Zenon DEF Complete
  <2> QED
    BY <2>1, <2>7, Zenon

(* The server answers with its next result. *)
<1>CurrentResult.
    ASSUME NEW serial, NEW mk, NEW todo, NEW in \in Seq(Messages), NEW r \in PgResults,
           Current(serial, mk, todo, Nil, in), todo # Nil, r.serial = todo.serial,
           NEW todo2, todo2 # Nil => todo2.serial = todo.serial
    PROVE  Current(serial, mk \cup {r}, todo2, Nil, in \o <<ResultMsg(r)>>)
  <2> USE <1>CurrentResult
  <2>1. ResultMsg(r) \in Messages /\ ResultMsg(r).r = r
    BY MessagesAre DEF ResultMsg
  <2>2a. PICK in2, l : Added(in2, l, in, ResultMsg(r))
    BY <2>1, <1>AddedIs, Zenon
  <2>2. /\ in2 = in \o <<ResultMsg(r)>> /\ l = Len(in) /\ Len(in2) = l + 1
        /\ in2[l + 1] = ResultMsg(r)
        /\ \A n \in 1 .. l : in2[n] = in[n]
        /\ \A n \in 1 .. l + 1 : n = l + 1 \/ n \in 1 .. l
    BY <2>2a, Zenon DEF Added
  <2>3. r.serial = serial
    BY Zenon DEF Current
  <2>4. ASSUME NEW n \in 1 .. l + 1, in2[n].k = "result" PROVE in2[n].r \in Own(mk \cup {r}, serial)
    <3>1. CASE n = l + 1
      BY <2>1, <2>2, <2>3, <3>1, Zenon DEF Own
    <3>2. CASE n \in 1 .. l
      <4>1. in[n].r \in Own(mk, serial)
        BY <2>2, <2>4, <3>2, Zenon DEF Current
      <4> QED
        BY <2>2, <3>2, <4>1, Zenon DEF Own
    <3> QED
      BY <2>2, <3>1, <3>2, Zenon
  <2>5. Current(serial, mk \cup {r}, todo2, Nil, in2)
    BY <2>2, <2>4, Zenon DEF Current
  <2> QED
    BY <2>2, <2>5, Zenon

<1>CompleteResult.
    ASSUME NEW own, NEW result, NEW len, NEW in \in Seq(Messages), NEW r \in PgResults,
           Complete(own, result, len, TRUE, in), result.stmt < r.stmt,
           \A n \in 1 .. Len(in) : in[n].k = "result" => in[n].r \in own,
           \A s \in own : s.stmt < r.stmt
    PROVE  Complete(own \cup {r}, result, len, TRUE, in \o <<ResultMsg(r)>>)
  <2> USE <1>CompleteResult
  <2>1. ResultMsg(r) \in Messages /\ ResultMsg(r).r = r /\ ResultMsg(r) # Ready
    BY MessagesAre DEF ResultMsg, Ready
  <2>2a. PICK in2, l : Added(in2, l, in, ResultMsg(r))
    BY <2>1, <1>AddedIs, Zenon
  <2>2. /\ in2 = in \o <<ResultMsg(r)>> /\ l = Len(in) /\ l \in Nat /\ Len(in2) = l + 1
        /\ in2[l + 1] = ResultMsg(r)
        /\ \A n \in 1 .. l : in2[n] = in[n]
        /\ \A n \in 1 .. l + 1 : n = l + 1 \/ n \in 1 .. l
        /\ l + 1 \in 1 .. l + 1 /\ \A n \in 1 .. l : n \in 1 .. l + 1 /\ n < l + 1
    BY <2>2a, Zenon DEF Added
  <2>3. ASSUME NEW n \in 1 .. l + 1, in2[n].k = "result" PROVE result.stmt < in2[n].r.stmt
    <3>1. CASE n = l + 1
      BY <2>1, <2>2, <3>1, Zenon
    <3>2. CASE n \in 1 .. l
      BY <2>2, <2>3, <3>2, Zenon DEF Complete
    <3> QED
      BY <2>2, <3>1, <3>2, Zenon
  <2>4. ASSUME NEW i \in 1 .. l + 1, NEW n \in 1 .. l + 1, i < n, in2[i].k = "result", in2[n].k = "result"
        PROVE  in2[i].r.stmt < in2[n].r.stmt
    <3>1. i \in 1 .. l
      BY <2>2, <2>4
    <3>2. in2[i] = in[i] /\ in[i].r \in own
      BY <2>2, <2>4, <3>1, Zenon
    <3>3. CASE n = l + 1
      <4>1. in2[n].r = r
        BY <2>1, <2>2, <3>3, Zenon
      <4> QED
        BY <3>2, <4>1, Zenon
    <3>4. CASE n \in 1 .. l
      <4>1. in2[n] = in[n]
        BY <2>2, <3>4, Zenon
      <4>2. in[i].r.stmt < in[n].r.stmt
        BY <2>2, <2>4, <3>1, <3>2, <3>4, <4>1, Zenon DEF Complete
      <4> QED
        BY <3>2, <4>1, <4>2, Zenon
    <3> QED
      BY <2>2, <3>3, <3>4, Zenon
  <2>5. ASSUME NEW s \in own \cup {r}, ~(s.stmt <= result.stmt) PROVE \E n \in 1 .. l + 1 : in2[n] = ResultMsg(s)
    <3>1. CASE s = r
      BY <2>2, <3>1, Zenon
    <3>2. CASE s \in own
      <4>1. PICK n \in 1 .. l : in[n] = ResultMsg(s)
        BY <2>2, <2>5, <3>2, Zenon DEF Complete
      <4> QED
        BY <2>2, <4>1, Zenon
    <3> QED
      BY <3>1, <3>2, Zenon
  <2>6. ASSUME NEW n \in 1 .. l + 1, in2[n] = Ready
        PROVE  \E s \in own \cup {r} : s.status = "FATAL_ERROR" \/ s.stmt = len
    <3>1. n \in 1 .. l /\ in[n] = Ready
      BY <2>1, <2>2, <2>6, Zenon
    <3> QED
      BY <2>2, <3>1, Zenon DEF Complete
  <2>7. Complete(own \cup {r}, result, len, TRUE, in2)
    BY <2>2, <2>3, <2>4, <2>5, <2>6, Zenon DEF Complete
  <2> QED
    BY <2>2, <2>7, Zenon

<1>ServerSendsPartInv.
    ASSUME ExecutorInv, ServerSendsPart
    PROVE  ExecutorInv'
  <2> USE <1>ServerSendsPartInv
  <2>1. /\ LinkInv' /\ UNCHANGED <<conn, call, made, issued>> /\ server'.todo = server.todo
        /\ Input' = Input \o <<Part>> /\ server'.up = TRUE /\ server.up = TRUE
    <3>1. server.up /\ server \in Servers
      BY DEF ServerSendsPart, ExecutorInv, LinkInv
    <3>2. server.up = TRUE
      BY <3>1 DEF Servers
    <3> QED
      BY <3>2, <1>ServerSendsPartLink, Zenon DEF ExecutorInv
  <2>2. HolderInv'
    <3>1. UNCHANGED ownVars
      BY DEF ServerSendsPart
    <3>2. call \in Executes /\ call.pc # "start" => obj[call.x].holds
      BY DEF ExecutorInv, HolderInv
    <3> QED
      BY <2>1, <3>1, <3>2, HolderSame, Zenon DEF ExecutorInv
  <2>3. MadeInv' /\ DoneInv'
    BY <2>1, FrameInv DEF ExecutorInv
  <2>4. CallInv'
    <3>1. ASSUME call \in Executes PROVE Dynamic(call)'
      <4>1. Dynamic(call) /\ Input \in Seq(Messages) /\ Part \in Messages
        BY <3>1, NowDynamic, InputTypes, MessagesAre, Zenon DEF ExecutorInv
      <4>2. Part.k # "result" /\ Part # Ready
        BY DEF Part, Ready
      <4>3. call.pc \notin BeforeSend => Current(call.serial, made, server.todo, conn.unsent, Input \o <<Part>>)
        BY <4>1, <4>2, <1>CurrentNote, Zenon DEF Dynamic
      <4>4. call.pc \in Reading =>
               Complete(Own(made, call.serial), call.result, Len(call.stmts), TRUE, Input \o <<Part>>)
        BY <2>1, <4>1, <4>2, <1>CompleteNote, Zenon DEF Dynamic
      <4> QED
        BY <2>1, <4>1, <4>3, <4>4, Zenon DEF Dynamic
    <3> QED
      BY <2>1, <3>1, CallStays, Zenon DEF ExecutorInv
  <2> QED
    BY <2>1, <2>2, <2>3, <2>4, Zenon DEF ExecutorInv

<1>ConnectionBreaksInv.
    ASSUME ExecutorInv, ConnectionBreaks
    PROVE  ExecutorInv'
  <2> USE <1>ConnectionBreaksInv
  <2>1. /\ LinkInv' /\ UNCHANGED <<conn, call, made, issued>> /\ server'.todo = Nil /\ server'.up = FALSE
        /\ Input' \in Seq(Messages) /\ IsStart(Input', Input)
    BY <1>ConnectionBreaksLink, Zenon DEF ExecutorInv
  <2>2. HolderInv'
    <3>1. UNCHANGED ownVars
      BY DEF ConnectionBreaks
    <3>2. call \in Executes /\ call.pc # "start" => obj[call.x].holds
      BY DEF ExecutorInv, HolderInv
    <3> QED
      BY <2>1, <3>1, <3>2, HolderSame, Zenon DEF ExecutorInv
  <2>3. MadeInv' /\ DoneInv'
    BY <2>1, FrameInv DEF ExecutorInv
  <2>4. CallInv'
    <3>1. ASSUME call \in Executes PROVE Dynamic(call)'
      <4>1. Dynamic(call) /\ call.serial \in Nat \ {0}
        BY <3>1, NowDynamic, SerialIs, Zenon DEF ExecutorInv
      <4>2. PICK t, u, i, i2 : /\ t = server.todo /\ u = conn.unsent /\ i = Input /\ i2 = Input'
                               /\ i \in Seq(Messages) /\ i2 \in Seq(Messages) /\ IsStart(i2, i)
        BY <2>1, InputTypes, Zenon DEF ExecutorInv
      <4>3. call.pc \in BeforeSend => NotSent(call.serial, made, Nil, u)
        BY <4>1, <4>2, NotSentAny, Zenon DEF Dynamic
      <4>4. call.pc \notin BeforeSend => Current(call.serial, made, Nil, u, i2)
        BY <4>1, <4>2, <1>CurrentStart, Zenon DEF Dynamic
      <4>5. \A n \in 1 .. Len(i) : i[n] = Ready => n = Len(i)
        BY <4>2, Zenon DEF ExecutorInv, LinkInv, Shape
      <4>6. call.pc \in Reading => Complete(Own(made, call.serial), call.result, Len(call.stmts), FALSE, i2)
        BY <4>1, <4>2, <4>5, <1>CompleteStart, Zenon DEF Dynamic
      <4> QED
        BY <2>1, <4>1, <4>2, <4>3, <4>4, <4>6, Zenon DEF Dynamic
    <3> QED
      BY <2>1, <3>1, CallStays, Zenon DEF ExecutorInv
  <2> QED
    BY <2>1, <2>2, <2>3, <2>4, Zenon DEF ExecutorInv

<1>OwnMore.
    ASSUME NEW mk, NEW r, NEW n
    PROVE  /\ r.serial = n => Own(mk \cup {r}, n) = Own(mk, n) \cup {r}
           /\ r.serial # n => Own(mk \cup {r}, n) = Own(mk, n)
  BY <1>OwnMore DEF Own

(* A statement of a query of the client's has run. *)
<1>RanMade.
    ASSUME ExecutorInv, NEW r, Ran(r), Over(r) \/ GoesOn(r), issued' = issued, r.serial # 0
    PROVE  MadeInv' /\ DoneInv' /\ conn.unsent = Nil
  <2> USE <1>RanMade
  <2>1. /\ server.up /\ server.todo \in InFlight /\ server.todo.next <= Len(server.todo.stmts)
        /\ r \in PgResults /\ r.serial = server.todo.serial /\ r.stmt = server.todo.next
        /\ r.status = "FATAL_ERROR" => r.sqlstate \in Sqlstates
        /\ made' = made \cup {r} /\ conn' = conn
    BY Zenon DEF Ran
  <2>2. \/ server'.todo = Nil
        \/ /\ server'.todo \in InFlight
           /\ server'.todo.serial = server.todo.serial /\ server'.todo.stmts = server.todo.stmts
           /\ r.status # "FATAL_ERROR" /\ server'.todo.next <= Len(server.todo.stmts) + 1
           /\ server'.todo.next = IF r.status = "COPY_IN" THEN Len(server.todo.stmts) + 1 ELSE server.todo.next + 1
    BY Zenon DEF Over, GoesOn
  <2>3. conn.unsent = Nil
    <3>1. server.todo # Nil
      BY <2>1, FlightIs, Zenon
    <3> QED
      BY <3>1 DEF ExecutorInv, LinkInv, Shape
  <2>4. /\ IssuedType /\ Len(issued) \in Nat /\ Texts' = Texts
        /\ Numbered(made, Len(issued), Texts, server.todo, conn.unsent)
    BY TextsIs DEF ExecutorInv, MadeInv, Texts
  <2>5. MadeInv'
    <3>1. PICK t, t2, u : t = server.todo /\ t2 = server'.todo /\ u = conn.unsent
      BY Zenon
    <3>2. Numbered(made \cup {r}, Len(issued), Texts, t2, u)
      <4>1. /\ t \in InFlight /\ u = Nil /\ t.next <= Len(t.stmts) /\ r.serial = t.serial /\ r.stmt = t.next
            /\ Numbered(made, Len(issued), Texts, t, u)
            /\ \/ t2 = Nil
               \/ /\ t2 \in InFlight /\ t2.serial = t.serial /\ t2.stmts = t.stmts
                  /\ r.status # "FATAL_ERROR" /\ t2.next <= Len(t.stmts) + 1
                  /\ t2.next = IF r.status = "COPY_IN" THEN Len(t.stmts) + 1 ELSE t.next + 1
        BY <2>1, <2>2, <2>3, <2>4, <3>1, Zenon
      <4> QED
        BY <2>1, <2>4, <4>1, <1>NumberedRuns, Zenon
    <3>3. IssuedType'
      BY <2>4 DEF IssuedType, IsSeq
    <3> QED
      BY <2>1, <2>4, <3>1, <3>2, <3>3, Zenon DEF MadeInv
  <2>6. DoneInv'
    <3>1. SUFFICES ASSUME NEW n \in 1 .. Len(issued), issued[n].out # Pending
                   PROVE  Settled(n, issued[n].out, issued[n].sync, Own(made \cup {r}, n), Len(Texts[n]),
                                  server'.todo, conn.unsent)
      BY <2>1, <2>4, Zenon DEF DoneInv
    <3>2. PICK o, sy, l, t, t2, u : /\ o = issued[n].out /\ sy = issued[n].sync /\ l = Len(Texts[n])
                                    /\ t = server.todo /\ t2 = server'.todo /\ u = conn.unsent
      BY Zenon
    <3>3. Settled(n, o, sy, Own(made, n), l, t, u)
      BY <3>1, <3>2, Zenon DEF ExecutorInv, DoneInv
    <3>4. CASE r.serial = n
      <4>1. Own(made \cup {r}, n) = Own(made, n) \cup {r}
        BY <3>4, <1>OwnMore, ZenonT(40)
      <4>2. n = t.serial /\ ~(t.next > Len(t.stmts))
        <5>1. n = t.serial /\ t.next <= Len(t.stmts) /\ t.next \in Nat /\ Len(t.stmts) \in Nat
          BY <2>1, <3>2, <3>4 DEF InFlight
        <5> QED
          BY <5>1
      <4>3. Settled(n, o, sy, Own(made, n) \cup {r}, l, t2, u)
        BY <3>3, <4>2, <1>SettledRuns, Zenon
      <4> QED
        BY <3>2, <4>1, <4>3, Zenon
    <3>5. CASE r.serial # n
      <4>1. Own(made \cup {r}, n) = Own(made, n)
        BY <3>5, <1>OwnMore, Zenon
      <4>2. n # 0 /\ t2.serial # n
        <5>1. n # 0 /\ Nil.serial = 0
          BY <2>4, FlightIs
        <5> QED
          BY <2>1, <2>2, <3>2, <3>5, <5>1, Zenon
      <4>3. Settled(n, o, sy, Own(made, n), l, t2, u)
        BY <3>3, <4>2, SettledAny, Zenon
      <4> QED
        BY <3>2, <4>1, <4>3, Zenon
    <3> QED
      BY <3>4, <3>5, Zenon
  <2> QED
    BY <2>3, <2>5, <2>6, Zenon

(* The statement was one of the call in progress. *)
<1>RanCurrent.
    ASSUME ExecutorInv, NEW r, Ran(r), Over(r) \/ GoesOn(r), call \in Executes, call.pc \notin BeforeSend
    PROVE  /\ r.serial = call.serial /\ r.serial # 0
           /\ Current(call.serial, made \cup {r}, server'.todo, Nil, Input')
           /\ call.pc \in Reading =>
                 Complete(Own(made \cup {r}, call.serial), call.result, Len(call.stmts), server'.up, Input')
  <2> USE <1>RanCurrent
  <2>1. /\ server.todo \in InFlight /\ r \in PgResults /\ r.serial = server.todo.serial /\ r.stmt = server.todo.next
        /\ server.todo.next <= Len(server.todo.stmts) /\ server.up = TRUE /\ server'.up = TRUE
    <3>1. server.up /\ server'.up = server.up /\ server \in Servers
      BY Zenon DEF Ran, ExecutorInv, LinkInv
    <3>2. server.up = TRUE
      BY <3>1 DEF Servers
    <3> QED
      BY <3>1, <3>2, Zenon DEF Ran
  <2>2. PICK t, t2, in, n, own, res, len :
           /\ t = server.todo /\ t2 = server'.todo /\ in = Input /\ n = call.serial /\ own = Own(made, n)
           /\ res = call.result /\ len = Len(call.stmts)
    BY Zenon
  <2>3. t # Nil /\ conn.unsent = Nil /\ in \in Seq(Messages) /\ n \in Nat \ {0} /\ res \in PgResults \cup {Null}
    <3>1. server.todo # Nil
      BY <2>1, FlightIs, Zenon
    <3>2. conn.unsent = Nil
      BY <3>1 DEF ExecutorInv, LinkInv, Shape
    <3> QED
      BY <2>2, <3>1, <3>2, InputTypes, SerialIs, Zenon DEF ExecutorInv
  <2>4. Current(n, made, t, Nil, in) /\ (call.pc \in Reading => Complete(own, res, len, TRUE, in))
    BY <2>1, <2>2, <2>3, NowDynamic, Zenon DEF ExecutorInv, Dynamic
  <2>5. r.serial = n
    BY <2>1, <2>2, <2>3, <2>4, Zenon DEF Current
  <2>6. ResultMsg(r) \in Messages /\ Ready \in Messages /\ Ready.k # "result"
    <3>1. Ready.k # "result"
      BY DEF Ready
    <3> QED
      BY <2>1, <3>1, MessagesAre, Zenon
  <2>7. PICK in1 : in1 = in \o <<ResultMsg(r)>> /\ in1 \in Seq(Messages)
    BY <2>3, <2>6, <1>AppendOne, Zenon
  <2>8. Current(n, made \cup {r}, t2, Nil, in1)
    <3>1. t2 # Nil => t2.serial = t.serial
      BY <2>2, Zenon DEF Over, GoesOn
    <3>2. r.serial = t.serial
      BY <2>1, <2>2, Zenon
    <3>3. Current(n, made \cup {r}, t2, Nil, in \o <<ResultMsg(r)>>)
      BY <2>1, <2>3, <2>4, <3>1, <3>2, <1>CurrentResult, Zenon
    <3> QED
      BY <2>7, <3>3, Zenon
  <2>9. ASSUME call.pc \in Reading PROVE Complete(own \cup {r}, res, len, TRUE, in1)
    <3>1. Numbered(made, Len(issued), Texts, t, conn.unsent)
      BY <2>2, Zenon DEF ExecutorInv, MadeInv
    <3>2. \A s \in own : s.stmt < r.stmt
      BY <2>1, <2>2, <2>3, <2>5, <3>1, Zenon DEF Numbered, Own
    <3>3. res.stmt < r.stmt
      <4>1. res = Null \/ res \in own
        BY <2>4, <2>9, Zenon DEF Complete
      <4>2. t.next \in 1 .. Len(t.stmts) + 1
        BY <2>3, <3>1, Zenon DEF Numbered, Known
      <4>3. 0 < r.stmt
        BY <2>1, <2>2, <4>2
      <4>4. Null.stmt = 0
        BY DEF Null, Result
      <4> QED
        BY <3>2, <4>1, <4>3, <4>4, Zenon
    <3>4. \A i \in 1 .. Len(in) : in[i].k = "result" => in[i].r \in own
      BY <2>2, <2>4, Zenon DEF Current
    <3>5. Complete(own \cup {r}, res, len, TRUE, in \o <<ResultMsg(r)>>)
      BY <2>1, <2>3, <2>4, <2>9, <3>2, <3>3, <3>4, <1>CompleteResult, Zenon
    <3> QED
      BY <2>7, <3>5, Zenon
  <2>10. Own(made \cup {r}, n) = own \cup {r}
    <3>1. Own(made \cup {r}, n) = Own(made, n) \cup {r}
      BY <2>5, <1>OwnMore, ZenonT(40)
    <3> QED
      BY <2>2, <3>1, Zenon
  <2>11. CASE GoesOn(r)
    <3>1. Input' = in1
      BY <2>2, <2>7, <2>11, Zenon DEF GoesOn
    <3> QED
      BY <2>1, <2>2, <2>3, <2>5, <2>8, <2>9, <2>10, <3>1, Zenon
  <2>12. CASE Over(r)
    <3>1. Input' = in1 \o <<Ready>>
      <4>1. PICK m, k : m = ResultMsg(r) /\ k = Ready /\ m \in Messages /\ k \in Messages
        BY <2>6, Zenon
      <4>2. in \o <<m, k>> = (in \o <<m>>) \o <<k>>
        BY <2>3, <4>1, <1>AppendTwice
      <4> QED
        BY <2>2, <2>7, <2>12, <4>1, <4>2, Zenon DEF Over
    <3>2. Current(n, made \cup {r}, t2, Nil, in1 \o <<Ready>>)
      BY <2>6, <2>7, <2>8, <1>CurrentNote, Zenon
    <3>3. ASSUME call.pc \in Reading PROVE Complete(own \cup {r}, res, len, TRUE, in1 \o <<Ready>>)
      <4>1. r.status = "FATAL_ERROR" \/ r.stmt = len
        <5>1. t.stmts = Texts[n] /\ call.stmts = Texts[n]
          <6>1. Known(t, Len(issued), Texts)
            BY <2>2, Zenon DEF ExecutorInv, MadeInv, Numbered
          <6>2. t.stmts = Texts[n]
            BY <2>1, <2>2, <2>3, <2>5, <6>1 DEF Known
          <6> QED
            BY <2>2, <6>2, Zenon DEF ExecutorInv, CallInv
        <5> QED
          BY <2>2, <2>12, <5>1, Zenon DEF Over
      <4>2. \E s \in own \cup {r} : s.status = "FATAL_ERROR" \/ s.stmt = len
        BY <4>1, Zenon
      <4> QED
        BY <2>6, <2>7, <2>9, <3>3, <4>2, <1>CompleteNote, Zenon
    <3> QED
      BY <2>1, <2>2, <2>3, <2>5, <2>10, <3>1, <3>2, <3>3, Zenon
  <2> QED
    BY <2>11, <2>12, Zenon

<1>ServerRunsInv.
    ASSUME ExecutorInv, ServerRuns
    PROVE  ExecutorInv'
  <2> USE <1>ServerRunsInv
  <2>1. PICK r : Ran(r) /\ (Over(r) \/ GoesOn(r))
    BY <1>ServerRan, Zenon DEF ExecutorInv, LinkInv
  <2>2. LinkInv' /\ issued' = issued /\ UNCHANGED ownVars
    <3>1. issued' = issued /\ UNCHANGED ownVars
      BY DEF ServerRuns, chainVars
    <3> QED
      BY <3>1, <1>ServerRunsLink, Zenon DEF ExecutorInv
  <2>3. /\ server.todo \in InFlight /\ r.serial = server.todo.serial /\ conn' = conn /\ call' = call
        /\ made' = IF r.serial = 0 THEN made ELSE made \cup {r}
        /\ server'.todo.serial \in {r.serial, 0}
    <3>1. Nil.serial = 0
      BY FlightIs, Zenon
    <3> QED
      BY <2>1, <3>1, Zenon DEF Ran, Over, GoesOn
  <2>4. HolderInv'
    <3>1. call \in Executes /\ call.pc # "start" => obj[call.x].holds
      BY DEF ExecutorInv, HolderInv
    <3> QED
      BY <2>2, <2>3, <3>1, HolderSame, Zenon DEF ExecutorInv
  <2>5. MadeInv' /\ DoneInv' /\ conn.unsent = Nil
    <3>1. CASE r.serial # 0
      BY <2>1, <2>2, <3>1, <1>RanMade, Zenon
    <3>2. CASE r.serial = 0
      <4>1. NewQuery(server'.todo)
        <5>1. /\ Numbered(made, Len(issued), Texts, server.todo, conn.unsent)
              /\ Len(issued) \in Nat
          BY TextsIs DEF ExecutorInv, MadeInv
        <5>2. server'.todo.serial = 0
          BY <2>3, <3>2, Zenon
        <5>3. Own(made, 0) = {}
          BY <5>1 DEF Numbered, Own
        <5>4. Known(server'.todo, Len(issued), Texts)
          <6>1. CASE server'.todo = Nil
            BY <6>1 DEF Known
          <6>2. CASE GoesOn(r)
            <7>1. /\ server'.todo.next \in Nat /\ server'.todo.stmts = server.todo.stmts
                  /\ server'.todo.next <= Len(server.todo.stmts) + 1 /\ Len(server.todo.stmts) \in Nat
              BY <2>3, <6>2 DEF GoesOn, InFlight
            <7>2. server'.todo.next >= 1
              <8>1. server.todo.next \in Nat
                BY <2>3 DEF InFlight
              <8> QED
                BY <6>2, <7>1, <8>1 DEF GoesOn
            <7> QED
              BY <5>1, <5>2, <7>1, <7>2 DEF Known
          <6> QED
            BY <2>1, <6>1, <6>2, Zenon DEF Over
        <5>5. \A n \in 1 .. Len(issued) : n # 0
          BY <5>1
        <5> QED
          BY <5>2, <5>3, <5>4, <5>5, Zenon DEF NewQuery
      <4>2. MadeInv' /\ DoneInv'
        BY <2>2, <2>3, <3>2, <4>1, FrameInv, Zenon DEF ExecutorInv
      <4>3. conn.unsent = Nil
        <5>1. server.todo # Nil
          BY <2>3, FlightIs, Zenon
        <5> QED
          BY <5>1 DEF ExecutorInv, LinkInv, Shape
      <4> QED
        BY <4>2, <4>3, Zenon
    <3> QED
      BY <3>1, <3>2, Zenon
  <2>6. CallInv'
    <3>1. ASSUME call \in Executes PROVE Dynamic(call)'
      <4>0. Dynamic(call) /\ call.serial \in Nat \ {0}
        BY <3>1, NowDynamic, SerialIs, Zenon DEF ExecutorInv
      <4>1. CASE call.pc \in BeforeSend
        <5>1. NotSent(call.serial, made, server.todo, conn.unsent) /\ call.pc \notin Reading /\ call.pc # "drain"
          BY <4>0, <4>1 DEF Dynamic, BeforeSend, Reading
        <5>2. r.serial # call.serial /\ 0 # call.serial
          BY <2>3, <4>0, <5>1 DEF NotSent
        <5>3. Own(made', call.serial) = Own(made, call.serial)
          <6>1. PICK n : n = call.serial /\ r.serial # n
            BY <5>2, Zenon
          <6>2. Own(made \cup {r}, n) = Own(made, n)
            BY <6>1, <1>OwnMore, Zenon
          <6> QED
            BY <2>3, <6>1, <6>2, Zenon
        <5>4. NotSent(call.serial, made', server'.todo, conn.unsent)
          BY <2>3, <5>1, <5>2, <5>3, Zenon DEF NotSent
        <5> QED
          BY <2>3, <4>1, <5>1, <5>4, Zenon DEF Dynamic
      <4>2. CASE call.pc \notin BeforeSend
        <5>1. /\ r.serial # 0
              /\ Current(call.serial, made \cup {r}, server'.todo, Nil, Input')
              /\ call.pc \in Reading =>
                    Complete(Own(made \cup {r}, call.serial), call.result, Len(call.stmts), server'.up, Input')
          BY <2>1, <3>1, <4>2, <1>RanCurrent, Zenon
        <5>2. Own(made, call.serial) \subseteq Own(made \cup {r}, call.serial)
          BY Zenon DEF Own
        <5> QED
          BY <2>3, <2>5, <4>0, <4>2, <5>1, <5>2, Zenon DEF Dynamic
      <4> QED
        BY <4>1, <4>2, Zenon
    <3> QED
      BY <2>2, <2>3, <3>1, CallStays, Zenon DEF ExecutorInv
  <2> QED
    BY <2>2, <2>4, <2>5, <2>6, Zenon DEF ExecutorInv

<1> QED
  BY <1>ServerRunsInv, <1>ServerSendsPartInv, <1>ConnectionBreaksInv, Zenon

-----------------------------------------------------------------------------
(* The owners of the connection *)

(* Nobody calls: executors are constructed, moved, destroyed, and the     *)
(* connection is cleaned or replaced.                                      *)
LEMMA OwnerInv ==
    /\ ExecutorInv
    /\ \/ \E x \in Objects : Construct(x) \/ Destroy(x) \/ NativeReset(x)
       \/ \E x \in Objects, query \in {"None", "DiscardAll"} : do_cleanup(x, query)
       \/ \E x, y \in Objects : Move(x, y) \/ MoveAssign(x, y)
       \/ replace_conn
    => ExecutorInv'
<1>FreshLink.
    ASSUME LinkInv, NEW fd \in {1, 2}, conn' = Fresh(fd), server' = FreshServer, call' \in Calls
    PROVE  LinkInv' /\ Input' = <<>> /\ server'.todo = Nil /\ conn'.unsent = Nil /\ conn'.status = "OK"
  <2> USE <1>FreshLink
  <2>1. /\ conn' \in Links /\ conn'.status = "OK" /\ conn'.async = "idle" /\ conn'.unsent = Nil
        /\ conn'.inbuf = <<>> /\ server' \in Servers /\ server'.up = TRUE /\ server'.todo = Nil
        /\ server'.wire = <<>>
    BY FreshIs, Zenon
  <2>2. Input' = <<>>
    BY <2>1, SeqEmpty, ConcatEmpty, Zenon DEF Input
  <2>3. Shape("idle", Nil, TRUE, Nil, <<>>)
    BY ShapeEmpty, Zenon
  <2> QED
    BY <2>1, <2>2, <2>3, Zenon DEF LinkInv

<1>OwnerActs.
    ASSUME ExecutorInv, call = NoCall, call' = NoCall \/ call' \in Cleanups, made' = made, issued' = issued,
           \/ UNCHANGED <<conn, server>>
           \/ \E fd \in {1, 2} : conn' = Fresh(fd) /\ server' = FreshServer
    PROVE  LinkInv' /\ MadeInv' /\ CallInv' /\ DoneInv'
  <2> USE <1>OwnerActs
  <2>1. call' \in Calls /\ call' \notin Executes
    BY CallIs, Zenon DEF Calls
  <2>2. LinkInv' /\ server'.todo \in {server.todo, Nil} /\ conn'.unsent \in {conn.unsent, Nil}
    <3>1. CASE UNCHANGED <<conn, server>>
      BY <2>1, <3>1, LinkSame DEF ExecutorInv
    <3>2. CASE \E fd \in {1, 2} : conn' = Fresh(fd) /\ server' = FreshServer
      <4>1. PICK fd \in {1, 2} : conn' = Fresh(fd) /\ server' = FreshServer
        BY <3>2, Zenon
      <4>2. LinkInv' /\ server'.todo = Nil /\ conn'.unsent = Nil
        BY <2>1, <4>1, <1>FreshLink, Zenon DEF ExecutorInv
      <4> QED
        BY <4>2, Zenon
    <3> QED
      BY <3>1, <3>2, Zenon
  <2>3. MadeInv' /\ DoneInv'
    <3>1. server'.todo \in {server.todo, conn.unsent, Nil} /\ conn'.unsent \in {conn.unsent, Nil}
      BY <2>2, Zenon
    <3> QED
      BY <3>1, FrameInv, Zenon DEF ExecutorInv
  <2>4. CallInv'
    BY <2>1, Zenon DEF CallInv
  <2> QED
    BY <2>2, <2>3, <2>4, Zenon

(* Nobody calls; the connection goes from one owner to another.  E is the  *)
(* owners before, F after the step.                                        *)
<1>HolderIdle.
    ASSUME HolderInv, call = NoCall
    PROVE  /\ terminated = FALSE
           /\ holder.status = "FREE" => conn.status = "OK"
           /\ holder.status = "USED" => \E x \in Objects : obj[x].holds
           /\ holder.status # "USED" => \A x \in Objects : ~obj[x].holds
           /\ \A x, y \in Objects : obj[x].holds /\ obj[y].holds => x = y
           /\ \A x \in Objects : obj[x].holds => holder.status = "USED"
  BY <1>HolderIdle, CallIs, Zenon DEF HolderInv

<1>ConstructInv.
    ASSUME ExecutorInv, NEW x \in Objects, Construct(x)
    PROVE  ExecutorInv'
  <2> USE <1>ConstructInv
  <2>1. /\ call = NoCall /\ call' = NoCall /\ holder.status = "FREE" /\ UNCHANGED <<conn, server>>
        /\ made' = made /\ issued' = issued /\ holder' = [holder EXCEPT !.status = "USED"]
    BY DEF Construct, linkVars, chainVars
  <2>2. LinkInv' /\ MadeInv' /\ CallInv' /\ DoneInv'
    BY <2>1, <1>OwnerActs, Zenon
  <2>3. HolderInv'
    <3>1. /\ terminated = FALSE /\ conn.status = "OK" /\ \A y \in Objects : ~obj[y].holds
      BY <2>1, <1>HolderIdle DEF ExecutorInv
    <3>2. ~setup_connection_throws
      <4>1. PQsetnonblocking = 0 /\ ~(PQsocket < 0)
        BY <3>1 DEF PQsetnonblocking, PQsocket, ExecutorInv, LinkInv, Links
      <4> QED
        BY <3>1, <4>1, ConnectionCodes, Zenon DEF setup_connection_throws
    <3>3. obj' = [obj EXCEPT ![x] = setup_connection] /\ terminated' = terminated
      BY <3>2, Zenon DEF Construct
    <3>4. setup_connection \in Executors /\ setup_connection.holds
      BY <3>1 DEF setup_connection, PQsocket, Executors, ExecutorInv, LinkInv, Links
    <3>5. /\ holder \in [status : {"FREE", "USED", "DEAD"}, cleanup : Words]
          /\ obj \in [Objects -> Executors]
      BY HolderTypes, Zenon DEF ExecutorInv
    <3>6. obj' \in [Objects -> Executors] /\ obj'[x].holds /\ \A y \in Objects : y # x => ~obj'[y].holds
      BY <3>1, <3>3, <3>4, <3>5
    <3>7. holder' \in [status : {"FREE", "USED", "DEAD"}, cleanup : Words] /\ holder'.status = "USED"
      BY <2>1, <3>5
    <3>8. call' \notin Executes /\ call' \notin Cleanups
      BY <2>1, CallIs, Zenon
    <3> QED
      BY <3>1, <3>3, <3>6, <3>7, <3>8, HolderIdleNext, Zenon
  <2> QED
    BY <2>2, <2>3, Zenon DEF ExecutorInv

<1>DoCleanupInv.
    ASSUME ExecutorInv, NEW x \in Objects, NEW query \in {"None", "DiscardAll"}, do_cleanup(x, query)
    PROVE  ExecutorInv'
  <2> USE <1>DoCleanupInv
  <2>1. /\ call = NoCall /\ call' = NoCall /\ UNCHANGED <<conn, server>>
        /\ made' = made /\ issued' = issued /\ holder' = [holder EXCEPT !.cleanup = to_sql(query)]
        /\ obj' = obj /\ terminated' = terminated
    BY DEF do_cleanup, linkVars, chainVars
  <2>2. LinkInv' /\ MadeInv' /\ CallInv' /\ DoneInv'
    BY <2>1, <1>OwnerActs, Zenon
  <2>3. HolderInv'
    <3>1. /\ holder \in [status : {"FREE", "USED", "DEAD"}, cleanup : Words]
          /\ obj \in [Objects -> Executors]
      BY HolderTypes, Zenon DEF ExecutorInv
    <3>2. to_sql(query) \in Words
      <4>1. to_sql(query) = "" \/ to_sql(query) = "DiscardAll"
        BY Zenon DEF to_sql
      <4>2. "" \in Words /\ "DiscardAll" \in Words
        BY DEF Words
      <4> QED
        BY <4>1, <4>2, Zenon
    <3>3. holder' \in [status : {"FREE", "USED", "DEAD"}, cleanup : Words] /\ holder'.status = holder.status
      BY <2>1, <3>1, <3>2
    <3>4. call' \notin Executes /\ call' \notin Cleanups
      BY <2>1, CallIs, Zenon
    <3>5. conn'.status = conn.status
      BY <2>1
    <3> QED
      BY <2>1, <3>1, <3>3, <3>4, <3>5, <1>HolderIdle, HolderIdleNext DEF ExecutorInv
  <2> QED
    BY <2>2, <2>3, Zenon DEF ExecutorInv

<1>NobodyNext.
    ASSUME HolderInv, holder.status = "USED", run_cleanup_sql, call = NoCall, conn' = conn,
           obj' \in [Objects -> Executors], \A y \in Objects : ~obj'[y].holds, terminated' = terminated
    PROVE  HolderInv' /\ (call' = NoCall \/ call' \in Cleanups)
  <2> USE <1>NobodyNext
  <2>1. /\ holder \in [status : {"FREE", "USED", "DEAD"}, cleanup : Words]
        /\ terminated = FALSE
    BY HolderTypes, <1>HolderIdle, Zenon
  <2>2. CASE /\ call' = NoCall
             /\ \E s \in {"FREE", "DEAD"} : holder' = [holder EXCEPT !.status = s] /\ (s = "FREE" => conn.status = "OK")
    <3>1. PICK s \in {"FREE", "DEAD"} : holder' = [holder EXCEPT !.status = s] /\ (s = "FREE" => conn.status = "OK")
      BY <2>2, Zenon
    <3>2. holder' \in [status : {"FREE", "USED", "DEAD"}, cleanup : Words] /\ holder'.status = s /\ s # "USED"
      BY <2>1, <3>1
    <3>3. call' \notin Executes /\ call' \notin Cleanups
      BY <2>2, CallIs, Zenon
    <3> QED
      BY <2>1, <2>2, <3>1, <3>2, <3>3, HolderIdleNext, Zenon
  <2>3. CASE /\ conn.status = "OK" /\ holder' = holder
             /\ call' = [pc |-> "discard", kind |-> "cleanup", stmts |-> <<holder.cleanup>>, serial |-> 0,
                         result |-> Null]
    <3>1. <<holder.cleanup>> \in Seq(Words)
      BY <2>1
    <3>2. call' \in Cleanups
      BY <2>3, <3>1, Zenon DEF Cleanups
    <3>3. call' \notin Executes
      BY <3>2, CallIs, Zenon
    <3> QED
      BY <2>1, <2>3, <3>2, <3>3 DEF HolderInv, Executors
  <2> QED
    BY <2>2, <2>3, Zenon DEF run_cleanup_sql

<1>DestroyInv.
    ASSUME ExecutorInv, NEW x \in Objects, Destroy(x)
    PROVE  ExecutorInv'
  <2> USE <1>DestroyInv
  <2>1. /\ call = NoCall /\ obj[x].holds /\ UNCHANGED <<conn, server>> /\ conn' = conn
        /\ made' = made /\ issued' = issued /\ run_cleanup_sql
        /\ obj' = [obj EXCEPT ![x] = Empty] /\ terminated' = terminated
    BY DEF Destroy, linkVars, chainVars
  <2>2. holder.status = "USED" /\ \A y \in Objects : obj[y].holds => x = y
    BY <2>1, <1>HolderIdle, Zenon DEF ExecutorInv
  <2>3. obj' \in [Objects -> Executors] /\ \A y \in Objects : ~obj'[y].holds
    <3>1. obj \in [Objects -> Executors]
      BY HolderTypes, Zenon DEF ExecutorInv
    <3> QED
      BY <2>1, <2>2, <3>1, EmptyIs
  <2>4. HolderInv' /\ (call' = NoCall \/ call' \in Cleanups)
    BY <2>1, <2>2, <2>3, <1>NobodyNext, Zenon DEF ExecutorInv
  <2>5. LinkInv' /\ MadeInv' /\ CallInv' /\ DoneInv'
    BY <2>1, <2>4, <1>OwnerActs, Zenon
  <2> QED
    BY <2>4, <2>5, Zenon DEF ExecutorInv

<1>MoveAssignInv.
    ASSUME ExecutorInv, NEW x \in Objects, NEW y \in Objects, MoveAssign(x, y)
    PROVE  ExecutorInv'
  <2> USE <1>MoveAssignInv
  <2>1. /\ call = NoCall /\ obj[x].holds /\ ~obj[y].holds /\ UNCHANGED <<conn, server>> /\ conn' = conn
        /\ made' = made /\ issued' = issued /\ run_cleanup_sql
        /\ obj' = [obj EXCEPT ![x] = obj[y], ![y] = Empty] /\ terminated' = terminated
    BY DEF MoveAssign, linkVars, chainVars
  <2>2. holder.status = "USED" /\ \A z \in Objects : obj[z].holds => x = z
    BY <2>1, <1>HolderIdle, Zenon DEF ExecutorInv
  <2>3. obj' \in [Objects -> Executors] /\ \A z \in Objects : ~obj'[z].holds
    <3>1. obj \in [Objects -> Executors]
      BY HolderTypes, Zenon DEF ExecutorInv
    <3> QED
      BY <2>1, <2>2, <3>1, EmptyIs
  <2>4. HolderInv' /\ (call' = NoCall \/ call' \in Cleanups)
    BY <2>1, <2>2, <2>3, <1>NobodyNext, Zenon DEF ExecutorInv
  <2>5. LinkInv' /\ MadeInv' /\ CallInv' /\ DoneInv'
    BY <2>1, <2>4, <1>OwnerActs, Zenon
  <2> QED
    BY <2>4, <2>5, Zenon DEF ExecutorInv

<1>MoveInv.
    ASSUME ExecutorInv, NEW x \in Objects, NEW y \in Objects, Move(x, y)
    PROVE  ExecutorInv'
  <2> USE <1>MoveInv
  <2>1. /\ call = NoCall /\ call' = NoCall /\ obj[y].holds /\ ~obj[x].holds /\ UNCHANGED <<conn, server>>
        /\ conn' = conn /\ made' = made /\ issued' = issued /\ holder' = holder
        /\ obj' = [obj EXCEPT ![x] = obj[y], ![y] = Empty] /\ terminated' = terminated
    BY DEF Move, linkVars, chainVars
  <2>2. /\ holder.status = "USED" /\ (\A z \in Objects : obj[z].holds => y = z) /\ terminated = FALSE
    BY <2>1, <1>HolderIdle, Zenon DEF ExecutorInv
  <2>3. /\ holder \in [status : {"FREE", "USED", "DEAD"}, cleanup : Words]
        /\ obj \in [Objects -> Executors]
    BY HolderTypes, Zenon DEF ExecutorInv
  <2>4. obj' \in [Objects -> Executors] /\ obj'[x].holds /\ \A z \in Objects : obj'[z].holds => x = z
    BY <2>1, <2>2, <2>3, EmptyIs
  <2>5. call' \notin Executes /\ call' \notin Cleanups
    BY <2>1, CallIs, Zenon
  <2>6. HolderInv'
    BY <2>1, <2>2, <2>3, <2>4, <2>5, HolderIdleNext, Zenon
  <2>7. LinkInv' /\ MadeInv' /\ CallInv' /\ DoneInv'
    BY <2>1, <1>OwnerActs, Zenon
  <2> QED
    BY <2>6, <2>7, Zenon DEF ExecutorInv

<1>ReplaceInv.
    ASSUME ExecutorInv, replace_conn
    PROVE  ExecutorInv'
  <2> USE <1>ReplaceInv
  <2>1. /\ call = NoCall /\ call' = NoCall /\ holder.status = "DEAD" /\ conn' = Fresh(1) /\ server' = FreshServer
        /\ made' = made /\ issued' = issued /\ holder' = [holder EXCEPT !.status = "FREE"]
        /\ obj' = obj /\ terminated' = terminated
    BY DEF replace_conn, chainVars
  <2>2. (\A z \in Objects : ~obj[z].holds) /\ terminated = FALSE
    <3>1. holder.status # "USED"
      BY <2>1
    <3> QED
      BY <2>1, <3>1, <1>HolderIdle, Zenon DEF ExecutorInv
  <2>3. /\ holder \in [status : {"FREE", "USED", "DEAD"}, cleanup : Words]
        /\ obj \in [Objects -> Executors]
    BY HolderTypes, Zenon DEF ExecutorInv
  <2>4. holder' \in [status : {"FREE", "USED", "DEAD"}, cleanup : Words] /\ holder'.status = "FREE"
        /\ "FREE" # "USED"
    BY <2>1, <2>3
  <2>5. conn'.status = "OK"
    BY <2>1, FreshIs
  <2>6. call' \notin Executes /\ call' \notin Cleanups
    BY <2>1, CallIs, Zenon
  <2>7. HolderInv'
    BY <2>1, <2>2, <2>3, <2>4, <2>5, <2>6, HolderIdleNext, Zenon
  <2>8. LinkInv' /\ MadeInv' /\ CallInv' /\ DoneInv'
    BY <2>1, <1>OwnerActs
  <2> QED
    BY <2>7, <2>8, Zenon DEF ExecutorInv

<1>NativeResetInv.
    ASSUME ExecutorInv, NEW x \in Objects, NativeReset(x)
    PROVE  ExecutorInv'
  <2> USE <1>NativeResetInv
  <2>1. /\ call = NoCall /\ call' = NoCall /\ obj[x].holds /\ server' = FreshServer
        /\ made' = made /\ issued' = issued /\ holder' = holder
        /\ obj' = [obj EXCEPT ![x].watching = FALSE] /\ terminated' = terminated
    BY DEF NativeReset, chainVars
  <2>2. PICK fd \in {1, 2} : conn' = Fresh(fd)
    BY DEF NativeReset
  <2>3. /\ holder.status = "USED" /\ (\A y, z \in Objects : obj[y].holds /\ obj[z].holds => y = z)
        /\ terminated = FALSE
    BY <2>1, <1>HolderIdle, Zenon DEF ExecutorInv
  <2>4. /\ holder \in [status : {"FREE", "USED", "DEAD"}, cleanup : Words]
        /\ obj \in [Objects -> Executors]
    BY HolderTypes, Zenon DEF ExecutorInv
  <2>5. obj' \in [Objects -> Executors] /\ \A z \in Objects : obj'[z].holds = obj[z].holds
    BY <2>1, <2>4, Zenon DEF Executors
  <2>6. call' \notin Executes /\ call' \notin Cleanups
    BY <2>1, CallIs, Zenon
  <2>7. HolderInv'
    <3>1. holder'.status = "USED" /\ "USED" # "FREE"
      BY <2>1, <2>3
    <3>2. (\E z \in Objects : obj'[z].holds) /\ \A y, z \in Objects : obj'[y].holds /\ obj'[z].holds => y = z
      BY <2>1, <2>3, <2>5, Zenon
    <3> QED
      BY <2>1, <2>3, <2>4, <2>5, <2>6, <3>1, <3>2, HolderIdleNext, Zenon
  <2>8. LinkInv' /\ MadeInv' /\ CallInv' /\ DoneInv'
    BY <2>1, <2>2, <1>OwnerActs, Zenon
  <2> QED
    BY <2>7, <2>8, Zenon DEF ExecutorInv

<1> QED
  BY <1>ConstructInv, <1>DoCleanupInv, <1>DestroyInv, <1>MoveAssignInv, <1>MoveInv,
     <1>ReplaceInv, <1>NativeResetInv, Zenon

-----------------------------------------------------------------------------
(* The beginning of a call *)

(* A call is issued and gets its query on its way, or fails before that. *)
LEMMA StartInv ==
    /\ ExecutorInv
    /\ \/ \E x \in Objects, q \in DOMAIN Queries, why \in {"and_then", "or_else"} : execute(x, q, why)
       \/ WrongProvider \/ SyncStart \/ AsyncStart \/ WaitFails
    => ExecutorInv'
<1>AsyncSendLink.
    ASSUME LinkInv, conn.async = "idle", NEW t \in InFlight, server' = server,
           conn' = [conn EXCEPT !.async = "busy", !.unsent = t], call' \in Calls
    PROVE  /\ LinkInv' /\ Input' = <<>> /\ conn'.unsent = t /\ server'.todo = Nil
           /\ conn'.status = conn.status
  <2> USE <1>AsyncSendLink
  <2>1. /\ conn \in Links /\ server \in Servers
        /\ Input = <<>> /\ server.todo = Nil
    BY Zenon DEF LinkInv, Shape
  <2>2. /\ conn' \in Links /\ conn'.async = "busy" /\ conn'.unsent = t /\ conn'.inbuf = conn.inbuf
        /\ conn'.status = conn.status
    BY <2>1, Zenon DEF Links
  <2>3. Input' = <<>>
    BY <2>1, <2>2, Zenon DEF Input
  <2>4. Shape("busy", t, server.up, Nil, <<>>)
    <3>1. server.up \in BOOLEAN
      BY <2>1, Zenon DEF Servers
    <3> QED
      BY <3>1, ShapeEmpty, Zenon
  <2> QED
    BY <2>1, <2>2, <2>3, <2>4, Zenon DEF LinkInv

<1>SeqAppend.
    ASSUME NEW s, IsSeq(s), NEW e
    PROVE  /\ IsSeq(Append(s, e)) /\ Len(Append(s, e)) = Len(s) + 1 /\ Append(s, e)[Len(s) + 1] = e
           /\ \A i \in 1 .. Len(s) : Append(s, e)[i] = s[i]
  <2> USE <1>SeqAppend
  <2>1. Len(s) \in Nat /\ DOMAIN s = 1 .. Len(s)
    BY SeqIs, Zenon
  <2> DEFINE S == {s[i] : i \in DOMAIN s} \cup {e}
             s2 == Append(s, e)
  <2>2. s \in Seq(S) /\ e \in S
    <3>1. s \in [1 .. Len(s) -> {s[i] : i \in DOMAIN s}]
      BY SeqIsFunction, Zenon DEF IsSeq
    <3>2. s \in [1 .. Len(s) -> S]
      BY <3>1, Zenon
    <3> QED
      BY <2>1, <3>2, FunctionIsSeq, Zenon
  <2> HIDE DEF S
  <2>3. /\ s2 \in Seq(S) /\ Len(s2) = Len(s) + 1 /\ s2[Len(s) + 1] = e
        /\ \A i \in 1 .. Len(s) : s2[i] = s[i]
    BY <2>2
  <2>4. s2 = [i \in 1 .. Len(s) + 1 |-> s2[i]] /\ Len(s) + 1 \in Nat
    <3>1. s2 \in [1 .. Len(s2) -> S]
      BY <2>3, SeqIsFunction, Zenon
    <3>2. s2 = [i \in DOMAIN s2 |-> s2[i]]
      BY <3>1, Zenon
    <3>3. DOMAIN s2 = 1 .. Len(s2)
      BY <2>3, SeqHas, Zenon
    <3>4. Len(s) + 1 \in Nat
      BY <2>1
    <3> QED
      BY <2>3, <3>2, <3>3, <3>4, Zenon
  <2>5. IsSeq(s2)
    BY <2>4, SeqBy, Zenon
  <2> QED
    BY <2>3, <2>5, Zenon

(* A call is issued. *)
<1>ExecuteIssued.
    ASSUME IssuedType, NEW q \in DOMAIN Queries, NEW sync,
           issued' = Append(issued, [q |-> q, sync |-> sync, out |-> Pending])
    PROVE  /\ IssuedType' /\ Len(issued') = Len(issued) + 1 /\ Len(issued) \in Nat
           /\ \A n \in 1 .. Len(issued) : issued'[n] = issued[n] /\ Texts'[n] = Texts[n]
           /\ issued'[Len(issued) + 1] = [q |-> q, sync |-> sync, out |-> Pending]
           /\ Texts'[Len(issued) + 1] = Queries[q].stmts
  <2> USE <1>ExecuteIssued
  <2>1. PICK s, e, l : s = issued /\ e = [q |-> q, sync |-> sync, out |-> Pending] /\ l = Len(issued)
    BY Zenon
  <2>2. IsSeq(s) /\ l \in Nat /\ l = Len(s) /\ \A n \in 1 .. l : Texts[n] = Queries[s[n].q].stmts
    BY <2>1, TextsIs, Zenon DEF IssuedType
  <2>3. /\ IsSeq(Append(s, e)) /\ Len(Append(s, e)) = Len(s) + 1 /\ Append(s, e)[Len(s) + 1] = e
        /\ \A i \in 1 .. Len(s) : Append(s, e)[i] = s[i]
    BY <2>2, <1>SeqAppend
  <2>4. /\ IsSeq(issued') /\ Len(issued') = l + 1 /\ issued'[l + 1] = e
        /\ \A n \in 1 .. l : issued'[n] = s[n]
    BY <2>1, <2>2, <2>3, Zenon
  <2>5. e.q = q /\ e = [q |-> e.q, sync |-> e.sync, out |-> e.out]
    BY <2>1
  <2>6. \A n \in 1 .. l + 1 : n = l + 1 \/ n \in 1 .. l
    BY <2>2
  <2>7. \A n \in 1 .. l : s[n] = [q |-> s[n].q, sync |-> s[n].sync, out |-> s[n].out] /\ s[n].q \in DOMAIN Queries
    BY <2>1, Zenon DEF IssuedType
  <2>8. IssuedType'
    BY <2>4, <2>5, <2>6, <2>7, Zenon DEF IssuedType
  <2>9. \A n \in 1 .. l + 1 : Texts'[n] = Queries[issued'[n].q].stmts
    <3>1. DOMAIN issued' = 1 .. l + 1
      BY <2>4, SeqIs, Zenon
    <3> QED
      BY <3>1, Zenon DEF Texts
  <2>10. l + 1 \in 1 .. l + 1 /\ 1 .. l \subseteq 1 .. l + 1
    BY <2>2
  <2>11. /\ \A n \in 1 .. l : Texts'[n] = Texts[n]
         /\ Texts'[l + 1] = Queries[q].stmts
    <3>1. \A n \in 1 .. l : Texts'[n] = Texts[n]
      <4> SUFFICES ASSUME NEW n \in 1 .. l PROVE Texts'[n] = Texts[n]
        BY Zenon
      <4>1. n \in 1 .. l + 1
        BY <2>10, Zenon
      <4>2. Texts'[n] = Queries[issued'[n].q].stmts
        BY <2>9, <4>1, Zenon
      <4>3. issued'[n] = s[n] /\ Texts[n] = Queries[s[n].q].stmts
        BY <2>2, <2>4, Zenon
      <4> QED
        BY <4>2, <4>3, Zenon
    <3>2. issued'[l + 1].q = q
      BY <2>4, <2>5
    <3> QED
      BY <2>9, <2>10, <3>1, <3>2, Zenon
  <2> QED
    BY <2>1, <2>2, <2>4, <2>8, <2>11, Zenon

<1>NumberedGrows.
    ASSUME NEW mk, NEW len \in Nat, NEW texts, NEW todo, todo \in InFlight \cup {Nil},
           NEW unsent, unsent \in InFlight \cup {Nil}, Numbered(mk, len, texts, todo, unsent),
           NEW texts2, \A n \in 1 .. len : texts2[n] = texts[n]
    PROVE  /\ Numbered(mk, len + 1, texts2, todo, unsent)
           /\ NotSent(len + 1, mk, todo, unsent)
  <2> USE <1>NumberedGrows
  <2>1. ASSUME NEW t \in InFlight \cup {Nil}, Known(t, len, texts)
        PROVE  Known(t, len + 1, texts2) /\ t.serial # len + 1
    <3>1. CASE t = Nil
      <4>1. t.serial = 0
        BY <3>1, FlightIs, Zenon
      <4>2. 0 # len + 1
        OBVIOUS
      <4> QED
        BY <3>1, <4>1, <4>2, Zenon DEF Known
    <3>2. CASE t # Nil
      <4>1. t.serial \in Nat
        BY <2>1, <3>2 DEF InFlight
      <4>2. t.serial <= len /\ (t.serial # 0 => t.stmts = texts[t.serial]) /\ t.next \in 1 .. Len(t.stmts) + 1
        BY <2>1, <3>2, Zenon DEF Known
      <4>3. t.serial <= len + 1 /\ t.serial # len + 1 /\ (t.serial # 0 => t.serial \in 1 .. len)
        BY <4>1, <4>2
      <4> QED
        BY <4>2, <4>3, Zenon DEF Known
    <3> QED
      BY <3>1, <3>2, Zenon
  <2>2. \A n \in 1 .. len : n \in 1 .. len + 1 /\ n # len + 1
    OBVIOUS
  <2>3. Known(todo, len + 1, texts2) /\ Known(unsent, len + 1, texts2)
        /\ todo.serial # len + 1 /\ unsent.serial # len + 1
    <3>1. Known(todo, len, texts) /\ Known(unsent, len, texts)
      BY Zenon DEF Numbered
    <3> QED
      BY <2>1, <3>1, Zenon
  <2>4. Own(mk, len + 1) = {}
    BY <2>2, Zenon DEF Own, Numbered
  <2>5. Numbered(mk, len + 1, texts2, todo, unsent)
    BY <2>2, <2>3, Zenon DEF Numbered
  <2> QED
    BY <2>3, <2>4, <2>5, Zenon DEF NotSent

<1>ExecuteInv.
    ASSUME ExecutorInv, NEW x \in Objects, NEW q \in DOMAIN Queries, NEW why \in {"and_then", "or_else"},
           execute(x, q, why)
    PROVE  ExecutorInv'
  <2> USE <1>ExecuteInv
  <2>1. /\ call = NoCall /\ UNCHANGED <<conn, server>> /\ conn' = conn /\ server' = server /\ made' = made
        /\ UNCHANGED ownVars
        /\ issued' = Append(issued, [q |-> q, sync |-> x \in SyncObjects, out |-> Pending])
        /\ call' = [pc |-> "start", kind |-> "execute", x |-> x, stmts |-> Queries[q].stmts,
                    serial |-> Len(issued) + 1, why |-> why, result |-> Null]
    BY DEF execute, linkVars
  <2>2. /\ IssuedType' /\ Len(issued') = Len(issued) + 1 /\ Len(issued) \in Nat
        /\ \A n \in 1 .. Len(issued) : issued'[n] = issued[n] /\ Texts'[n] = Texts[n]
        /\ issued'[Len(issued) + 1] = [q |-> q, sync |-> x \in SyncObjects, out |-> Pending]
        /\ Texts'[Len(issued) + 1] = Queries[q].stmts
    BY <2>1, <1>ExecuteIssued, Zenon DEF ExecutorInv, MadeInv
  <2>3. PICK l : l = Len(issued) /\ l \in Nat
    BY <2>2, Zenon
  <2>4. Queries[q].stmts \in Seq(Words)
    <3>1. PICK s : s = Queries[q].stmts /\ s \in Seq(STRING)
      BY QueriesAssumption, Zenon
    <3>2. s \in [1 .. Len(s) -> STRING] /\ Len(s) \in Nat
      BY <3>1, SeqIsFunction, Zenon
    <3>3. s \in [1 .. Len(s) -> Words]
      BY <3>2, Zenon DEF Words
    <3>4. s \in Seq(Words)
      BY <3>2, <3>3, FunctionIsSeq, Zenon
    <3> QED
      BY <3>1, <3>4, Zenon
  <2>5. /\ call' \in Executes /\ call'.pc = "start" /\ call'.x = x /\ call'.stmts = Queries[q].stmts
        /\ call'.serial = l + 1 /\ call'.result = Null
    <3>1. l + 1 \in Nat \ {0}
      BY <2>3
    <3> QED
      BY <2>1, <2>3, <2>4, <3>1, Zenon DEF Executes
  <2>6. call' \in Calls /\ call' \notin Cleanups /\ call \notin Cleanups
    BY <2>1, <2>5, CallIs, Zenon DEF Calls
  <2>7. LinkInv'
    BY <2>1, <2>6, LinkSame, Zenon DEF ExecutorInv
  <2>8. HolderInv'
    <3>1. conn'.status = conn.status
      BY <2>1, Zenon
    <3> QED
      BY <2>1, <2>5, <2>6, <3>1, HolderSame, Zenon DEF ExecutorInv
  <2>9. Numbered(made, l + 1, Texts', server.todo, conn.unsent) /\ NotSent(l + 1, made, server.todo, conn.unsent)
    <3>1. server.todo \in InFlight \cup {Nil} /\ conn.unsent \in InFlight \cup {Nil}
      BY DEF ExecutorInv, LinkInv, Links, Servers
    <3>2. Numbered(made, l, Texts, server.todo, conn.unsent)
      BY <2>3, Zenon DEF ExecutorInv, MadeInv
    <3>3. PICK t, u, tx, tx2 : t = server.todo /\ u = conn.unsent /\ tx = Texts /\ tx2 = Texts'
      BY Zenon
    <3>4. \A n \in 1 .. l : tx2[n] = tx[n]
      BY <2>2, <2>3, <3>3, Zenon
    <3>5. t \in InFlight \cup {Nil} /\ u \in InFlight \cup {Nil} /\ Numbered(made, l, tx, t, u)
      BY <3>1, <3>2, <3>3, Zenon
    <3>6. Numbered(made, l + 1, tx2, t, u) /\ NotSent(l + 1, made, t, u)
      BY <2>3, <3>4, <3>5, <1>NumberedGrows, Zenon
    <3> QED
      BY <3>3, <3>6, Zenon
  <2>10. MadeInv'
    BY <2>1, <2>2, <2>3, <2>9, Zenon DEF MadeInv
  <2>11. DoneInv'
    <3>1. \A n \in 1 .. l + 1 : n \in 1 .. l \/ n = l + 1
      BY <2>3
    <3>2. issued'[l + 1].out = Pending
      BY <2>2, <2>3
    <3>3. Len(issued') = l + 1
      BY <2>2, <2>3, Zenon
    <3> QED
      BY <2>1, <2>2, <2>3, <3>1, <3>2, <3>3, Zenon DEF ExecutorInv, DoneInv
  <2>12. CallInv'
    <3>1. issued'[l + 1].out = Pending /\ issued'[l + 1].sync = (x \in SyncObjects)
      <4>1. issued'[l + 1] = [q |-> q, sync |-> x \in SyncObjects, out |-> Pending]
        BY <2>2, <2>3, Zenon
      <4>2. [q |-> q, sync |-> x \in SyncObjects, out |-> Pending].sync = (x \in SyncObjects)
        OBVIOUS
      <4>3. issued'[l + 1].sync = (x \in SyncObjects)
        BY <4>1, <4>2
      <4>4. issued'[l + 1].out = Pending
        BY <4>1
      <4> QED
        BY <4>3, <4>4
    <3>2. "start" \notin Reading /\ "start" \in BeforeSend
      BY DEF Reading, BeforeSend
    <3> QED
      BY <2>1, <2>2, <2>3, <2>5, <2>9, <3>1, <3>2, Zenon DEF CallInv
  <2> QED
    BY <2>7, <2>8, <2>10, <2>11, <2>12, Zenon DEF ExecutorInv

(* The call returns and the connection is left as it is. *)
<1>ReturnsIdle.
    ASSUME ExecutorInv, call \in Executes, NEW out, Returns(call, out), UNCHANGED linkVars, UNCHANGED ownVars,
           Answers(out, server.todo, conn.unsent)
    PROVE  ExecutorInv'
  <2> USE <1>ReturnsIdle
  <2>1. call' = NoCall /\ conn' = conn /\ server' = server /\ made' = made
    BY DEF Returns, linkVars
  <2>2. call' \in Calls /\ call' \notin Executes /\ call' \notin Cleanups /\ call \notin Cleanups
    BY <2>1, CallIs, Zenon
  <2>3. LinkInv'
    BY <2>1, <2>2, LinkSame, Zenon DEF ExecutorInv
  <2>4. HolderInv'
    <3>1. conn'.status = conn.status
      BY <2>1, Zenon
    <3> QED
      BY <2>2, <3>1, HolderSame, Zenon DEF ExecutorInv
  <2>5. MadeInv' /\ CallInv' /\ DoneInv'
    <3>1. server'.todo = server.todo /\ conn'.unsent = conn.unsent
      BY <2>1, Zenon
    <3>2. server'.todo \in {server.todo, conn.unsent, Nil} /\ conn'.unsent \in {conn.unsent, Nil}
      BY <3>1, Zenon
    <3>3. Settled(call.serial, out, call.x \in SyncObjects, Own(made, call.serial), Len(call.stmts),
                  server'.todo, conn'.unsent)
      BY <3>1, Zenon DEF Answers
    <3> QED
      BY <2>1, <3>2, <3>3, ReturnsInv, Zenon DEF ExecutorInv
  <2> QED
    BY <2>3, <2>4, <2>5, Zenon DEF ExecutorInv

(* Before the query is sent any error without a SQLSTATE will do. *)
<1>FailsEarly.
    ASSUME ExecutorInv, call \in Executes, call.pc \in BeforeSend, NEW c, Fail(call, ErrorContext(c, NoSqlstate)),
           UNCHANGED linkVars, UNCHANGED ownVars
    PROVE  ExecutorInv'
  <2> USE <1>FailsEarly
  <2>1. NotSent(call.serial, made, server.todo, conn.unsent)
    BY NowDynamic, Zenon DEF ExecutorInv, Dynamic
  <2>2. PICK n, t, u, sy, l, o : /\ n = call.serial /\ t = server.todo /\ u = conn.unsent
                                 /\ sy = (call.x \in SyncObjects) /\ l = Len(call.stmts)
                                 /\ o = failure(Errors, ErrorContext(c, NoSqlstate))
    BY Zenon
  <2>3. NotSent(n, made, t, u)
    BY <2>1, <2>2, Zenon
  <2>4. Settled(n, failure(Errors, ErrorContext(c, NoSqlstate)), sy, Own(made, n), l, t, u)
    BY <2>3, NotSentSettles, Zenon
  <2>5. Answers(o, server.todo, conn.unsent) /\ Returns(call, o)
    BY <2>2, <2>4, Zenon DEF Answers, Fail
  <2> QED
    BY <2>5, <1>ReturnsIdle, Zenon

<1>StartIs.
    ASSUME ExecutorInv, call.pc = "start"
    PROVE  call \in Executes /\ call.pc \in BeforeSend /\ call.x \in Objects /\ call \notin Cleanups
           /\ call.result = Null
  <2> USE <1>StartIs
  <2>1. call \in Executes
    BY PlaceOf DEF ExecutorInv, LinkInv
  <2>2. call.result = Null
    BY <2>1, Zenon DEF ExecutorInv, CallInv
  <2> QED
    BY <2>1, <2>2, SerialIs DEF BeforeSend

<1>WrongProviderInv.
    ASSUME ExecutorInv, WrongProvider
    PROVE  ExecutorInv'
  <2> USE <1>WrongProviderInv
  <2>1. call \in Executes /\ call.pc \in BeforeSend
    BY <1>StartIs, Zenon DEF WrongProvider
  <2>2. PICK c : c = Client("SyntaxError")
    BY Zenon
  <2>3. Fail(call, ErrorContext(c, NoSqlstate)) /\ UNCHANGED linkVars /\ UNCHANGED ownVars
    BY <2>2, Zenon DEF WrongProvider
  <2> QED
    BY <2>1, <2>3, <1>FailsEarly, Zenon

(* A call gets past its start only on a connection that its executor holds. *)
<1>Connected.
    ASSUME ExecutorInv, NEW x \in Objects, is_success_code(check_connection(Status(x)))
    PROVE  obj[x].holds /\ conn.status = "OK"
  <2> USE <1>Connected
  <2>1. conn.status = "OK" \/ conn.status = "BAD"
    BY DEF ExecutorInv, LinkInv, Links
  <2> QED
    BY <2>1, ConnectionCodes, Zenon DEF Status

<1>SyncStartInv.
    ASSUME ExecutorInv, SyncStart
    PROVE  ExecutorInv'
  <2> USE <1>SyncStartInv
  <2>1. /\ call \in Executes /\ call.pc \in BeforeSend /\ call.x \in Objects /\ call \notin Cleanups
        /\ call.result = Null /\ call.x \in SyncObjects /\ call.pc = "start"
    BY <1>StartIs, Zenon DEF SyncStart, AtStart
  <2>2. UNCHANGED linkVars /\ UNCHANGED ownVars
    BY Zenon DEF SyncStart
  <2>3. PICK c : c = check_connection(Status(call.x))
    BY Zenon
  <2>4. CASE ~is_success_code(c)
    <3>1. Fail(call, ErrorContext(c, NoSqlstate))
      BY <2>3, <2>4, Zenon DEF SyncStart
    <3> QED
      BY <2>1, <2>2, <3>1, <1>FailsEarly, Zenon
  <2>5. CASE is_success_code(c)
    <3>1. call' = [call EXCEPT !.pc = "discard"] /\ UNCHANGED chainVars
      BY <2>3, <2>5, Zenon DEF SyncStart
    <3>2. obj[call.x].holds
      BY <2>1, <2>3, <2>5, <1>Connected, Zenon
    <3>3. "discard" \in Places /\ "discard" \in BeforeSend /\ "discard" \notin Reading
      BY DEF Places, BeforeSend, Reading
    <3>4. /\ call' \in Executes /\ call'.pc = "discard" /\ call'.serial = call.serial /\ call'.stmts = call.stmts
          /\ call'.x = call.x /\ call'.result = call.result
      BY <2>1, <3>1, <3>3, CallMoves
    <3>5. call' \in Calls /\ call' \notin Cleanups
      BY <3>4, CallIs, Zenon DEF Calls
    <3>6. conn' = conn /\ server' = server /\ made' = made /\ issued' = issued
      BY <2>2, <3>1 DEF linkVars, chainVars
    <3>7. LinkInv'
      BY <3>5, <3>6, LinkSame, Zenon DEF ExecutorInv
    <3>8. HolderInv'
      <4>1. conn'.status = conn.status
        BY <3>6, Zenon
      <4> QED
        BY <2>1, <2>2, <3>2, <3>4, <3>5, <4>1, HolderSame, Zenon DEF ExecutorInv
    <3>9. MadeInv' /\ DoneInv'
      BY <3>6, FrameInv DEF ExecutorInv
    <3>10. CallInv'
      <4>1. NotSent(call.serial, made, server.todo, conn.unsent)
        BY <2>1, NowDynamic, Zenon DEF ExecutorInv, Dynamic
      <4>2. Dynamic(call)'
        BY <3>3, <3>4, <3>6, <4>1, Zenon DEF Dynamic
      <4>3. call'.pc \notin {"flush", "write", "read", "collect", "drain"}
        BY <3>4
      <4> QED
        BY <2>1, <3>4, <3>6, <4>2, <4>3, CallMoved, Zenon DEF ExecutorInv
    <3> QED
      BY <3>7, <3>8, <3>9, <3>10, Zenon DEF ExecutorInv
  <2> QED
    BY <2>4, <2>5, Zenon

<1>WaitFailsInv.
    ASSUME ExecutorInv, WaitFails
    PROVE  ExecutorInv'
  <2> USE <1>WaitFailsInv
  <2>1. call \in Executes
    BY PlaceOf DEF ExecutorInv, LinkInv, WaitFails
  <2>2. PICK o : o = failure(Errors, ErrorContext(Server("RuntimeError"), NoSqlstate))
    BY Zenon
  <2>3. Answers(o, server.todo, conn.unsent)
    BY <2>2, RuntimeErrorRetryable, RetryableSettles, Zenon DEF Answers
  <2>4. Returns(call, o) /\ UNCHANGED linkVars /\ UNCHANGED ownVars
    BY <2>2, Zenon DEF WaitFails, Fail
  <2> QED
    BY <2>1, <2>3, <2>4, <1>ReturnsIdle, Zenon

<1>ValidateIs.
    ASSUME NEW x
    PROVE  /\ validate_state(x) = NoError \/ \E c : validate_state(x) = ErrorContext(c, NoSqlstate)
           /\ validate_state(x) = NoError => is_success_code(check_connection(Status(x)))
  BY <1>ValidateIs, ConnectionErrors, Zenon DEF validate_state

<1>AsyncStartInv.
    ASSUME ExecutorInv, AsyncStart
    PROVE  ExecutorInv'
  <2> USE <1>AsyncStartInv
  <2>1. /\ call \in Executes /\ call.pc \in BeforeSend /\ call.x \in Objects /\ call \notin Cleanups
        /\ call.result = Null /\ call.x \in AsyncObjects /\ call.pc = "start"
    BY <1>StartIs, Zenon DEF AsyncStart, AtStart
  <2>2. UNCHANGED ownVars
    BY Zenon DEF AsyncStart
  <2>3. CASE validate_state(call.x) # NoError
    <3>1. PICK c : validate_state(call.x) = ErrorContext(c, NoSqlstate)
      BY <2>3, <1>ValidateIs, Zenon
    <3>2. Fail(call, ErrorContext(c, NoSqlstate)) /\ UNCHANGED linkVars
      BY <2>3, <3>1, Zenon DEF AsyncStart
    <3> QED
      BY <2>1, <2>2, <3>2, <1>FailsEarly, Zenon
  <2>4. CASE validate_state(call.x) = NoError /\ conn.async # "idle"
    <3>1. PICK c : extract_connection_error(conn.status) = ErrorContext(c, NoSqlstate)
      BY ConnectionErrors, Zenon
    <3>2. Fail(call, ErrorContext(c, NoSqlstate)) /\ UNCHANGED linkVars
      BY <2>4, <3>1, Zenon DEF AsyncStart
    <3> QED
      BY <2>1, <2>2, <3>2, <1>FailsEarly, Zenon
  <2>5. CASE validate_state(call.x) = NoError /\ conn.async = "idle"
    <3>1. AsyncSends
      BY <2>5, Zenon DEF AsyncStart
    <3>2. PICK t : t = Sent(call.serial, call.stmts)
      BY Zenon
    <3>3. t \in InFlight /\ NewQuery(t) /\ t.serial = call.serial /\ Own(made, call.serial) = {}
      BY <2>1, <3>2, SentIsNew, Zenon
    <3>4. /\ call' = [call EXCEPT !.pc = "flush"] /\ made' = made /\ issued' = issued /\ server' = server
          /\ conn' = [conn EXCEPT !.async = "busy", !.unsent = t]
      BY <3>1, <3>2 DEF AsyncSends, chainVars
    <3>5. obj[call.x].holds
      BY <2>1, <2>5, <1>ValidateIs, <1>Connected, Zenon
    <3>6. "flush" \in Places /\ "flush" \notin BeforeSend /\ "flush" # "start"
      BY DEF Places, BeforeSend
    <3>7. /\ call' \in Executes /\ call'.pc = "flush" /\ call'.serial = call.serial /\ call'.stmts = call.stmts
          /\ call'.x = call.x /\ call'.result = call.result
      BY <2>1, <3>4, <3>6, CallMoves
    <3>8. call' \in Calls /\ call' \notin Cleanups
      BY <3>7, CallIs, Zenon DEF Calls
    <3>9. /\ LinkInv' /\ Input' = <<>> /\ conn'.unsent = t /\ server'.todo = Nil /\ conn'.status = conn.status
      BY <2>5, <3>3, <3>4, <3>8, <1>AsyncSendLink, Zenon DEF ExecutorInv
    <3>10. HolderInv'
      BY <2>1, <2>2, <3>5, <3>7, <3>8, <3>9, HolderSame, Zenon DEF ExecutorInv
    <3>11. MadeInv' /\ DoneInv'
      BY <3>3, <3>4, <3>9, FrameInv DEF ExecutorInv
    <3>12. CallInv'
      <4>1. Current(call.serial, made, Nil, t, <<>>)
        BY <3>3, CurrentEnd, Zenon
      <4>2. Complete({}, Null, Len(call.stmts), server.up, <<>>)
        BY CompleteEmpty, Zenon
      <4>3. Dynamic(call)'
        BY <2>1, <3>3, <3>4, <3>6, <3>7, <3>9, <4>1, <4>2, Zenon DEF Dynamic
      <4>4. call'.pc \notin {"discard", "exec"} /\ call'.pc \notin {"exec", "drain"}
        BY <3>7
      <4> QED
        BY <2>1, <3>4, <3>7, <4>3, <4>4, CallMoved, Zenon DEF ExecutorInv
    <3> QED
      BY <3>9, <3>10, <3>11, <3>12, Zenon DEF ExecutorInv
  <2> QED
    BY <2>3, <2>4, <2>5, Zenon

<1> QED
  BY <1>ExecuteInv, <1>WrongProviderInv, <1>SyncStartInv, <1>AsyncStartInv, <1>WaitFailsInv, Zenon

-----------------------------------------------------------------------------
(* The coroutine of the asynchronous executor *)

Waiting == {"flush", "write", "read", "collect"}

(* It flushes the query and waits for the socket. *)
LEMMA AsyncInv ==
    ExecutorInv /\ (async_flush \/ WriteReady \/ async_consume_until_ready) => ExecutorInv'
<1>BadLink.
    ASSUME LinkInv, conn' = [conn EXCEPT !.status = "BAD"], server' = server, call' \in Calls
    PROVE  LinkInv' /\ Input' = Input /\ conn'.unsent = conn.unsent
  <2> USE <1>BadLink
  <2>1. /\ conn' \in Links /\ conn'.async = conn.async /\ conn'.unsent = conn.unsent
        /\ conn'.inbuf = conn.inbuf
    BY Zenon DEF LinkInv, Links
  <2>2. Input' = Input
    BY <2>1, Zenon DEF Input
  <2> QED
    BY <2>1, <2>2, Zenon DEF LinkInv

<1>CutInTwo.
    ASSUME NEW S, NEW s \in Seq(S), NEW n \in 1 .. Len(s)
    PROVE  /\ SubSeq(s, 1, n) \in Seq(S) /\ SubSeq(s, n + 1, Len(s)) \in Seq(S)
           /\ SubSeq(s, 1, n) \o SubSeq(s, n + 1, Len(s)) = s
  <2> USE <1>CutInTwo
  <2> DEFINE a == SubSeq(s, 1, n)
             b == SubSeq(s, n + 1, Len(s))
  <2>1. PICK l : l = Len(s)
    BY Zenon
  <2>2. l \in Nat /\ n \in Nat /\ n \in 1 .. l /\ n \in 0 .. l /\ l \in 0 .. l /\ 1 \in Nat \ {0} /\ n + 1 \in Nat \ {0}
    BY <2>1
  <2>3. a \in Seq(S) /\ Len(a) = n /\ \A i \in 1 .. n : a[i] = s[i]
    <3>1. /\ a \in Seq(S) /\ Len(a) = IF 1 <= n THEN n - 1 + 1 ELSE 0
          /\ \A i \in 1 .. n - 1 + 1 : a[i] = s[1 + i - 1]
      BY <2>1, <2>2, SubSeqIs, ZenonT(40)
    <3> HIDE DEF a
    <3> QED
      BY <2>2, <3>1
  <2>4. b \in Seq(S) /\ Len(b) = l - n /\ \A i \in 1 .. l - n : b[i] = s[n + i]
    <3>1. /\ b \in Seq(S) /\ Len(b) = IF n + 1 <= l THEN l - (n + 1) + 1 ELSE 0
          /\ \A i \in 1 .. l - (n + 1) + 1 : b[i] = s[(n + 1) + i - 1]
      BY <2>1, <2>2, SubSeqIs, ZenonT(40)
    <3> HIDE DEF b
    <3> QED
      BY <2>2, <3>1
  <2> HIDE DEF a, b
  <2>5. a \o b = s
    <3>1. PICK c : c = a \o b
      BY Zenon
    <3>2. /\ c \in Seq(S) /\ Len(c) = Len(a) + Len(b)
          /\ \A i \in 1 .. Len(a) + Len(b) : c[i] = IF i <= Len(a) THEN a[i] ELSE b[i - Len(a)]
      <4>1. a \in Seq(S) /\ b \in Seq(S)
        BY <2>3, <2>4, Zenon
      <4>2. /\ a \o b \in Seq(S) /\ Len(a \o b) = Len(a) + Len(b)
            /\ \A i \in 1 .. Len(a) + Len(b) : (a \o b)[i] = IF i <= Len(a) THEN a[i] ELSE b[i - Len(a)]
        BY <4>1, ConcatIs, Zenon
      <4> QED
        BY <3>1, <4>2, Zenon
    <3>3. n + (l - n) = l
      BY <2>2
    <3>4. Len(c) = l /\ \A i \in 1 .. l : c[i] = IF i <= n THEN a[i] ELSE b[i - n]
      BY <2>3, <2>4, <3>2, <3>3, Zenon
    <3>5. ASSUME NEW i \in 1 .. l PROVE c[i] = s[i]
      <4>1. CASE i <= n
        <5>1. i \in 1 .. n
          BY <2>2, <4>1
        <5> QED
          BY <2>3, <3>4, <4>1, <5>1, Zenon
      <4>2. CASE ~ (i <= n)
        <5>1. i - n \in 1 .. l - n /\ n + (i - n) = i
          BY <2>2, <4>2
        <5>2. b[i - n] = s[n + (i - n)]
          BY <2>4, <5>1, Zenon
        <5> QED
          BY <3>4, <4>2, <5>1, <5>2, Zenon
      <4> QED
        BY <4>1, <4>2, Zenon
    <3>6. c = s
      BY <2>1, <3>2, <3>4, <3>5
    <3> QED
      BY <3>1, <3>6, Zenon
  <2> QED
    BY <2>3, <2>4, <2>5, Zenon DEF a, b

(* Input moves from the wire to libpq's buffer. *)
<1>ConsumeLink.
    ASSUME LinkInv, NEW n \in DOMAIN server.wire, call' \in Calls,
           conn' = [conn EXCEPT !.inbuf = @ \o SubSeq(server.wire, 1, n)],
           server' = [server EXCEPT !.wire = SubSeq(@, n + 1, Len(@))]
    PROVE  /\ LinkInv' /\ Input' = Input /\ conn'.unsent = conn.unsent /\ server'.todo = server.todo
           /\ conn'.status = conn.status /\ server'.up = server.up
  <2> USE <1>ConsumeLink
  <2>1. conn \in Links /\ server \in Servers
    BY Zenon DEF LinkInv
  <2>2. PICK a, b, c, d : a = conn.inbuf /\ b = server.wire /\ c = SubSeq(b, 1, n) /\ d = SubSeq(b, n + 1, Len(b))
    BY Zenon
  <2>3. a \in Seq(Messages) /\ b \in Seq(Messages)
    BY <2>1, <2>2, InputIs, Zenon
  <2>4. n \in 1 .. Len(b) /\ Len(b) \in Nat
    BY <2>2, <2>3, SeqHas, Zenon
  <2>5. c \in Seq(Messages) /\ d \in Seq(Messages) /\ c \o d = b
    <3>1. /\ SubSeq(b, 1, n) \in Seq(Messages) /\ SubSeq(b, n + 1, Len(b)) \in Seq(Messages)
          /\ SubSeq(b, 1, n) \o SubSeq(b, n + 1, Len(b)) = b
      BY <2>3, <2>4, <1>CutInTwo, Zenon
    <3> QED
      BY <2>2, <3>1, Zenon
  <2>6. a \o c \in Seq(Messages) /\ (a \o c) \o d = a \o b
    <3>1. c \in Seq(Messages) /\ d \in Seq(Messages)
      BY <2>5, Zenon
    <3>2. a \o c \in Seq(Messages)
      BY <2>3, <3>1
    <3>3. (a \o c) \o d = a \o (c \o d)
      BY <2>3, <3>1
    <3> QED
      BY <2>5, <3>2, <3>3, Zenon
  <2>7. conn' = [conn EXCEPT !.inbuf = a \o c] /\ server' = [server EXCEPT !.wire = d]
    BY <2>2, Zenon
  <2>8. /\ conn' \in Links /\ conn'.async = conn.async /\ conn'.unsent = conn.unsent
        /\ conn'.inbuf = a \o c /\ conn'.status = conn.status
    BY <2>1, <2>6, <2>7, Zenon DEF Links
  <2>9. server' \in Servers /\ server'.up = server.up /\ server'.todo = server.todo /\ server'.wire = d
    BY <2>1, <2>5, <2>7, Zenon DEF Servers
  <2>10. Input' = Input
    BY <2>2, <2>6, <2>8, <2>9, Zenon DEF Input
  <2> QED
    BY <2>8, <2>9, <2>10, Zenon DEF LinkInv

(* The call goes on; at most its query moved on towards the server. *)
<1>AsyncMoves.
    ASSUME ExecutorInv, call \in Executes, call.pc \in Waiting, NEW p \in Waiting, call' = [call EXCEPT !.pc = p],
           made' = made, issued' = issued, UNCHANGED ownVars, LinkInv', Input' = Input, server'.up = server.up,
           server'.todo \in {server.todo, conn.unsent, Nil}, conn'.unsent \in {conn.unsent, Nil}
    PROVE  ExecutorInv'
  <2> USE <1>AsyncMoves
  <2>1. /\ p \in Places /\ p \notin BeforeSend /\ p \in Reading /\ p # "drain" /\ p # "start" /\ p # "exec"
        /\ p # "discard" /\ call.pc # "start" /\ call.pc \notin BeforeSend /\ call.pc \in Reading
        /\ p \in {"flush", "write", "read", "collect", "drain"}
        /\ call.pc \in {"flush", "write", "read", "collect", "drain"} /\ call.pc \notin {"exec", "drain"}
    BY DEF Waiting, Places, BeforeSend, Reading
  <2>2. /\ call' \in Executes /\ call'.pc = p /\ call'.serial = call.serial /\ call'.stmts = call.stmts
        /\ call'.x = call.x /\ call'.result = call.result
    BY <2>1, CallMoves
  <2>3. call' \notin Cleanups
    BY <2>2, CallIs, Zenon
  <2>4. HolderInv'
    BY <2>1, <2>2, <2>3, HolderBusy, Zenon DEF ExecutorInv
  <2>5. MadeInv' /\ DoneInv'
    BY FrameInv, Zenon DEF ExecutorInv
  <2>6. CallInv'
    <3>1. /\ Current(call.serial, made, server.todo, conn.unsent, Input)
          /\ Complete(Own(made, call.serial), call.result, Len(call.stmts), server.up, Input)
      BY <2>1, NowDynamic, Zenon DEF ExecutorInv, Dynamic
    <3>2. Current(call.serial, made, server'.todo, conn'.unsent, Input)
      BY <3>1, CurrentAny, Zenon
    <3>3. Dynamic(call)'
      BY <2>1, <2>2, <3>1, <3>2 DEF Dynamic
    <3>4. call.result = Null /\ call.x \in AsyncObjects
      BY <2>1, Zenon DEF ExecutorInv, CallInv
    <3> QED
      BY <2>1, <2>2, <3>3, <3>4, CallMoved, Zenon DEF ExecutorInv
  <2> QED
    BY <2>4, <2>5, <2>6, Zenon DEF ExecutorInv

(* The connection turns out broken, and the call returns a retryable error. *)
<1>BreaksInv.
    ASSUME ExecutorInv, call \in Executes, call.pc # "start", conn' = [conn EXCEPT !.status = "BAD"], server' = server,
           made' = made, Fail(call, extract_connection_error("BAD")), UNCHANGED ownVars
    PROVE  ExecutorInv'
  <2> USE <1>BreaksInv
  <2>1. PICK o : o = failure(Errors, ErrorContext(Server("ConnectionLost"), NoSqlstate))
    BY Zenon
  <2>2. Returns(call, o) /\ call' = NoCall
    BY <2>1, ConnectionErrors, Zenon DEF Fail, Returns
  <2>3. call' \in Calls /\ call' \notin Cleanups /\ call' \notin Executes
    BY <2>2, CallIs, Zenon
  <2>4. LinkInv' /\ conn'.unsent = conn.unsent
    BY <2>3, <1>BadLink, Zenon DEF ExecutorInv
  <2>5. HolderInv'
    BY <2>3, HolderBusy, Zenon DEF ExecutorInv
  <2>6. Settled(call.serial, o, call.x \in SyncObjects, Own(made, call.serial), Len(call.stmts),
                server'.todo, conn'.unsent)
    BY <2>1, RuntimeErrorRetryable, RetryableSettles, Zenon
  <2>7. server'.todo \in {server.todo, conn.unsent, Nil} /\ conn'.unsent \in {conn.unsent, Nil}
    BY <2>4, Zenon
  <2>8. MadeInv' /\ CallInv' /\ DoneInv'
    BY <2>2, <2>6, <2>7, ReturnsInv, Zenon DEF ExecutorInv
  <2> QED
    BY <2>4, <2>5, <2>8, Zenon DEF ExecutorInv

<1>AsyncCallIs.
    ASSUME ExecutorInv, call.pc \in Waiting
    PROVE  /\ call \in Executes /\ call.pc # "start"
           /\ \A p \in Waiting : [call EXCEPT !.pc = p] \in Calls
  <2> USE <1>AsyncCallIs
  <2>1. call \in Executes
    BY PlaceOf DEF ExecutorInv, LinkInv, Waiting
  <2>2. call.pc # "start" /\ \A p \in Waiting : p \in Places
    BY DEF Waiting, Places
  <2>3. ASSUME NEW p \in Waiting PROVE [call EXCEPT !.pc = p] \in Calls
    <3>1. [call EXCEPT !.pc = p] \in Executes
      BY <2>1, <2>2, CallMoves
    <3> QED
      BY <3>1, Zenon DEF Calls
  <2> QED
    BY <2>1, <2>2, <2>3, Zenon

<1>AsyncFlushInv.
    ASSUME ExecutorInv, async_flush
    PROVE  ExecutorInv'
  <2> USE <1>AsyncFlushInv
  <2>0. call.pc \in Waiting /\ "read" \in Waiting /\ "write" \in Waiting
    BY DEF async_flush, Waiting
  <2>1. /\ call \in Executes /\ call.pc # "start" /\ \A p \in Waiting : [call EXCEPT !.pc = p] \in Calls
    BY <2>0, <1>AsyncCallIs, Zenon
  <2>2. made' = made /\ UNCHANGED ownVars
    BY Zenon DEF async_flush
  <2>3. CASE /\ server' = IF conn.unsent = Nil THEN server ELSE Deliver(conn.unsent)
             /\ conn' = [conn EXCEPT !.unsent = Nil]
             /\ call' = [call EXCEPT !.pc = "read"]
             /\ UNCHANGED chainVars
    <3>1. issued' = issued /\ call' \in Calls
      BY <2>0, <2>1, <2>3 DEF chainVars
    <3>2. /\ LinkInv' /\ Input' = Input /\ conn'.unsent = Nil /\ server'.todo \in {server.todo, conn.unsent, Nil}
          /\ server'.up = server.up
      <4>1. CASE conn.unsent = Nil
        <5>1. conn' = conn
          <6>1. conn \in Links
            BY DEF ExecutorInv, LinkInv
          <6> QED
            BY <2>3, <4>1, <6>1 DEF Links
        <5>2. server' = server
          BY <2>3, <4>1, Zenon
        <5>3. LinkInv' /\ Input' = Input
          BY <3>1, <5>1, <5>2, LinkSame, Zenon DEF ExecutorInv, Input
        <5> QED
          BY <4>1, <5>1, <5>2, <5>3, Zenon
      <4>2. CASE conn.unsent # Nil
        <5>1. server' = Deliver(conn.unsent)
          BY <2>3, <4>2, Zenon
        <5>2. /\ LinkInv' /\ Input' = Input /\ conn'.unsent = Nil /\ server'.todo \in {conn.unsent, Nil}
              /\ server'.up = server.up
          BY <2>3, <3>1, <4>2, <5>1, FlushLink, Zenon DEF ExecutorInv
        <5> QED
          BY <5>2, Zenon
      <4> QED
        BY <4>1, <4>2, Zenon
    <3>3. conn'.unsent \in {conn.unsent, Nil}
      BY <3>2, Zenon
    <3> QED
      BY <2>0, <2>1, <2>2, <2>3, <3>1, <3>2, <3>3, <1>AsyncMoves, Zenon
  <2>4. CASE call' = [call EXCEPT !.pc = "write"] /\ UNCHANGED <<conn, server>> /\ UNCHANGED chainVars
    <3>1. issued' = issued /\ call' \in Calls /\ conn' = conn /\ server' = server
      BY <2>0, <2>1, <2>4 DEF chainVars
    <3>2. LinkInv' /\ Input' = Input
      BY <3>1, LinkSame, Zenon DEF ExecutorInv, Input
    <3>3. /\ server'.todo \in {server.todo, conn.unsent, Nil} /\ conn'.unsent \in {conn.unsent, Nil}
          /\ server'.up = server.up
      BY <3>1, Zenon
    <3> QED
      BY <2>0, <2>1, <2>2, <2>4, <3>1, <3>2, <3>3, <1>AsyncMoves, Zenon
  <2>5. CASE conn' = [conn EXCEPT !.status = "BAD"] /\ Fail(call, extract_connection_error("BAD")) /\ UNCHANGED server
    BY <2>1, <2>2, <2>5, <1>BreaksInv, Zenon
  <2> QED
    BY <2>3, <2>4, <2>5, Zenon DEF async_flush

<1>WriteReadyInv.
    ASSUME ExecutorInv, WriteReady
    PROVE  ExecutorInv'
  <2> USE <1>WriteReadyInv
  <2>0. call.pc \in Waiting /\ "flush" \in Waiting
    BY DEF WriteReady, Waiting
  <2>1. /\ call \in Executes /\ \A p \in Waiting : [call EXCEPT !.pc = p] \in Calls
    BY <2>0, <1>AsyncCallIs, Zenon
  <2>2. /\ made' = made /\ UNCHANGED ownVars /\ issued' = issued /\ conn' = conn /\ server' = server
        /\ call' = [call EXCEPT !.pc = "flush"]
    BY DEF WriteReady, linkVars, chainVars
  <2>3. call' \in Calls
    BY <2>0, <2>1, <2>2, Zenon
  <2>4. LinkInv' /\ Input' = Input
    BY <2>2, <2>3, LinkSame, Zenon DEF ExecutorInv, Input
  <2>5. /\ server'.todo \in {server.todo, conn.unsent, Nil} /\ conn'.unsent \in {conn.unsent, Nil}
        /\ server'.up = server.up
    BY <2>2, Zenon
  <2> QED
    BY <2>0, <2>1, <2>2, <2>4, <2>5, <1>AsyncMoves, Zenon

<1>AsyncConsumeInv.
    ASSUME ExecutorInv, async_consume_until_ready
    PROVE  ExecutorInv'
  <2> USE <1>AsyncConsumeInv
  <2>0. call.pc \in Waiting /\ \A s : NextAfterRead(s) \in Waiting
    BY DEF async_consume_until_ready, Waiting, NextAfterRead
  <2>1. /\ call \in Executes /\ call.pc # "start" /\ \A p \in Waiting : [call EXCEPT !.pc = p] \in Calls
    BY <2>0, <1>AsyncCallIs, Zenon
  <2>2. made' = made /\ UNCHANGED ownVars
    BY DEF async_consume_until_ready
  <2>3. CASE server.wire = <<>>
    BY <2>1, <2>2, <2>3, <1>BreaksInv, Zenon DEF async_consume_until_ready
  <2>4. CASE server.wire # <<>>
    <3>1. PICK n \in DOMAIN server.wire :
                 /\ conn' = [conn EXCEPT !.inbuf = @ \o SubSeq(server.wire, 1, n)]
                 /\ server' = [server EXCEPT !.wire = SubSeq(@, n + 1, Len(@))]
                 /\ call' = [call EXCEPT !.pc = NextAfterRead(conn'.inbuf)]
                 /\ UNCHANGED chainVars
      BY <2>4, Zenon DEF async_consume_until_ready
    <3>2. PICK p \in Waiting : p = NextAfterRead(conn'.inbuf)
      BY <2>0, Zenon
    <3>3. call' = [call EXCEPT !.pc = p] /\ call' \in Calls /\ issued' = issued
      BY <2>1, <3>1, <3>2 DEF chainVars
    <3>4. /\ LinkInv' /\ Input' = Input /\ conn'.unsent = conn.unsent /\ server'.todo = server.todo
          /\ server'.up = server.up
      BY <3>1, <3>3, <1>ConsumeLink, Zenon DEF ExecutorInv
    <3>5. server'.todo \in {server.todo, conn.unsent, Nil} /\ conn'.unsent \in {conn.unsent, Nil}
      BY <3>4, Zenon
    <3> QED
      BY <2>0, <2>1, <2>2, <3>3, <3>4, <3>5, <1>AsyncMoves, Zenon
  <2> QED
    BY <2>3, <2>4, Zenon

<1> QED
  BY <1>AsyncFlushInv, <1>WriteReadyInv, <1>AsyncConsumeInv, Zenon

-----------------------------------------------------------------------------
(* What is read *)

IsRest(s, t, n) == Len(s) = Len(t) - n /\ \A i \in 1 .. Len(t) - n : s[i] = t[n + i]

LEMMA NullAndLost ==
    /\ Lost \in PgResults /\ Lost # Null /\ Null \notin PgResults
    /\ \A r \in PgResults : r # Null /\ r.status # "null"
<1>1. Lost \in PgResults
  BY DEF Lost, PgResults, Result
<1>2. \A r \in PgResults : r.status # "null"
  BY DEF PgResults
<1>3. Null.status = "null"
  BY DEF Null, Result
<1> QED
  BY <1>1, <1>2, <1>3

LEMMA MessageKinds ==
    ASSUME NEW m \in Messages
    PROVE  /\ m.k \in {"part", "ready", "result"}
           /\ m = Part <=> m.k = "part"
           /\ m = Ready <=> m.k = "ready"
           /\ m.k = "result" => m.r \in PgResults /\ m = ResultMsg(m.r)
<1>1. CASE m \in [k : {"part", "ready"}]
  <2>1. m = [k |-> m.k] /\ m.k \in {"part", "ready"}
    BY <1>1
  <2> QED
    BY <2>1 DEF Part, Ready
<1>2. CASE m \in [k : {"result"}, r : PgResults]
  <2>1. m = [k |-> "result", r |-> m.r] /\ m.r \in PgResults /\ m.k = "result"
    BY <1>2
  <2> QED
    BY <2>1 DEF Part, Ready, ResultMsg
<1> QED
  BY <1>1, <1>2 DEF Messages

(* Two ways a call of PQgetResult ends: it takes the first whole message,  *)
(* or there is none and never will be.                                     *)
Takes(n, r) ==
    /\ n \in 1 .. Len(Input)
    /\ \A m \in 1 .. n - 1 : Input[m] = Part
    /\ Input[n] # Part
    /\ r = IF Input[n] = Ready THEN Null ELSE Input[n].r
    /\ conn'.status = conn.status
    /\ conn'.async = IF r = Null THEN "idle" ELSE IF r.status = "COPY_IN" THEN "copy" ELSE "busy"
    /\ IsRest(Input', Input, n)

FindsEnd(r) ==
    /\ ~server.up
    /\ r = Lost
    /\ conn'.status = "BAD"
    /\ conn'.async = "busy"
    /\ Input' = <<Ready>>

-----------------------------------------------------------------------------
(* PQgetResult *)

(* What is left of s after n elements. *)
After(s, n) == SubSeq(s, n + 1, Len(s))

Behind(a, b, n) == IF n > Len(a) THEN After(b, n - Len(a)) ELSE b

(* What it returns, and that it keeps the connection in shape. *)
LEMMA PQgetResultIs ==
    \A r : PQgetResult(r) =>
        /\ conn \in Links /\ server \in Servers =>
               /\ conn' \in Links /\ server' \in Servers /\ made' = made
               /\ conn.async = "busy" /\ conn.unsent = Nil /\ conn'.unsent = Nil
               /\ server'.up = server.up /\ server'.todo = server.todo
               /\ r \in PgResults \cup {Null}
               /\ FindsEnd(r) \/ \E n : Takes(n, r)
        /\ LinkInv /\ call' \in Calls => LinkInv'
<1>SubSeqAll. \A S : \A s \in Seq(S) : SubSeq(s, 1, Len(s)) = s
  OBVIOUS

<1>RestOf.
    ASSUME NEW S, NEW s \in Seq(S), NEW m \in 1 .. Len(s) + 1, NEW t, t = SubSeq(s, m, Len(s))
    PROVE  /\ t \in Seq(S) /\ Len(t) = Len(s) - m + 1
           /\ \A i \in 1 .. Len(s) - m + 1 : t[i] = s[m + i - 1]
  <2> USE <1>RestOf
  <2>1. m \in Nat \ {0} /\ Len(s) \in Nat /\ Len(s) \in 0 .. Len(s) /\ m <= Len(s) + 1
    OBVIOUS
  <2>2. /\ SubSeq(s, m, Len(s)) \in Seq(S)
        /\ Len(SubSeq(s, m, Len(s))) = IF m <= Len(s) THEN Len(s) - m + 1 ELSE 0
        /\ \A i \in 1 .. Len(s) - m + 1 : SubSeq(s, m, Len(s))[i] = s[m + i - 1]
    BY <2>1, SubSeqIs, Zenon
  <2> QED
    BY <2>1, <2>2

(* Taking n messages off two buffers in a row: all of the first, or not.   *)
<1>TakeLong.
    ASSUME NEW S, NEW a \in Seq(S), NEW b \in Seq(S), NEW n \in Nat, n > Len(a), n <= Len(a) + Len(b)
    PROVE  /\ After(b, n - Len(a)) \in Seq(S) /\ Len(After(b, n - Len(a))) = Len(a) + Len(b) - n
           /\ \A i \in 1 .. Len(a) + Len(b) - n : After(b, n - Len(a))[i] = (a \o b)[n + i]
  <2> USE <1>TakeLong
  <2> DEFINE d == After(b, n - Len(a))
  <2>1. PICK la, lb, m : la = Len(a) /\ lb = Len(b) /\ m = n - Len(a) + 1
    BY Zenon
  <2>2. la \in Nat /\ lb \in Nat /\ m = n - la + 1 /\ n > la /\ n <= la + lb
    BY <2>1
  <2>3. m \in 1 .. lb + 1
    BY <2>2
  <2>4. d \in Seq(S) /\ Len(d) = lb - m + 1 /\ \A i \in 1 .. lb - m + 1 : d[i] = b[m + i - 1]
    <3>1. m \in 1 .. Len(b) + 1 /\ d = SubSeq(b, m, Len(b))
      BY <2>1, <2>3, Zenon DEF After
    <3>2. d \in Seq(S) /\ Len(d) = Len(b) - m + 1 /\ \A i \in 1 .. Len(b) - m + 1 : d[i] = b[m + i - 1]
      BY <3>1, <1>RestOf, ZenonT(40)
    <3> QED
      BY <2>1, <3>2, Zenon
  <2> HIDE DEF d
  <2>5. lb - m + 1 = la + lb - n
    BY <2>2
  <2>6. ASSUME NEW i \in 1 .. la + lb - n PROVE d[i] = (a \o b)[n + i]
    <3>1. n + i \in 1 .. la + lb /\ ~ (n + i <= la) /\ m + i - 1 = (n + i) - la
      BY <2>2
    <3>2. (a \o b)[n + i] = IF n + i <= la THEN a[n + i] ELSE b[(n + i) - la]
      BY <2>1, <3>1, ConcatIs, Zenon
    <3>3. d[i] = b[m + i - 1]
      BY <2>4, <2>5, Zenon
    <3> QED
      BY <3>1, <3>2, <3>3, Zenon
  <2> QED
    BY <2>1, <2>4, <2>5, <2>6, Zenon DEF d

<1>TakeShort.
    ASSUME NEW S, NEW a \in Seq(S), NEW b \in Seq(S), NEW n \in Nat, n <= Len(a)
    PROVE  After(a, n) \in Seq(S) /\ IsRest(After(a, n) \o b, a \o b, n)
  <2> USE <1>TakeShort
  <2> DEFINE c == After(a, n)
  <2>1. PICK la, lb, m : la = Len(a) /\ lb = Len(b) /\ m = n + 1
    BY Zenon
  <2>2. la \in Nat /\ lb \in Nat /\ m = n + 1 /\ n <= la
    BY <2>1
  <2>3. m \in 1 .. la + 1
    BY <2>2
  <2>4. c \in Seq(S) /\ Len(c) = la - m + 1 /\ \A i \in 1 .. la - m + 1 : c[i] = a[m + i - 1]
    <3>1. m \in 1 .. Len(a) + 1 /\ c = SubSeq(a, m, Len(a))
      BY <2>1, <2>3, Zenon DEF After
    <3>2. c \in Seq(S) /\ Len(c) = Len(a) - m + 1 /\ \A i \in 1 .. Len(a) - m + 1 : c[i] = a[m + i - 1]
      BY <3>1, <1>RestOf, ZenonT(40)
    <3> QED
      BY <2>1, <3>2, Zenon
  <2> HIDE DEF c
  <2>5. la - m + 1 = la - n
    BY <2>2
  <2>6. /\ Len(c \o b) = Len(c) + Len(b)
        /\ \A i \in 1 .. Len(c) + Len(b) : (c \o b)[i] = IF i <= Len(c) THEN c[i] ELSE b[i - Len(c)]
    BY <2>4, ConcatIs, Zenon
  <2>9. /\ Len(c \o b) = (la - n) + lb
        /\ \A i \in 1 .. (la - n) + lb : (c \o b)[i] = IF i <= la - n THEN c[i] ELSE b[i - (la - n)]
    BY <2>1, <2>4, <2>5, <2>6, Zenon
  <2>7. (la - n) + lb = la + lb - n
    BY <2>2
  <2>8. ASSUME NEW i \in 1 .. la + lb - n PROVE (c \o b)[i] = (a \o b)[n + i]
    <3>1. n + i \in 1 .. la + lb /\ i \in 1 .. (la - n) + lb
      BY <2>2
    <3>2. (a \o b)[n + i] = IF n + i <= la THEN a[n + i] ELSE b[(n + i) - la]
      <4>1. \A j \in 1 .. Len(a) + Len(b) : (a \o b)[j] = IF j <= Len(a) THEN a[j] ELSE b[j - Len(a)]
        BY ConcatIs
      <4> QED
        BY <2>1, <3>1, <4>1, Zenon
    <3>3. (c \o b)[i] = IF i <= la - n THEN c[i] ELSE b[i - (la - n)]
      BY <2>9, <3>1, Zenon
    <3>4. CASE i <= la - n
      <4>1. n + i <= la /\ m + i - 1 = n + i /\ i \in 1 .. la - n
        BY <2>2, <3>4
      <4>2. c[i] = a[m + i - 1]
        BY <2>4, <2>5, <4>1, Zenon
      <4> QED
        BY <3>2, <3>3, <3>4, <4>1, <4>2, Zenon
    <3>5. CASE ~ (i <= la - n)
      <4>1. ~ (n + i <= la) /\ (n + i) - la = i - (la - n)
        BY <2>2, <3>5
      <4> QED
        BY <3>2, <3>3, <3>5, <4>1, Zenon
    <3> QED
      BY <3>4, <3>5, Zenon
  <2> QED
    <3>1. Len(a \o b) = la + lb
      BY <2>1, ConcatIs, Zenon
    <3> QED
      <4>1. PICK l : l = la + lb - n
        BY Zenon
      <4>2. Len(a \o b) - n = l
        <5>1. (la + lb) - n = l
          BY <2>2, <4>1
        <5> QED
          BY <3>1, <5>1, Zenon
      <4>3. Len(c \o b) = l
        BY <2>7, <2>9, <4>1, Zenon
      <4>4. \A i \in 1 .. l : (c \o b)[i] = (a \o b)[n + i]
        BY <2>8, <4>1, Zenon
      <4> QED
        BY <2>4, <4>2, <4>3, <4>4, Zenon DEF c, IsRest

<1>TakeOff.
    ASSUME NEW S, NEW a \in Seq(S), NEW b \in Seq(S), NEW n \in Nat, n <= Len(a \o b)
    PROVE  /\ After(a, n) \in Seq(S) /\ Behind(a, b, n) \in Seq(S)
           /\ IsRest(After(a, n) \o Behind(a, b, n), a \o b, n)
  <2> USE <1>TakeOff
  <2>1. Len(a) \in Nat /\ Len(b) \in Nat /\ Len(a \o b) = Len(a) + Len(b)
    BY ConcatIs
  <2>2. CASE n > Len(a)
    <3>1. Behind(a, b, n) = After(b, n - Len(a))
      BY <2>2, Zenon DEF Behind
    <3>2. After(b, n - Len(a)) \in Seq(S) /\ IsRest(After(b, n - Len(a)), a \o b, n)
      BY <2>1, <2>2, <1>TakeLong DEF IsRest
    <3>3. After(a, n) = << >>
      <4>1. n + 1 \in Nat \ {0} /\ Len(a) \in 0 .. Len(a) /\ ~ (n + 1 <= Len(a))
        BY <2>1, <2>2
      <4>2. After(a, n) \in Seq(S) /\ Len(After(a, n)) = 0
        BY <4>1, SubSeqIs, Zenon DEF After
      <4> QED
        BY <4>2, SeqEmpty, Zenon
    <3>4. After(a, n) \in Seq(S) /\ After(a, n) \o After(b, n - Len(a)) = After(b, n - Len(a))
      BY <3>2, <3>3, SeqEmpty, ConcatEmpty, Zenon
    <3> QED
      BY <3>1, <3>2, <3>4, Zenon
  <2>3. CASE ~ (n > Len(a))
    <3>1. Behind(a, b, n) = b
      BY <2>3, Zenon DEF Behind
    <3>2. n <= Len(a)
      BY <2>1, <2>3
    <3>3. After(a, n) \in Seq(S) /\ IsRest(After(a, n) \o b, a \o b, n)
      BY <3>2, <1>TakeShort, Zenon
    <3> QED
      BY <3>1, <3>3, Zenon
  <2> QED
    BY <2>2, <2>3, Zenon

<1>GetResult.
    ASSUME conn \in Links, server \in Servers, NEW r, PQgetResult(r)
    PROVE  /\ conn' \in Links /\ server' \in Servers /\ made' = made
           /\ conn.async = "busy" /\ conn.unsent = Nil /\ conn'.unsent = Nil
           /\ server'.up = server.up /\ server'.todo = server.todo
           /\ r \in PgResults \cup {Null}
           /\ FindsEnd(r) \/ \E n : Takes(n, r)
  <2> USE <1>GetResult
  <2>1. /\ Input \in Seq(Messages) /\ Len(Input) \in Nat /\ DOMAIN Input = 1 .. Len(Input)
        /\ conn.inbuf \in Seq(Messages) /\ server.wire \in Seq(Messages)
        /\ Len(Input) = Len(conn.inbuf) + Len(server.wire)
    BY InputIs, Zenon
  <2>3. conn.async = "busy" /\ conn.unsent = Nil /\ made' = made
    BY Zenon DEF PQgetResult
  <2>4. CASE /\ ~server.up
             /\ r = Lost
             /\ conn' = [conn EXCEPT !.status = "BAD", !.inbuf = <<Ready>>]
             /\ server' = [server EXCEPT !.wire = <<>>]
    <3>2. <<Ready>> \in Seq(Messages) /\ <<>> \in Seq(Messages)
      BY MessagesAre
    <3>3. /\ conn' \in Links /\ conn'.status = "BAD" /\ conn'.async = conn.async /\ conn'.unsent = conn.unsent
          /\ conn'.inbuf = <<Ready>>
      BY <2>4, <3>2, Zenon DEF Links
    <3>4. /\ server' \in Servers /\ server'.up = server.up /\ server'.todo = server.todo
          /\ server'.wire = <<>>
      BY <2>4, <3>2, Zenon DEF Servers
    <3>5. Input' = <<Ready>>
      BY <3>2, <3>3, <3>4, ConcatEmpty, Zenon DEF Input
    <3> QED
      BY <2>3, <2>4, <3>3, <3>4, <3>5, NullAndLost, Zenon DEF FindsEnd
  <2>5. ASSUME NEW n \in DOMAIN Input, Input[n] # Part, \A m \in 1 .. n - 1 : Input[m] = Part,
               r = IF Input[n] = Ready THEN Null ELSE Input[n].r,
               conn' = [conn EXCEPT !.inbuf = SubSeq(@, n + 1, Len(conn.inbuf)),
                                    !.async = IF r = Null THEN "idle"
                                              ELSE IF r.status = "COPY_IN" THEN "copy" ELSE "busy"],
               server' = [server EXCEPT !.wire = SubSeq(@, IF n > Len(conn.inbuf) THEN n - Len(conn.inbuf) + 1 ELSE 1,
                                                           Len(@))]
        PROVE  /\ conn' \in Links /\ server' \in Servers /\ conn'.unsent = Nil
               /\ server'.up = server.up /\ server'.todo = server.todo
               /\ r \in PgResults \cup {Null} /\ Takes(n, r)
    <3>1. n \in 1 .. Len(Input)
      BY <2>1, Zenon
    <3>2. PICK a, b, c, d, w :
             /\ a = conn.inbuf /\ b = server.wire /\ w = IF r = Null THEN "idle" ELSE IF r.status = "COPY_IN" THEN "copy" ELSE "busy"
             /\ c = After(a, n) /\ d = Behind(a, b, n)
      BY Zenon
    <3>3. /\ conn' = [[conn EXCEPT !.inbuf = c] EXCEPT !.async = w]
          /\ server' = [server EXCEPT !.wire = d]
      <4>1. SubSeq(server.wire, IF n > Len(conn.inbuf) THEN n - Len(conn.inbuf) + 1 ELSE 1, Len(server.wire)) = d
        <5>1. SubSeq(server.wire, 1, Len(server.wire)) = server.wire
          BY <2>1, <1>SubSeqAll, Zenon
        <5> QED
          BY <3>2, <5>1, Zenon DEF After, Behind
      <4> QED
        BY <2>5, <3>2, <4>1, Zenon DEF After
    <3>4. c \in Seq(Messages) /\ d \in Seq(Messages) /\ IsRest(c \o d, Input, n)
      <4>1. n \in Nat /\ n <= Len(Input)
        <5>1. PICK l : l = Len(Input)
          BY Zenon
        <5>2. l \in Nat /\ n \in 1 .. l
          BY <2>1, <3>1, <5>1, Zenon
        <5>3. n \in Nat /\ n <= l
          BY <5>2
        <5> QED
          BY <5>1, <5>3, Zenon
      <4>2. a \in Seq(Messages) /\ b \in Seq(Messages) /\ Input = a \o b
        BY <2>1, <3>2, Zenon DEF Input
      <4>3. /\ After(a, n) \in Seq(Messages) /\ Behind(a, b, n) \in Seq(Messages)
            /\ IsRest(After(a, n) \o Behind(a, b, n), a \o b, n)
        BY <4>1, <4>2, <1>TakeOff, Zenon
      <4> QED
        BY <3>2, <4>2, <4>3, Zenon
    <3>5. /\ conn' \in Links /\ conn'.status = conn.status /\ conn'.async = w /\ conn'.unsent = conn.unsent
          /\ conn'.inbuf = c
      BY <3>2, <3>3, <3>4, Zenon DEF Links
    <3>6. /\ server' \in Servers /\ server'.up = server.up /\ server'.todo = server.todo
          /\ server'.wire = d
      BY <3>3, <3>4, Zenon DEF Servers
    <3>7. Input' = c \o d
      BY <3>5, <3>6 DEF Input
    <3>8. r \in PgResults \cup {Null}
      <4>1. Input[n] \in Messages
        BY <2>1, <3>1, SeqHas, Zenon
      <4> QED
        BY <2>5, <4>1, MessageKinds
    <3>9. Takes(n, r)
      BY <2>5, <3>1, <3>2, <3>4, <3>5, <3>7, Zenon DEF Takes
    <3> QED
      BY <2>3, <3>5, <3>6, <3>8, <3>9, Zenon
  <2> QED
    <3>1. \/ /\ ~server.up
             /\ r = Lost
             /\ conn' = [conn EXCEPT !.status = "BAD", !.inbuf = <<Ready>>]
             /\ server' = [server EXCEPT !.wire = <<>>]
          \/ \E n \in DOMAIN Input :
                /\ Input[n] # Part
                /\ \A m \in 1 .. n - 1 : Input[m] = Part
                /\ r = IF Input[n] = Ready THEN Null ELSE Input[n].r
                /\ conn' = [conn EXCEPT !.inbuf = SubSeq(@, n + 1, Len(conn.inbuf)),
                                        !.async = IF r = Null THEN "idle"
                                                  ELSE IF r.status = "COPY_IN" THEN "copy" ELSE "busy"]
                /\ server' = [server EXCEPT !.wire =
                                SubSeq(@, IF n > Len(conn.inbuf) THEN n - Len(conn.inbuf) + 1 ELSE 1, Len(@))]
      BY Zenon DEF PQgetResult, Input
    <3> QED
      BY <2>3, <2>4, <2>5, <3>1, Zenon

<1>ShapeTakes.
    ASSUME NEW in \in Seq(Messages), NEW in2 \in Seq(Messages), NEW up, NEW todo,
           NEW n \in 1 .. Len(in), IsRest(in2, in, n), Shape("busy", Nil, up, todo, in)
    PROVE  /\ in[n] = Ready => in2 = <<>> /\ todo = Nil /\ Shape("idle", Nil, up, todo, in2)
           /\ IsCopy(in[n]) => in2 = <<>> /\ (up => CopyWaits(todo)) /\ Shape("copy", Nil, up, todo, in2)
           /\ Shape("busy", Nil, up, todo, in2)
  <2> USE <1>ShapeTakes
  <2>1. PICK l, l2 : l = Len(in) /\ l2 = Len(in2)
    BY Zenon
  <2>2. /\ l \in Nat /\ l2 \in Nat /\ n \in 1 .. l /\ l2 = l - n
        /\ \A i \in 1 .. l2 : in2[i] = in[n + i]
    BY <2>1, SeqHas, Zenon DEF IsRest
  <2>3. /\ ~up => todo = Nil
        /\ \A m \in 1 .. l :
              /\ in[m] = Ready => m = l /\ todo = Nil
              /\ IsCopy(in[m]) => m = l /\ (up => CopyWaits(todo))
    BY <2>1, Zenon DEF Shape
  <2>4. \A i \in 1 .. l2 : n + i \in 1 .. l /\ (n + i = l => i = l2)
    BY <2>2
  <2>5. \A i \in 1 .. l2 :
           /\ in2[i] = Ready => i = l2 /\ todo = Nil
           /\ IsCopy(in2[i]) => i = l2 /\ (up => CopyWaits(todo))
    BY <2>2, <2>3, <2>4, Zenon
  <2>6. Shape("busy", Nil, up, todo, in2)
    BY <2>1, <2>3, <2>5 DEF Shape
  <2>7. n = l => in2 = <<>>
    <3>1. n = l => l2 = 0
      BY <2>2
    <3> QED
      BY <2>1, <3>1, SeqEmpty, Zenon
  <2>8. ASSUME in[n] = Ready PROVE in2 = <<>> /\ todo = Nil /\ Shape("idle", Nil, up, todo, in2)
    <3>1. in2 = <<>> /\ todo = Nil
      BY <2>2, <2>3, <2>7, <2>8, Zenon
    <3> QED
      BY <2>6, <3>1 DEF Shape
  <2>9. ASSUME IsCopy(in[n])
        PROVE  in2 = <<>> /\ (up => CopyWaits(todo)) /\ Shape("copy", Nil, up, todo, in2)
    <3>1. in2 = <<>> /\ (up => CopyWaits(todo))
      BY <2>2, <2>3, <2>7, <2>9, Zenon
    <3> QED
      BY <2>6, <3>1 DEF Shape
  <2> QED
    BY <2>6, <2>8, <2>9, Zenon

<1>ShapeEnd.
    ASSUME NEW up, up = FALSE PROVE Shape("busy", Nil, up, Nil, <<Ready>>)
  BY <1>ShapeEnd DEF Shape, IsCopy, Ready

(* PQgetResult keeps the shape. *)
<1>GetResultShape.
    ASSUME LinkInv, NEW r, PQgetResult(r)
    PROVE  Shape(conn.async, conn.unsent, server.up, server.todo, Input)'
  <2> USE <1>GetResultShape
  <2>1. /\ conn \in Links /\ server \in Servers
        /\ Shape(conn.async, conn.unsent, server.up, server.todo, Input)
    BY Zenon DEF LinkInv
  <2>2. /\ conn' \in Links /\ server' \in Servers
        /\ conn.async = "busy" /\ conn.unsent = Nil /\ conn'.unsent = Nil
        /\ server'.up = server.up /\ server'.todo = server.todo
        /\ FindsEnd(r) \/ \E n : Takes(n, r)
    BY <2>1, <1>GetResult, Zenon
  <2>3. CASE FindsEnd(r)
    <3>1. /\ server'.up = FALSE /\ server'.todo = Nil /\ conn'.async = "busy" /\ Input' = <<Ready>>
      <4>1. server.up = FALSE
        BY <2>1, <2>3 DEF FindsEnd, Servers
      <4>2. server.todo = Nil
        BY <2>1, <4>1 DEF Shape
      <4> QED
        BY <2>2, <2>3, <4>1, <4>2, Zenon DEF FindsEnd
    <3> QED
      BY <2>2, <3>1, <1>ShapeEnd, Zenon
  <2>4. ASSUME NEW n, Takes(n, r) PROVE Shape(conn.async, conn.unsent, server.up, server.todo, Input)'
    <3>1. Input \in Seq(Messages) /\ Input' \in Seq(Messages)
      <4>1. (conn \in Links /\ server \in Servers => Input \in Seq(Messages))'
        BY InputIs, PTL
      <4> QED
        BY <2>1, <2>2, <4>1, InputIs, Zenon
    <3>2. /\ Input[n] = Ready => Shape("idle", Nil, server.up, server.todo, Input')
          /\ IsCopy(Input[n]) => Shape("copy", Nil, server.up, server.todo, Input')
          /\ Shape("busy", Nil, server.up, server.todo, Input')
      <4>1. n \in 1 .. Len(Input) /\ IsRest(Input', Input, n)
        BY <2>4, Zenon DEF Takes
      <4>2. Shape("busy", Nil, server.up, server.todo, Input)
        BY <2>1, <2>2, Zenon
      <4> QED
        BY <3>1, <4>1, <4>2, <1>ShapeTakes, Zenon
    <3>3. /\ conn'.async \in {"idle", "copy", "busy"}
          /\ conn'.async = "idle" => Input[n] = Ready
          /\ conn'.async = "copy" => IsCopy(Input[n])
      <4>1. Input[n] \in Messages /\ Input[n] # Part
        BY <2>4, <3>1, SeqHas, Zenon DEF Takes
      <4>2. Input[n] # Ready => Input[n].k = "result" /\ Input[n].r \in PgResults
        BY <4>1, MessageKinds
      <4>3. r = IF Input[n] = Ready THEN Null ELSE Input[n].r
        BY <2>4, Zenon DEF Takes
      <4>4. conn'.async = IF r = Null THEN "idle" ELSE IF r.status = "COPY_IN" THEN "copy" ELSE "busy"
        BY <2>4, Zenon DEF Takes
      <4> QED
        BY <4>2, <4>3, <4>4, NullAndLost DEF IsCopy
    <3> QED
      BY <2>2, <3>2, <3>3, Zenon
  <2> QED
    BY <2>2, <2>3, <2>4, Zenon

<1>ReadLink.
    ASSUME LinkInv, NEW r, PQgetResult(r), call' \in Calls
    PROVE  LinkInv'
  <2> USE <1>ReadLink
  <2>1. conn' \in Links /\ server' \in Servers
    BY <1>GetResult, Zenon DEF LinkInv
  <2> QED
    BY <2>1, <1>GetResultShape, Zenon DEF LinkInv

<1> QED
  BY <1>GetResult, <1>ReadLink, Zenon

LEMMA GetResult ==
    ASSUME conn \in Links, server \in Servers, NEW r, PQgetResult(r)
    PROVE  /\ conn' \in Links /\ server' \in Servers /\ made' = made
           /\ conn.async = "busy" /\ conn.unsent = Nil /\ conn'.unsent = Nil
           /\ server'.up = server.up /\ server'.todo = server.todo
           /\ r \in PgResults \cup {Null}
           /\ FindsEnd(r) \/ \E n : Takes(n, r)
BY PQgetResultIs, Zenon

LEMMA ReadLink ==
    ASSUME LinkInv, NEW r, PQgetResult(r), call' \in Calls
    PROVE  LinkInv'
BY PQgetResultIs, Zenon

-----------------------------------------------------------------------------
(* Calls *)

LEMMA CleanupMoves ==
    ASSUME NEW c \in Cleanups, NEW r \in PgResults \cup {Null}
    PROVE  [c EXCEPT !.pc = "exec"] \in Cleanups /\ [c EXCEPT !.result = r] \in Cleanups
BY DEF Cleanups

-----------------------------------------------------------------------------
(* The invariant, action by action *)

(* A step of the chain that calls nothing, or no step at all. *)
LEMMA ChainInv ==
    ASSUME ExecutorInv, UNCHANGED <<issued, call>>, UNCHANGED linkVars, UNCHANGED ownVars
    PROVE  ExecutorInv'
<1>1. /\ issued' = issued /\ call' = call /\ conn' = conn /\ server' = server /\ made' = made
      /\ holder' = holder /\ obj' = obj /\ terminated' = terminated
  BY DEF linkVars, ownVars
<1>2. Input' = Input /\ Texts' = Texts
  BY <1>1 DEF Input, Texts
<1>3. LinkInv' /\ HolderInv'
  BY <1>1, <1>2, Zenon DEF ExecutorInv, LinkInv, HolderInv
<1>4. MadeInv' /\ DoneInv'
  BY <1>1, <1>2, FrameInv DEF ExecutorInv
<1>5. CallInv'
  BY <1>1, <1>2, Zenon DEF ExecutorInv, CallInv
<1> QED
  BY <1>3, <1>4, <1>5, Zenon DEF ExecutorInv

(* A call of PQgetResult, once more: what it returns and leaves. *)
LEMMA ReadIs ==
    ASSUME ExecutorInv, NEW r, PQgetResult(r), call' \in Calls
    PROVE  /\ LinkInv' /\ made' = made /\ conn.unsent = Nil /\ conn'.unsent = Nil /\ server'.todo = server.todo
           /\ r \in PgResults \cup {Null} /\ server'.up = server.up
           /\ FindsEnd(r) \/ \E n : Takes(n, r)
           /\ Input \in Seq(Messages) /\ Input' \in Seq(Messages)
<1>1. LinkInv' /\ LinkInv
  BY ReadLink, Zenon DEF ExecutorInv
<1>2. Input \in Seq(Messages)
  BY <1>1, InputTypes, Zenon
<1>3. Input' \in Seq(Messages)
  <2>1. conn'.inbuf \in Seq(Messages) /\ server'.wire \in Seq(Messages)
    BY <1>1 DEF LinkInv, Links, Servers
  <2> QED
    BY <2>1 DEF Input
<1> QED
  BY <1>1, <1>2, <1>3, GetResult, Zenon DEF LinkInv

LEMMA ReadReturns ==
    ASSUME ExecutorInv, call \in Executes, call.pc # "start", NEW r, PQgetResult(r), NEW out, Returns(call, out),
           UNCHANGED ownVars, Answers(out, server.todo, conn.unsent)
    PROVE  ExecutorInv'
<1>1. call' = NoCall
  BY Zenon DEF Returns
<1>2. call' \in Calls /\ call' \notin Cleanups /\ call' \notin Executes
  BY <1>1, CallIs, Zenon
<1>3. LinkInv' /\ made' = made /\ conn.unsent = Nil /\ conn'.unsent = Nil /\ server'.todo = server.todo
  BY <1>2, ReadIs, Zenon
<1>4. HolderInv'
  BY <1>2, HolderBusy, Zenon DEF ExecutorInv
<1>5. server'.todo \in {server.todo, conn.unsent, Nil} /\ conn'.unsent \in {conn.unsent, Nil}
  BY <1>3, Zenon
<1>6. Settled(call.serial, out, call.x \in SyncObjects, Own(made, call.serial), Len(call.stmts),
              server'.todo, conn'.unsent)
  BY <1>3, Zenon DEF Answers
<1>7. MadeInv' /\ CallInv' /\ DoneInv'
  BY <1>3, <1>5, <1>6, ReturnsInv, Zenon DEF ExecutorInv
<1> QED
  BY <1>3, <1>4, <1>7, Zenon DEF ExecutorInv

(* PQexec for a cleanup: what it means for the holder. *)
LEMMA CleanupEnds ==
    ASSUME ExecutorInv, call \in Cleanups, NEW r, r.status = "COMMAND_OK" => conn'.status = conn.status, Executed(r),
           LinkInv', made' = made, obj' = obj, terminated' = terminated,
           server'.todo \in {server.todo, conn.unsent, Nil}, conn'.unsent \in {conn.unsent, Nil}
    PROVE  ExecutorInv'
<1>1. /\ call' = NoCall /\ UNCHANGED chainVars
      /\ holder' = [status |-> IF r.status = "COMMAND_OK" THEN "FREE" ELSE "DEAD", cleanup |-> ""]
  BY CallIs, Zenon DEF Executed
<1>2. call' \notin Executes /\ call' \notin Cleanups
  BY <1>1, CallIs, Zenon
<1>3. issued' = issued
  BY <1>1, Zenon DEF chainVars
<1>4. MadeInv' /\ DoneInv'
  BY <1>3, FrameInv, Zenon DEF ExecutorInv
<1>5. CallInv'
  BY <1>2, Zenon DEF CallInv
<1>6. HolderInv'
  <2>1. conn.status = "OK" /\ terminated = FALSE /\ \A x \in Objects : ~obj[x].holds
    BY Zenon DEF ExecutorInv, HolderInv
  <2>2. obj \in [Objects -> Executors]
    BY HolderTypes, Zenon DEF ExecutorInv
  <2>3. /\ holder' \in [status : {"FREE", "USED", "DEAD"}, cleanup : Words]
        /\ holder'.status = IF r.status = "COMMAND_OK" THEN "FREE" ELSE "DEAD"
    BY <1>1, Zenon DEF Words
  <2>4. /\ holder'.status = "FREE" => conn'.status = "OK"
        /\ holder'.status # "USED"
    BY <2>1, <2>3
  <2> QED
    BY <1>2, <2>1, <2>2, <2>3, <2>4, HolderIdleNext, Zenon
<1> QED
  BY <1>4, <1>5, <1>6, Zenon DEF ExecutorInv

-----------------------------------------------------------------------------
(* The cleanup of the connection *)

(* DISCARD ALL through PQexec: sent, read to its end, or failed. *)
LEMMA DiscardStepInv ==
    ExecutorInv /\ Discard => ExecutorInv'
(* A query is given to a server, which may be gone. *)
<1>SendLink.
    ASSUME LinkInv, conn.async = "idle", NEW t \in InFlight, server' = Deliver(t),
           conn' = [conn EXCEPT !.async = "busy"], call' \in Calls
    PROVE  /\ LinkInv' /\ Input' = <<>> /\ conn'.unsent = Nil /\ server'.todo \in {t, Nil}
           /\ conn'.status = conn.status
  <2> USE <1>SendLink
  <2>1. /\ conn \in Links /\ server \in Servers
        /\ Input = <<>> /\ server.todo = Nil /\ conn.unsent = Nil
    BY Zenon DEF LinkInv, Shape
  <2>2. /\ server' \in Servers /\ server'.up = server.up /\ server'.wire = server.wire
        /\ server'.todo = IF server.up THEN t ELSE Nil
    BY <2>1, DeliverIs, Zenon
  <2>3. /\ conn' \in Links /\ conn'.async = "busy" /\ conn'.unsent = Nil /\ conn'.inbuf = conn.inbuf
        /\ conn'.status = conn.status
    BY <2>1, Zenon DEF Links
  <2>4. Input' = <<>>
    BY <2>1, <2>2, <2>3, Zenon DEF Input
  <2>5. server'.up \in BOOLEAN /\ (~server'.up => server'.todo = Nil)
    BY <2>2, Zenon DEF Servers
  <2>6. Shape("busy", Nil, server'.up, server'.todo, <<>>)
    BY <2>5, ShapeEmpty, Zenon
  <2> QED
    BY <2>2, <2>3, <2>4, <2>6, Zenon DEF LinkInv

<1>CopyEndLink.
    ASSUME LinkInv, conn.async = "copy", conn' = [conn EXCEPT !.async = "busy"], call' \in Calls,
           server' = IF server.up
                     THEN [server EXCEPT !.todo = Nil,
                             !.wire = @ \o <<ResultMsg(Fails(server.todo, <<"57", "014">>)), Ready>>]
                     ELSE server
    PROVE  LinkInv' /\ conn'.unsent = conn.unsent /\ server'.todo = Nil /\ conn'.status = conn.status
  <2> USE <1>CopyEndLink
  <2>1. /\ conn \in Links /\ server \in Servers /\ Input = <<>> /\ conn.unsent = Nil
        /\ server.up => CopyWaits(server.todo)
        /\ ~server.up => server.todo = Nil
    BY Zenon DEF LinkInv, Shape
  <2>2. /\ conn' \in Links /\ conn'.async = "busy" /\ conn'.unsent = conn.unsent /\ conn'.inbuf = conn.inbuf
        /\ conn'.status = conn.status
    BY <2>1, Zenon DEF Links
  <2>3. CASE ~server.up
    <3>1. server' = server /\ Input' = <<>>
      BY <2>1, <2>2, <2>3, Zenon DEF Input
    <3>2. Shape("busy", Nil, server.up, Nil, <<>>)
      <4>1. server.up \in BOOLEAN
        BY <2>1, Zenon DEF Servers
      <4> QED
        BY <4>1, ShapeEmpty, Zenon
    <3> QED
      BY <2>1, <2>2, <2>3, <3>1, <3>2, Zenon DEF LinkInv
  <2>4. CASE server.up
    <3>1. PICK m : m = ResultMsg(Fails(server.todo, <<"57", "014">>))
      BY Zenon
    <3>2. m \in Messages /\ m # Ready /\ ~IsCopy(m)
      <4>1. server.todo \in InFlight
        BY <2>1, <2>4 DEF CopyWaits, Servers
      <4>2. server.todo.serial \in Nat /\ server.todo.next \in Nat
        BY <4>1 DEF InFlight
      <4>3. Fails(server.todo, <<"57", "014">>) \in PgResults /\ Fails(server.todo, <<"57", "014">>).status = "FATAL_ERROR"
        BY <4>2 DEF Fails, Result, PgResults
      <4> QED
        BY <3>1, <4>3, MessagesAre DEF ResultMsg, Ready, IsCopy
    <3>3. server' = [server EXCEPT !.todo = Nil, !.wire = @ \o <<m, Ready>>]
      BY <2>4, <3>1, Zenon
    <3>4. server.wire = <<>> /\ conn.inbuf = <<>>
      <4>1. conn.inbuf \in Seq(Messages) /\ server.wire \in Seq(Messages) /\ Len(Input) = Len(conn.inbuf) + Len(server.wire)
        BY <2>1, InputIs, Zenon
      <4>2. Len(conn.inbuf) = 0 /\ Len(server.wire) = 0
        <5>1. PICK l, a, b : l = Len(Input) /\ a = Len(conn.inbuf) /\ b = Len(server.wire)
          BY Zenon
        <5>2. l = 0
          BY <2>1, <5>1, SeqEmpty, Zenon
        <5>3. a \in Nat /\ b \in Nat /\ l = a + b
          BY <4>1, <5>1, SeqHas, Zenon
        <5>4. a = 0 /\ b = 0
          BY <5>2, <5>3
        <5> QED
          BY <5>1, <5>4, Zenon
      <4> QED
        BY <4>1, <4>2, SeqEmpty, Zenon
    <3>5. <<m, Ready>> \in Seq(Messages)
      BY <3>2, MessagesAre
    <3>6. server.wire \o <<m, Ready>> = <<m, Ready>>
      BY <3>4, <3>5, ConcatEmpty, Zenon
    <3>7. server' \in Servers /\ server'.up = TRUE /\ server'.todo = Nil /\ server'.wire = <<m, Ready>>
      <4>1. server.up = TRUE
        BY <2>1, <2>4 DEF Servers
      <4> QED
        BY <2>1, <3>3, <3>5, <3>6, <4>1, Zenon DEF Servers
    <3>8. Input' = <<>> \o <<m, Ready>>
      BY <2>2, <3>4, <3>7, Zenon DEF Input
    <3>9. Shape("busy", Nil, TRUE, Nil, <<>> \o <<m, Ready>>)
      <4>1. <<>> \in Seq(Messages) /\ \A n \in 1 .. Len(<<>>) : <<>>[n] # Ready /\ ~IsCopy(<<>>[n])
        OBVIOUS
      <4> QED
        BY <3>2, <4>1, ShapeOver, Zenon
    <3> QED
      BY <2>1, <2>2, <3>7, <3>8, <3>9, Zenon DEF LinkInv
  <2> QED
    BY <2>3, <2>4, Zenon

<1>DiscardGoesOn.
    ASSUME ExecutorInv, call.pc = "discard", LinkInv', call' = call, issued' = issued, made' = made,
           UNCHANGED ownVars, conn'.status = conn.status,
           server'.todo \in {server.todo, conn.unsent, Nil}, conn'.unsent \in {conn.unsent, Nil}
    PROVE  ExecutorInv'
  <2> USE <1>DiscardGoesOn
  <2>1. HolderInv'
    <3>1. call \in Executes /\ call.pc # "start" => obj[call.x].holds
      BY Zenon DEF ExecutorInv, HolderInv
    <3> QED
      BY <3>1, HolderSame, Zenon DEF ExecutorInv
  <2>2. MadeInv' /\ DoneInv'
    BY FrameInv, Zenon DEF ExecutorInv
  <2>3. CallInv'
    <3>1. ASSUME call \in Executes PROVE Dynamic(call)'
      <4>1. Dynamic(call) /\ call.serial \in Nat \ {0}
        BY <3>1, NowDynamic, SerialIs, Zenon DEF ExecutorInv
      <4>2. call.pc \in BeforeSend /\ call.pc \notin Reading /\ call.pc # "drain"
        BY DEF BeforeSend, Reading
      <4>3. NotSent(call.serial, made, server.todo, conn.unsent)
        BY <4>1, <4>2, Zenon DEF Dynamic
      <4>4. NotSent(call.serial, made, server'.todo, conn'.unsent)
        BY <4>1, <4>3, NotSentAny, Zenon
      <4> QED
        BY <4>2, <4>4, Zenon DEF Dynamic
    <3> QED
      BY <3>1, CallStays, Zenon DEF ExecutorInv
  <2> QED
    BY <2>1, <2>2, <2>3, Zenon DEF ExecutorInv

<1>CleanupIsNew.
    ASSUME ExecutorInv, call \in Cleanups, NEW t, t = Sent(call.serial, call.stmts)
    PROVE  t \in InFlight /\ NewQuery(t)
  <2> USE <1>CleanupIsNew
  <2>1. call.serial = 0 /\ call.stmts \in Seq(Words) /\ Len(call.stmts) \in Nat
    BY DEF Cleanups
  <2>2. t \in InFlight /\ t.serial = 0 /\ t.stmts = call.stmts /\ t.next = 1
    BY <2>1, FlightIs
  <2>3. Numbered(made, Len(issued), Texts, server.todo, conn.unsent) /\ Len(issued) \in Nat
    BY TextsIs DEF ExecutorInv, MadeInv
  <2>4. Own(made, 0) = {}
    BY <2>3 DEF Numbered, Own
  <2>5. 0 <= Len(issued) /\ 1 \in 1 .. Len(call.stmts) + 1 /\ \A n \in 1 .. Len(issued) : n # 0
    BY <2>1, <2>3
  <2>6. Known(t, Len(issued), Texts)
    BY <2>2, <2>5, Zenon DEF Known
  <2> QED
    BY <2>2, <2>4, <2>5, <2>6, Zenon DEF NewQuery

(* PQexec sends the query. *)
<1>ExecSendsInv.
    ASSUME ExecutorInv, call.pc = "discard", conn.async = "idle", server' = Deliver(Sent(call.serial, call.stmts)),
           conn' = [conn EXCEPT !.async = "busy"], call' = [call EXCEPT !.pc = "exec"],
           made' = made, issued' = issued, UNCHANGED ownVars
    PROVE  ExecutorInv'
  <2> USE <1>ExecSendsInv
  <2>1. PICK t : t = Sent(call.serial, call.stmts)
    BY Zenon
  <2>2. CASE call \in Cleanups
    <3>1. call' \in Cleanups
      BY <2>2, CleanupMoves, Zenon
    <3>2. call' \in Calls /\ call' \notin Executes /\ call \notin Executes
      BY <2>2, <3>1, CallIs, Zenon DEF Calls
    <3>3. t \in InFlight /\ NewQuery(t)
      BY <2>1, <2>2, <1>CleanupIsNew, Zenon
    <3>4. LinkInv' /\ conn'.unsent = Nil /\ server'.todo \in {t, Nil} /\ conn'.status = conn.status
      BY <2>1, <3>2, <3>3, <1>SendLink, Zenon DEF ExecutorInv
    <3>5. HolderInv'
      BY <2>2, <3>1, <3>2, <3>4, HolderSame, Zenon DEF ExecutorInv
    <3>6. MadeInv' /\ DoneInv'
      <4>1. server'.todo \in {server.todo, conn.unsent, Nil} \/ NewQuery(server'.todo)
        BY <3>3, <3>4, Zenon
      <4>2. conn'.unsent \in {conn.unsent, Nil}
        BY <3>4, Zenon
      <4> QED
        BY <4>1, <4>2, FrameInv, Zenon DEF ExecutorInv
    <3>7. CallInv'
      BY <3>2, Zenon DEF CallInv
    <3> QED
      BY <3>4, <3>5, <3>6, <3>7, Zenon DEF ExecutorInv
  <2>3. CASE call \in Executes
    <3>1. "exec" \in Places /\ "exec" \notin BeforeSend /\ call.pc \in BeforeSend /\ call.pc # "start"
          /\ call.pc \in {"discard", "exec"} /\ call.pc \notin {"exec", "drain"}
      BY DEF Places, BeforeSend
    <3>2. /\ call' \in Executes /\ call'.pc = "exec" /\ call'.serial = call.serial /\ call'.stmts = call.stmts
          /\ call'.x = call.x /\ call'.result = call.result
      BY <2>3, <3>1, CallMoves
    <3>3. call' \in Calls /\ call' \notin Cleanups
      BY <3>2, CallIs, Zenon DEF Calls
    <3>4. t \in InFlight /\ NewQuery(t) /\ t.serial = call.serial /\ Own(made, call.serial) = {}
      BY <2>1, <2>3, <3>1, SentIsNew, Zenon
    <3>5. /\ LinkInv' /\ Input' = <<>> /\ conn'.unsent = Nil /\ server'.todo \in {t, Nil}
          /\ conn'.status = conn.status
      BY <2>1, <3>3, <3>4, <1>SendLink, Zenon DEF ExecutorInv
    <3>6. HolderInv'
      BY <2>3, <3>1, <3>2, <3>3, HolderBusy, Zenon DEF ExecutorInv
    <3>7. MadeInv' /\ DoneInv'
      <4>1. server'.todo \in {server.todo, conn.unsent, Nil} \/ NewQuery(server'.todo)
        BY <3>4, <3>5, Zenon
      <4>2. conn'.unsent \in {conn.unsent, Nil}
        BY <3>5, Zenon
      <4> QED
        BY <4>1, <4>2, FrameInv, Zenon DEF ExecutorInv
    <3>8. CallInv'
      <4>1. PICK t2, up2 : t2 = server'.todo /\ up2 = server'.up
        BY Zenon
      <4>2. t2 # Nil => t2.serial = call.serial
        BY <3>4, <3>5, <4>1, Zenon
      <4>3. Current(call.serial, made, t2, Nil, <<>>)
        BY <4>2, CurrentEnd, Zenon
      <4>4. Complete({}, Null, Len(call.stmts), up2, <<>>)
        BY CompleteEmpty, Zenon
      <4>5. call.result = Null /\ call.x \in SyncObjects
        BY <2>3, <3>1, Zenon DEF ExecutorInv, CallInv
      <4>6. "exec" # "drain" /\ "exec" \notin {"flush", "write", "read", "collect", "drain"} /\ "exec" \in {"exec", "drain"}
        OBVIOUS
      <4>7. Dynamic(call)'
        BY <3>1, <3>2, <3>4, <3>5, <4>1, <4>3, <4>4, <4>5, <4>6, Zenon DEF Dynamic
      <4> QED
        BY <2>3, <3>2, <4>5, <4>6, <4>7, CallMoved, Zenon DEF ExecutorInv
    <3> QED
      BY <3>5, <3>6, <3>7, <3>8, Zenon DEF ExecutorInv
  <2>4. call \in Cleanups \/ call \in Executes
    BY PlaceOf DEF ExecutorInv, LinkInv
  <2> QED
    BY <2>2, <2>3, <2>4, Zenon

<1>DiscardInv.
    ASSUME ExecutorInv, Discard
    PROVE  ExecutorInv'
  <2> USE <1>DiscardInv
  <2>1. call.pc = "discard" /\ obj' = obj /\ terminated' = terminated
    BY DEF Discard
  <2>2. call \in Cleanups \/ call \in Executes
    BY <2>1, PlaceOf DEF ExecutorInv, LinkInv
  <2>3. call \in Calls
    BY DEF ExecutorInv, LinkInv
  <2>4. holder' = holder => UNCHANGED ownVars
    BY <2>1 DEF ownVars
  <2>5. CASE /\ conn.async = "idle"
             /\ server' = Deliver(Sent(call.serial, call.stmts))
             /\ conn' = [conn EXCEPT !.async = "busy"]
             /\ call' = [call EXCEPT !.pc = "exec"]
             /\ UNCHANGED <<made, holder>>
             /\ UNCHANGED chainVars
    <3>1. made' = made /\ holder' = holder /\ issued' = issued
      BY <2>5, Zenon DEF chainVars
    <3> QED
      BY <2>1, <2>4, <2>5, <3>1, <1>ExecSendsInv, Zenon
  <2>6. CASE /\ conn.async = "busy"
             /\ conn.unsent # Nil
             /\ server' = Deliver(conn.unsent)
             /\ conn' = [conn EXCEPT !.unsent = Nil]
             /\ UNCHANGED <<made, holder, call>>
             /\ UNCHANGED chainVars
    <3>1. made' = made /\ holder' = holder /\ issued' = issued /\ call' = call /\ call' \in Calls
      BY <2>3, <2>6, Zenon DEF chainVars
    <3>2. LinkInv' /\ conn'.unsent = Nil /\ server'.todo \in {conn.unsent, Nil} /\ conn'.status = conn.status
      BY <2>6, <3>1, FlushLink, Zenon DEF ExecutorInv
    <3>3. server'.todo \in {server.todo, conn.unsent, Nil} /\ conn'.unsent \in {conn.unsent, Nil}
      BY <3>2, Zenon
    <3> QED
      BY <2>1, <2>4, <3>1, <3>2, <3>3, <1>DiscardGoesOn, Zenon
  <2>7. CASE /\ conn.async = "copy"
             /\ server' = IF server.up
                          THEN [server EXCEPT !.todo = Nil,
                                  !.wire = @ \o <<ResultMsg(Fails(server.todo, <<"57", "014">>)), Ready>>]
                          ELSE server
             /\ conn' = [conn EXCEPT !.async = "busy"]
             /\ UNCHANGED <<made, holder, call>>
             /\ UNCHANGED chainVars
    <3>1. made' = made /\ holder' = holder /\ issued' = issued /\ call' = call /\ call' \in Calls
      BY <2>3, <2>7, Zenon DEF chainVars
    <3>2. LinkInv' /\ conn'.unsent = conn.unsent /\ server'.todo = Nil /\ conn'.status = conn.status
      BY <2>7, <3>1, <1>CopyEndLink, Zenon DEF ExecutorInv
    <3>3. server'.todo \in {server.todo, conn.unsent, Nil} /\ conn'.unsent \in {conn.unsent, Nil}
      BY <3>2, Zenon
    <3> QED
      BY <2>1, <2>4, <3>1, <3>2, <3>3, <1>DiscardGoesOn, Zenon
  <2>8. ASSUME NEW r, PQgetResult(r), r = Lost, Executed(Null)
        PROVE  ExecutorInv'
    <3>1. CASE call \in Cleanups
      <4>1. call' = NoCall
        BY <2>8, <3>1, CallIs, Zenon DEF Executed
      <4>2. call' \in Calls
        BY <4>1, CallIs, Zenon
      <4>3. LinkInv' /\ made' = made /\ conn.unsent = Nil /\ conn'.unsent = Nil /\ server'.todo = server.todo
        BY <2>8, <4>2, ReadIs, Zenon
      <4>4. server'.todo \in {server.todo, conn.unsent, Nil} /\ conn'.unsent \in {conn.unsent, Nil}
        BY <4>3, Zenon
      <4>5. Null.status # "COMMAND_OK"
        BY DEF Null, Result
      <4> QED
        BY <2>1, <2>8, <3>1, <4>3, <4>4, <4>5, CleanupEnds, Zenon
    <3>2. CASE call \in Executes
      <4>1. call.kind # "cleanup"
        BY <3>2, CallIs
      <4>2. PICK c : extract_connection_error(conn'.status) = ErrorContext(c, NoSqlstate)
        BY ConnectionErrors, Zenon
      <4>3. PICK o : o = failure(Errors, ErrorContext(c, NoSqlstate))
        BY Zenon
      <4>4. Returns(call, o) /\ holder' = holder
        BY <2>8, <4>1, <4>2, <4>3, Zenon DEF Executed
      <4>5. Answers(o, server.todo, conn.unsent)
        <5>1. call.pc \in BeforeSend
          BY <2>1 DEF BeforeSend
        <5>2. NotSent(call.serial, made, server.todo, conn.unsent)
          BY <3>2, <5>1, NowDynamic, Zenon DEF ExecutorInv, Dynamic
        <5>3. PICK n, t, u, sy, l : /\ n = call.serial /\ t = server.todo /\ u = conn.unsent
                                    /\ sy = (call.x \in SyncObjects) /\ l = Len(call.stmts)
          BY Zenon
        <5>4. NotSent(n, made, t, u)
          BY <5>2, <5>3, Zenon
        <5>5. Settled(n, failure(Errors, ErrorContext(c, NoSqlstate)), sy, Own(made, n), l, t, u)
          BY <5>4, NotSentSettles, Zenon
        <5> QED
          BY <4>3, <5>3, <5>5, Zenon DEF Answers
      <4>6. call.pc # "start"
        BY <2>1
      <4> QED
        BY <2>4, <2>8, <3>2, <4>4, <4>5, <4>6, ReadReturns, Zenon
    <3> QED
      BY <2>2, <3>1, <3>2, Zenon
  <2>9. ASSUME NEW r, PQgetResult(r), r # Lost, UNCHANGED <<holder, call>>, UNCHANGED chainVars
        PROVE  ExecutorInv'
    <3>1. holder' = holder /\ issued' = issued /\ call' = call /\ call' \in Calls
      BY <2>3, <2>9, Zenon DEF chainVars
    <3>2. /\ LinkInv' /\ made' = made /\ conn.unsent = Nil /\ conn'.unsent = Nil /\ server'.todo = server.todo
          /\ FindsEnd(r) \/ \E n : Takes(n, r)
      BY <2>9, <3>1, ReadIs, Zenon
    <3>3. conn'.status = conn.status
      BY <2>9, <3>2, Zenon DEF FindsEnd, Takes
    <3>4. server'.todo \in {server.todo, conn.unsent, Nil} /\ conn'.unsent \in {conn.unsent, Nil}
      BY <3>2, Zenon
    <3> QED
      BY <2>1, <2>4, <3>1, <3>2, <3>3, <3>4, <1>DiscardGoesOn, Zenon
  <2>10. CASE \E r \in Results :
                 /\ PQgetResult(r)
                 /\ IF r = Lost THEN Executed(Null)
                    ELSE UNCHANGED <<holder, call>> /\ UNCHANGED chainVars
    BY <2>8, <2>9, <2>10, Zenon
  <2> QED
    BY <2>5, <2>6, <2>7, <2>10, Zenon DEF Discard

<1> QED
  BY <1>DiscardInv, Zenon

-----------------------------------------------------------------------------
(* The end of a call *)

IsCode(c) == c.category \in {"client", "server", "fatal"}

Drained(c, r) == [c EXCEPT !.pc = "drain", !.result = r]

(* A call reads its results and returns. *)
LEMMA ReadInv ==
    ExecutorInv /\ (Exec \/ Collect \/ Drain) => ExecutorInv'
<1>CodesAreCodes.
    \A n : IsCode(Server(n)) /\ IsCode(Client(n)) /\ IsCode(Fatal(n))
  BY DEF IsCode, Server, Client, Fatal

<1>ClassesAreCodes.
    ASSUME NEW rest
    PROVE  /\ IsCode(Class08(rest)) /\ IsCode(Class22(rest)) /\ IsCode(Class23(rest))
           /\ IsCode(Class25(rest)) /\ IsCode(Class40(rest)) /\ IsCode(Class42(rest))
           /\ IsCode(Class53(rest)) /\ IsCode(Class54(rest)) /\ IsCode(Class57(rest))
           /\ IsCode(ClassP0(rest))
  <2> USE <1>ClassesAreCodes
  <2>1. IsCode(Class08(rest)) /\ IsCode(Class22(rest)) /\ IsCode(Class23(rest))
    BY <1>CodesAreCodes DEF Class08, Class22, Class23
  <2>2. IsCode(Class25(rest)) /\ IsCode(Class40(rest)) /\ IsCode(Class42(rest))
    BY <1>CodesAreCodes DEF Class25, Class40, Class42
  <2>3. IsCode(Class53(rest)) /\ IsCode(Class54(rest)) /\ IsCode(Class57(rest)) /\ IsCode(ClassP0(rest))
    BY <1>CodesAreCodes DEF Class53, Class54, Class57, ClassP0
  <2> QED
    BY <2>1, <2>2, <2>3

(* map_sqlstate gives a code for every class but that of success. *)
<1>SqlstateHasCode.
    ASSUME NEW s, s[1] # "00"
    PROVE  IsCode(map_sqlstate(s))
  BY <1>SqlstateHasCode, <1>CodesAreCodes, <1>ClassesAreCodes DEF map_sqlstate

<1>CallTakes.
    ASSUME NEW c \in Executes, NEW p \in Places, NEW r \in PgResults \cup {Null}
    PROVE  /\ [c EXCEPT !.pc = p, !.result = r] \in Executes /\ [c EXCEPT !.pc = p, !.result = r].pc = p
           /\ [c EXCEPT !.pc = p, !.result = r].serial = c.serial
           /\ [c EXCEPT !.pc = p, !.result = r].stmts = c.stmts
           /\ [c EXCEPT !.pc = p, !.result = r].x = c.x /\ [c EXCEPT !.pc = p, !.result = r].result = r
           /\ [c EXCEPT !.result = r] \in Executes /\ [c EXCEPT !.result = r].pc = c.pc
           /\ [c EXCEPT !.result = r].serial = c.serial /\ [c EXCEPT !.result = r].stmts = c.stmts
           /\ [c EXCEPT !.result = r].x = c.x /\ [c EXCEPT !.result = r].result = r
  BY <1>CallTakes, Zenon DEF Executes, Places

<1>CallDrains.
    ASSUME NEW c \in Executes, NEW r \in PgResults \cup {Null}
    PROVE  /\ Drained(c, r) \in Executes /\ Drained(c, r).pc = "drain" /\ Drained(c, r).serial = c.serial
           /\ Drained(c, r).stmts = c.stmts /\ Drained(c, r).x = c.x /\ Drained(c, r).result = r
  BY <1>CallDrains, Zenon DEF Executes, Drained

<1>ProcessResult.
    ASSUME NEW r \in PgResults, r.status = "FATAL_ERROR" => r.sqlstate \in Sqlstates \cup {NoSqlstate}
    PROVE  /\ is_success_status(r.status) => process_result(r) = success(Errors, r)
           /\ ~is_success_status(r.status) =>
                 /\ r.status = "FATAL_ERROR"
                 /\ \E c : /\ process_result(r) = failure(Errors, ErrorContext(c, r.sqlstate))
                           /\ r.sqlstate = NoSqlstate => is_retryable(c)
  <2> USE <1>ProcessResult
  <2>1. CASE is_success_status(r.status)
    BY <2>1, Zenon DEF process_result, extract_error, extract_error_code
  <2>2. CASE ~is_success_status(r.status)
    <3>1. r.status = "FATAL_ERROR"
      BY <2>2 DEF PgResults, is_success_status
    <3>2. PICK c : c = extract_error_code(r)
      BY Zenon
    <3>3. IsCode(c) /\ (r.sqlstate = NoSqlstate => is_retryable(c))
      <4>1. CASE r.sqlstate = NoSqlstate
        <5>1. c = Server("RuntimeError")
          BY <2>2, <3>1, <3>2, <4>1 DEF extract_error_code, map_exec_status
        <5> QED
          BY <5>1, <1>CodesAreCodes, RuntimeErrorRetryable, Zenon
      <4>2. CASE r.sqlstate # NoSqlstate
        <5>1. c = map_sqlstate(r.sqlstate)
          BY <2>2, <3>2, <4>2, Zenon DEF extract_error_code
        <5>2. r.sqlstate[1] # "00"
          BY <3>1, <4>2, SqlstatesAssumption, Zenon
        <5> QED
          BY <4>2, <5>1, <5>2, <1>SqlstateHasCode, Zenon
      <4> QED
        BY <4>1, <4>2, Zenon
    <3>4. c # NoCode
      BY <3>3 DEF IsCode, NoCode
    <3>5. extract_error(r) = ErrorContext(c, r.sqlstate) /\ extract_error(r) # NoError
      <4>1. extract_error(r) = ErrorContext(c, r.sqlstate)
        BY <3>2, <3>4, Zenon DEF extract_error
      <4>2. ErrorContext(c, r.sqlstate) # NoError
        BY DEF ErrorContext, NoError
      <4> QED
        BY <4>1, <4>2, Zenon
    <3>6. process_result(r) = failure(Errors, ErrorContext(c, r.sqlstate))
      BY <3>5, Zenon DEF process_result
    <3> QED
      BY <2>2, <3>1, <3>3, <3>6, Zenon
  <2> QED
    BY <2>1, <2>2, Zenon

(* The results of call n. *)
<1>OwnIs.
    ASSUME NEW mk, NEW len, NEW texts, NEW todo, NEW unsent, Numbered(mk, len, texts, todo, unsent),
           NEW n, NEW r \in Own(mk, n)
    PROVE  /\ r \in PgResults /\ r.serial = n /\ r.stmt \in 1 .. Len(texts[n])
           /\ r.status = "FATAL_ERROR" => r.sqlstate \in Sqlstates
           /\ r.status \in {"TUPLES_OK", "COMMAND_OK", "COPY_IN", "FATAL_ERROR"}
           /\ \A s \in Own(mk, n) : /\ r.stmt = s.stmt => r = s
                                    /\ Final(r) => s.stmt <= r.stmt
  <2> USE <1>OwnIs
  <2>1. r \in mk /\ r.serial = n /\ r \in PgResults
    BY Zenon DEF Own, Numbered
  <2>2. r.status \in {"TUPLES_OK", "COMMAND_OK", "COPY_IN", "FATAL_ERROR"}
    BY <2>1 DEF PgResults
  <2>3. \A s \in Own(mk, n) : (r.stmt = s.stmt => r = s) /\ (Final(r) => s.stmt <= r.stmt)
    BY <2>1, Zenon DEF Own, Numbered
  <2> QED
    BY <2>1, <2>2, <2>3, Zenon DEF Numbered

(* A result of the call makes an outcome that is true of it ... *)
<1>ResultSettles.
    ASSUME NEW mk, NEW l, NEW texts, NEW todo0, NEW unsent0, Numbered(mk, l, texts, todo0, unsent0),
           NEW n, n # 0, NEW r \in Own(mk, n), NEW len, len = Len(texts[n]), NEW todo, NEW unsent, NEW sync,
           n # unsent.serial, r.status = "FATAL_ERROR" => n # todo.serial,
           sync => /\ \A s \in Own(mk, n) : s.status = "FATAL_ERROR" => s = r
                   /\ r.status = "FATAL_ERROR" \/ r.stmt = len \/ r.status = "COPY_IN"
                   /\ n = todo.serial => todo.next > Len(todo.stmts)
    PROVE  Settled(n, process_result(r), sync, Own(mk, n), len, todo, unsent)
  <2> USE <1>ResultSettles
  <2>1. /\ r \in PgResults /\ r.serial = n /\ r.stmt \in 1 .. len
        /\ r.status = "FATAL_ERROR" => r.sqlstate \in Sqlstates
        /\ r.status \in {"TUPLES_OK", "COMMAND_OK", "COPY_IN", "FATAL_ERROR"}
    BY <1>OwnIs, Zenon
  <2>2. \A s \in Own(mk, n) : /\ r.stmt = s.stmt => r = s
                              /\ Final(r) => s.stmt <= r.stmt
                              /\ s.stmt \in 1 .. len
                              /\ s.status \in {"TUPLES_OK", "COMMAND_OK", "COPY_IN", "FATAL_ERROR"}
    <3> SUFFICES ASSUME NEW s \in Own(mk, n)
                 PROVE  /\ r.stmt = s.stmt => r = s
                        /\ Final(r) => s.stmt <= r.stmt
                        /\ s.stmt \in 1 .. len
                        /\ s.status \in {"TUPLES_OK", "COMMAND_OK", "COPY_IN", "FATAL_ERROR"}
      BY Zenon
    <3>1. s.stmt \in 1 .. len /\ s.status \in {"TUPLES_OK", "COMMAND_OK", "COPY_IN", "FATAL_ERROR"}
      BY <1>OwnIs, Zenon
    <3>2. (r.stmt = s.stmt => r = s) /\ (Final(r) => s.stmt <= r.stmt)
      BY <1>OwnIs, Zenon
    <3> QED
      BY <3>1, <3>2, Zenon
  <2>3. CASE is_success_status(r.status)
    <3>1. process_result(r) = success(Errors, r) /\ r.status # "FATAL_ERROR"
      <4>1. r.status # "FATAL_ERROR"
        BY <2>3 DEF is_success_status
      <4> QED
        BY <2>1, <2>3, <4>1, <1>ProcessResult, Zenon
    <3>2. sync => \A s \in Own(mk, n) : is_success_status(s.status)
      BY <2>2, <3>1 DEF is_success_status
    <3> QED
      BY <2>3, <3>1, <3>2, OutcomeIs, Zenon DEF Settled
  <2>4. CASE ~is_success_status(r.status)
    <3>1. /\ r.status = "FATAL_ERROR"
          /\ \E c : process_result(r) = failure(Errors, ErrorContext(c, r.sqlstate))
      BY <2>1, <2>4, <1>ProcessResult, Zenon
    <3>2. PICK c : process_result(r) = failure(Errors, ErrorContext(c, r.sqlstate))
      BY <3>1, Zenon
    <3>3. \A s \in Own(mk, n) : s.stmt = len => ~is_success_status(s.status)
      <4> SUFFICES ASSUME NEW s \in Own(mk, n), s.stmt = len PROVE s = r
        BY <2>4, Zenon
      <4>1. s.stmt <= r.stmt
        BY <2>2, <3>1 DEF Final
      <4>2. s.stmt = r.stmt
        BY <2>1, <2>2, <4>1
      <4> QED
        BY <2>2, <4>2, Zenon
    <3>4. PICK out : out = process_result(r)
      BY Zenon
    <3>5. ~is_success(out) /\ out.error.sqlstate = r.sqlstate
      <4>1. PICK q : q = r.sqlstate
        BY Zenon
      <4>2. /\ ~is_success(failure(Errors, ErrorContext(c, q)))
            /\ failure(Errors, ErrorContext(c, q)).error.sqlstate = q
        BY OutcomeIs
      <4> QED
        BY <3>2, <3>4, <4>1, <4>2, Zenon
    <3>6. Settled(n, out, sync, Own(mk, n), len, todo, unsent)
      BY <3>1, <3>3, <3>5, Zenon DEF Settled
    <3> QED
      BY <3>4, <3>6, Zenon
  <2> QED
    BY <2>3, <2>4, Zenon

<1>RestIs.
    ASSUME NEW in \in Seq(Messages), NEW in2 \in Seq(Messages), NEW n \in 1 .. Len(in), IsRest(in2, in, n)
    PROVE  /\ \A i \in 1 .. Len(in2) : n + i \in 1 .. Len(in) /\ n < n + i /\ in2[i] = in[n + i]
           /\ \A i, j \in 1 .. Len(in2) : i < j => n + i < n + j
           /\ \A k \in 1 .. Len(in) : k \in 1 .. n - 1 \/ k = n \/ \E i \in 1 .. Len(in2) : k = n + i
  <2> USE <1>RestIs
  <2>1. PICK l, l2 : l = Len(in) /\ l2 = Len(in2) /\ l \in Nat /\ l2 \in Nat
    BY SeqIsFunction, Zenon
  <2>2. l2 = l - n /\ \A i \in 1 .. l - n : in2[i] = in[n + i]
    BY <2>1, Zenon DEF IsRest
  <2>3. n \in 1 .. l
    BY <2>1, Zenon
  <2>4. ASSUME NEW i \in 1 .. l2 PROVE n + i \in 1 .. l /\ n < n + i /\ in2[i] = in[n + i]
    <3>1. n + i \in 1 .. l /\ n < n + i
      BY <2>1, <2>2, <2>3
    <3> QED
      BY <2>2, <3>1, Zenon
  <2>5. ASSUME NEW i \in 1 .. l2, NEW j \in 1 .. l2, i < j PROVE n + i < n + j
    BY <2>1, <2>3, <2>5
  <2>6. ASSUME NEW k \in 1 .. l, k \notin 1 .. n - 1, k # n PROVE \E i \in 1 .. l2 : k = n + i
    <3>1. k - n \in 1 .. l2 /\ k = n + (k - n)
      BY <2>1, <2>2, <2>3, <2>6
    <3> QED
      BY <3>1, Zenon
  <2> QED
    BY <2>1, <2>4, <2>5, <2>6, Zenon

<1>CurrentTakes.
    ASSUME NEW serial, NEW mk, NEW todo, NEW unsent, NEW in \in Seq(Messages), NEW in2 \in Seq(Messages),
           NEW n \in 1 .. Len(in), IsRest(in2, in, n), Current(serial, mk, todo, unsent, in)
    PROVE  /\ Current(serial, mk, todo, unsent, in2)
           /\ in[n].k = "result" => in[n].r \in Own(mk, serial)
  <2> USE <1>CurrentTakes
  <2>1. \A i \in 1 .. Len(in2) : n + i \in 1 .. Len(in) /\ in2[i] = in[n + i]
    BY <1>RestIs, Zenon
  <2> QED
    BY <2>1, Zenon DEF Current

<1>CompleteTakes.
    ASSUME NEW own, own \subseteq PgResults, NEW result \in PgResults \cup {Null}, NEW len, NEW up,
           NEW in \in Seq(Messages), NEW in2 \in Seq(Messages),
           NEW n \in 1 .. Len(in), IsRest(in2, in, n), Complete(own, result, len, up, in),
           \A m \in 1 .. n - 1 : in[m] = Part, in[n].k = "result", in[n].r \in own
    PROVE  Complete(own, in[n].r, len, up, in2)
  <2> USE <1>CompleteTakes
  <2>1. /\ \A i \in 1 .. Len(in2) : n + i \in 1 .. Len(in) /\ n < n + i /\ in2[i] = in[n + i]
        /\ \A i, j \in 1 .. Len(in2) : i < j => n + i < n + j
        /\ \A k \in 1 .. Len(in) : k \in 1 .. n - 1 \/ k = n \/ \E i \in 1 .. Len(in2) : k = n + i
    BY <1>RestIs, Zenon
  <2>2. PICK s : s = in[n].r
    BY Zenon
  <2>3. \A r \in PgResults \cup {Null} : r.stmt \in Nat
    BY DEF PgResults, Null, Result
  <2>4. s \in own /\ s.stmt \in Nat /\ result.stmt \in Nat /\ result.stmt < s.stmt
    <3>1. result.stmt < s.stmt
      BY <2>2, Zenon DEF Complete
    <3> QED
      BY <2>2, <2>3, <3>1, Zenon
  <2>5. ASSUME NEW i \in 1 .. Len(in2), in2[i].k = "result" PROVE s.stmt < in2[i].r.stmt
    BY <2>1, <2>2, <2>5, Zenon DEF Complete
  <2>6. ASSUME NEW i \in 1 .. Len(in2), NEW j \in 1 .. Len(in2), i < j, in2[i].k = "result", in2[j].k = "result"
        PROVE  in2[i].r.stmt < in2[j].r.stmt
    BY <2>1, <2>6, ZenonT(40) DEF Complete
  <2>7. ASSUME NEW r \in own
        PROVE  \/ r.stmt <= s.stmt
               \/ \E i \in 1 .. Len(in2) : in2[i] = ResultMsg(r)
               \/ ~up /\ \A i \in 1 .. Len(in2) : in2[i] # Ready
    <3>0. r.stmt \in Nat
      BY <2>3, Zenon
    <3>1. CASE r.stmt <= result.stmt
      BY <2>4, <3>0, <3>1
    <3>2. CASE \E k \in 1 .. Len(in) : in[k] = ResultMsg(r)
      <4>1. PICK k \in 1 .. Len(in) : in[k] = ResultMsg(r)
        BY <3>2, Zenon
      <4>2. CASE k \in 1 .. n - 1
        <5>1. ResultMsg(r) = Part
          BY <4>1, <4>2, Zenon
        <5> QED
          BY <5>1 DEF ResultMsg, Part
      <4>3. CASE k = n
        <5>1. s = ResultMsg(r).r
          BY <2>2, <4>1, <4>3, Zenon
        <5>2. s = r
          BY <5>1 DEF ResultMsg
        <5> QED
          BY <2>4, <5>2
      <4>4. CASE \E i \in 1 .. Len(in2) : k = n + i
        BY <2>1, <4>1, <4>4, Zenon
      <4> QED
        BY <2>1, <4>2, <4>3, <4>4, Zenon
    <3>3. CASE ~up /\ \A k \in 1 .. Len(in) : in[k] # Ready
      BY <2>1, <3>3, Zenon
    <3> QED
      BY <3>1, <3>2, <3>3, Zenon DEF Complete
  <2>8. ASSUME NEW i \in 1 .. Len(in2), in2[i] = Ready PROVE \E r \in own : r.status = "FATAL_ERROR" \/ r.stmt = len
    BY <2>1, <2>8, Zenon DEF Complete
  <2>9. Complete(own, s, len, up, in2)
    BY <2>4, <2>5, <2>6, <2>7, <2>8, Zenon DEF Complete
  <2> QED
    BY <2>2, <2>9, Zenon

(* At the end of the query the last result is in hand. *)
<1>CompleteEnd.
    ASSUME NEW mk, NEW l, NEW texts, NEW todo, NEW unsent, Numbered(mk, l, texts, todo, unsent),
           NEW serial, NEW result, NEW up, NEW in \in Seq(Messages), NEW n \in 1 .. Len(in),
           Complete(Own(mk, serial), result, Len(texts[serial]), up, in),
           \A m \in 1 .. n - 1 : in[m] = Part, in[n] = Ready, n = Len(in)
    PROVE  /\ result \in Own(mk, serial)
           /\ result.status = "FATAL_ERROR" \/ result.stmt = Len(texts[serial])
           /\ \A s \in Own(mk, serial) : s.status = "FATAL_ERROR" => s = result
  <2> USE <1>CompleteEnd
  <2>1. PICK own, len : own = Own(mk, serial) /\ len = Len(texts[serial])
    BY Zenon
  <2>2. ASSUME NEW r \in own
        PROVE  /\ r.stmt \in 1 .. len
               /\ r.status = "FATAL_ERROR" => Final(r)
               /\ \A s \in own : (r.stmt = s.stmt => r = s) /\ (Final(r) => s.stmt <= r.stmt)
    <3>1. /\ r.stmt \in 1 .. len
          /\ \A s \in own : (r.stmt = s.stmt => r = s) /\ (Final(r) => s.stmt <= r.stmt)
      BY <2>1, <1>OwnIs, Zenon
    <3> QED
      BY <3>1, Zenon DEF Final
  <2>3. ASSUME NEW r \in own PROVE r.stmt <= result.stmt
    <3>1. ASSUME NEW k \in 1 .. Len(in), in[k] = ResultMsg(r) PROVE FALSE
      <4>1. k \in 1 .. n - 1 \/ k = n
        BY SeqIsFunction
      <4>2. ResultMsg(r) = Part \/ ResultMsg(r) = Ready
        BY <3>1, <4>1, Zenon
      <4> QED
        BY <4>2 DEF ResultMsg, Part, Ready
    <3> QED
      BY <2>1, <3>1, Zenon DEF Complete
  <2>4. PICK r \in own : r.status = "FATAL_ERROR" \/ r.stmt = len
    BY <2>1, Zenon DEF Complete
  <2>5. result \in own
    <3>1. result = Null \/ result \in own
      BY <2>1, Zenon DEF Complete
    <3>2. CASE result = Null
      <4>1. result.stmt = 0
        BY <3>2 DEF Null, Result
      <4>2. r.stmt \in 1 .. len /\ r.stmt <= result.stmt
        BY <2>2, <2>3, Zenon
      <4> QED
        BY <4>1, <4>2
    <3> QED
      BY <3>1, <3>2, Zenon
  <2>6. ASSUME NEW s \in own, s.status = "FATAL_ERROR" PROVE s = result
    <3>1. s.stmt <= result.stmt /\ result.stmt <= s.stmt
      BY <2>2, <2>3, <2>5, <2>6, Zenon
    <3>2. s.stmt \in 1 .. len /\ result.stmt \in 1 .. len
      BY <2>2, <2>5, Zenon
    <3>3. s.stmt = result.stmt
      BY <3>1, <3>2
    <3> QED
      BY <2>2, <2>5, <3>3, Zenon
  <2>7. result.status = "FATAL_ERROR" \/ result.stmt = len
    <3>1. CASE r.status = "FATAL_ERROR"
      BY <2>6, <3>1, Zenon
    <3>2. CASE r.stmt = len
      <4>1. result.stmt \in 1 .. len /\ r.stmt <= result.stmt /\ r.stmt \in 1 .. len
        BY <2>2, <2>3, <2>5, Zenon
      <4>2. result.stmt = len
        BY <3>2, <4>1
      <4> QED
        BY <4>2, Zenon
    <3> QED
      BY <2>4, <3>1, <3>2, Zenon
  <2> QED
    BY <2>1, <2>5, <2>6, <2>7, Zenon

<1>TakesIs.
    ASSUME LinkInv, NEW r, NEW n, Takes(n, r)
    PROVE  /\ n \in 1 .. Len(Input) /\ (\A m \in 1 .. n - 1 : Input[m] = Part) /\ IsRest(Input', Input, n)
           /\ r = Null => Input[n] = Ready /\ n = Len(Input) /\ server.todo = Nil
           /\ r # Null => Input[n].k = "result" /\ Input[n].r = r /\ r \in PgResults
           /\ r.status = "COPY_IN" => n = Len(Input) /\ (server.up => CopyWaits(server.todo))
  <2> USE <1>TakesIs
  <2>1. /\ n \in 1 .. Len(Input) /\ (\A m \in 1 .. n - 1 : Input[m] = Part) /\ IsRest(Input', Input, n)
        /\ Input[n] # Part /\ r = IF Input[n] = Ready THEN Null ELSE Input[n].r
    BY Zenon DEF Takes
  <2>2. /\ Input[n] = Ready => n = Len(Input) /\ server.todo = Nil
        /\ IsCopy(Input[n]) => n = Len(Input) /\ (server.up => CopyWaits(server.todo))
    BY <2>1, Zenon DEF LinkInv, Shape
  <2>3. Input[n] \in Messages
    <3>1. PICK s : s = Input /\ s \in Seq(Messages)
      BY InputTypes, Zenon
    <3>2. s \in [1 .. Len(s) -> Messages]
      BY <3>1, SeqIsFunction, Zenon
    <3> QED
      BY <2>1, <3>1, <3>2, Zenon
  <2>4. Input[n] # Ready => Input[n].k = "result" /\ Input[n].r \in PgResults
    BY <2>1, <2>3, MessageKinds
  <2>5. CASE Input[n] = Ready
    <3>1. r = Null /\ Null.status # "COPY_IN"
      BY <2>1, <2>5 DEF Null, Result
    <3> QED
      BY <2>1, <2>2, <2>5, <3>1, Zenon
  <2>6. CASE Input[n] # Ready
    <3>1. r = Input[n].r /\ r \in PgResults /\ Input[n].k = "result"
      BY <2>1, <2>4, <2>6, Zenon
    <3>2. r # Null
      BY <3>1, NullAndLost, Zenon
    <3>3. r.status = "COPY_IN" => IsCopy(Input[n])
      BY <3>1, Zenon DEF IsCopy
    <3> QED
      BY <2>1, <2>2, <3>1, <3>2, <3>3, Zenon
  <2> QED
    BY <2>5, <2>6, Zenon

<1>ReadGoesOn.
    ASSUME ExecutorInv, call \in Executes, call.pc # "start", NEW r, PQgetResult(r), issued' = issued, UNCHANGED ownVars,
           call' \in Executes, call'.serial = call.serial, call'.stmts = call.stmts, call'.x = call.x,
           call'.pc \in {"discard", "exec"} => call.x \in SyncObjects,
           call'.pc \in {"flush", "write", "read", "collect", "drain"} => call.x \in AsyncObjects,
           call'.pc \notin {"exec", "drain"} => call'.result = Null, Dynamic(call)'
    PROVE  ExecutorInv'
  <2> USE <1>ReadGoesOn
  <2>1. call' \in Calls /\ call' \notin Cleanups
    BY CallIs, Zenon DEF Calls
  <2>2. LinkInv' /\ made' = made /\ conn.unsent = Nil /\ conn'.unsent = Nil /\ server'.todo = server.todo
    BY <2>1, ReadIs, Zenon
  <2>3. HolderInv'
    BY <2>1, HolderBusy, Zenon DEF ExecutorInv
  <2>4. server'.todo \in {server.todo, conn.unsent, Nil} /\ conn'.unsent \in {conn.unsent, Nil}
    BY <2>2, Zenon
  <2>5. MadeInv' /\ DoneInv'
    BY <2>2, <2>4, FrameInv, Zenon DEF ExecutorInv
  <2>6. CallInv'
    BY CallMoved, Zenon DEF ExecutorInv
  <2> QED
    BY <2>2, <2>3, <2>5, <2>6, Zenon DEF ExecutorInv

(* What a call finds that has sent its query. *)
<1>ReadOwn.
    ASSUME ExecutorInv, call \in Executes, call.pc \notin BeforeSend, NEW r, PQgetResult(r), call' \in Calls
    PROVE  /\ Current(call.serial, made, server.todo, Nil, Input')
           /\ (r = Lost /\ FindsEnd(r)) \/ r = Null \/ r \in Own(made, call.serial)
  <2> USE <1>ReadOwn
  <2>1. /\ conn.unsent = Nil /\ Input \in Seq(Messages) /\ Input' \in Seq(Messages)
        /\ FindsEnd(r) \/ \E n : Takes(n, r)
    BY ReadIs, Zenon
  <2>2. Current(call.serial, made, server.todo, Nil, Input)
    BY <2>1, NowDynamic, Zenon DEF ExecutorInv, Dynamic
  <2>3. CASE FindsEnd(r)
    <3>1. r = Lost /\ Input' = <<Ready>>
      BY <2>3, Zenon DEF FindsEnd
    <3>2. server.todo # Nil => server.todo.serial = call.serial
      BY <2>2, Zenon DEF Current
    <3>3. Current(call.serial, made, server.todo, Nil, <<Ready>>)
      BY <3>2, CurrentEnd, Zenon
    <3> QED
      BY <2>3, <3>1, <3>3, Zenon
  <2>4. ASSUME NEW n, Takes(n, r)
        PROVE  Current(call.serial, made, server.todo, Nil, Input') /\ (r = Null \/ r \in Own(made, call.serial))
    <3>1. /\ n \in 1 .. Len(Input) /\ IsRest(Input', Input, n)
          /\ r # Null => Input[n].k = "result" /\ Input[n].r = r
      BY <2>4, <1>TakesIs, Zenon DEF ExecutorInv
    <3>2. PICK in, in2, t : in = Input /\ in2 = Input' /\ t = server.todo
      BY Zenon
    <3>3. /\ n \in 1 .. Len(in) /\ IsRest(in2, in, n) /\ in \in Seq(Messages) /\ in2 \in Seq(Messages)
          /\ Current(call.serial, made, t, Nil, in)
      BY <2>1, <2>2, <3>1, <3>2, Zenon
    <3>4. /\ Current(call.serial, made, t, Nil, in2)
          /\ in[n].k = "result" => in[n].r \in Own(made, call.serial)
      BY <3>3, <1>CurrentTakes, Zenon
    <3> QED
      BY <3>1, <3>2, <3>4, Zenon
  <2> QED
    BY <2>1, <2>3, <2>4, Zenon

<1>LostAnswers.
    ASSUME NEW todo, NEW unsent
    PROVE  Answers(process_result(Lost), todo, unsent)
  <2> USE <1>LostAnswers
  <2>1. Lost \in PgResults /\ Lost.status = "FATAL_ERROR" /\ Lost.sqlstate = NoSqlstate
    BY NullAndLost DEF Lost, Result
  <2>2. ~is_success_status(Lost.status)
    BY <2>1 DEF is_success_status
  <2>3. PICK c : process_result(Lost) = failure(Errors, ErrorContext(c, Lost.sqlstate))
                 /\ (Lost.sqlstate = NoSqlstate => is_retryable(c))
    BY <2>1, <2>2, <1>ProcessResult, Zenon
  <2>4. process_result(Lost) = failure(Errors, ErrorContext(c, NoSqlstate)) /\ is_retryable(c)
    BY <2>1, <2>3, Zenon
  <2> QED
    BY <2>4, RetryableSettles, Zenon DEF Answers

(* The facts about the call in progress that settle it. *)
<1>CallFacts.
    ASSUME ExecutorInv, call \in Executes
    PROVE  /\ Numbered(made, Len(issued), Texts, server.todo, conn.unsent)
           /\ call.stmts = Texts[call.serial] /\ call.serial # 0 /\ Nil.serial = 0
           /\ Own(made, call.serial) \subseteq PgResults
           /\ \A r \in Own(made, call.serial) : r.serial = call.serial /\ r # Lost /\ r # Null
  <2> USE <1>CallFacts
  <2>1. Numbered(made, Len(issued), Texts, server.todo, conn.unsent)
    BY Zenon DEF ExecutorInv, MadeInv
  <2>2. call.stmts = Texts[call.serial] /\ call.serial # 0 /\ Nil.serial = 0
    BY SerialIs, FlightIs, Zenon DEF ExecutorInv, CallInv
  <2>3. Own(made, call.serial) \subseteq PgResults /\ \A r \in Own(made, call.serial) : r.serial = call.serial
    BY <2>1, Zenon DEF Own, Numbered
  <2>4. Lost.serial = 0
    BY DEF Lost, Result
  <2> QED
    BY <2>1, <2>2, <2>3, <2>4, NullAndLost, Zenon

(* The synchronous executor reads to the end. *)
<1>EndAnswers.
    ASSUME ExecutorInv, call \in Executes, call.pc \in Reading, NEW n, Takes(n, Null), conn.unsent = Nil
    PROVE  call.result \in Own(made, call.serial) /\ Answers(process_result(call.result), server.todo, conn.unsent)
  <2> USE <1>EndAnswers
  <2>1. /\ n \in 1 .. Len(Input) /\ (\A m \in 1 .. n - 1 : Input[m] = Part) /\ Input[n] = Ready /\ n = Len(Input)
        /\ server.todo = Nil
    BY <1>TakesIs, Zenon DEF ExecutorInv
  <2>2. /\ Numbered(made, Len(issued), Texts, server.todo, conn.unsent)
        /\ call.stmts = Texts[call.serial] /\ call.serial # 0 /\ Nil.serial = 0
    BY <1>CallFacts, Zenon
  <2>3. PICK l, tx, t, u, s, res, up, in :
            /\ l = Len(issued) /\ tx = Texts /\ t = server.todo /\ u = conn.unsent
            /\ s = call.serial /\ res = call.result /\ up = server.up /\ in = Input
    BY Zenon
  <2>4. in \in Seq(Messages)
    BY <2>3, InputTypes, Zenon DEF ExecutorInv
  <2>5. Complete(Own(made, s), res, Len(tx[s]), up, in)
    BY <2>2, <2>3, NowDynamic, Zenon DEF ExecutorInv, Dynamic
  <2>6. /\ Numbered(made, l, tx, t, u) /\ n \in 1 .. Len(in) /\ (\A m \in 1 .. n - 1 : in[m] = Part)
        /\ in[n] = Ready /\ n = Len(in)
    BY <2>1, <2>2, <2>3, Zenon
  <2>7. /\ res \in Own(made, s)
        /\ res.status = "FATAL_ERROR" \/ res.stmt = Len(tx[s])
        /\ \A v \in Own(made, s) : v.status = "FATAL_ERROR" => v = res
    BY <2>4, <2>5, <2>6, <1>CompleteEnd, Zenon
  <2>8. PICK len, sy : len = Len(tx[s]) /\ sy = (call.x \in SyncObjects)
    BY Zenon
  <2>9. s # 0 /\ s # t.serial /\ s # u.serial
    BY <2>1, <2>2, <2>3, Zenon
  <2>10. Settled(s, process_result(res), sy, Own(made, s), len, t, u)
    <3>1. sy => /\ \A v \in Own(made, s) : v.status = "FATAL_ERROR" => v = res
                /\ res.status = "FATAL_ERROR" \/ res.stmt = len \/ res.status = "COPY_IN"
                /\ s = t.serial => t.next > Len(t.stmts)
      BY <2>7, <2>8, <2>9, Zenon
    <3> QED
      BY <2>6, <2>7, <2>8, <2>9, <3>1, <1>ResultSettles, Zenon
  <2> QED
    BY <2>2, <2>3, <2>7, <2>8, <2>10, Zenon DEF Answers

(* A COPY ends PQexec. *)
<1>CopyAnswers.
    ASSUME ExecutorInv, call \in Executes, NEW n, NEW r, Takes(n, r), r.status = "COPY_IN",
           r \in Own(made, call.serial), conn.unsent = Nil
    PROVE  Answers(process_result(r), server.todo, conn.unsent)
  <2> USE <1>CopyAnswers
  <2>1. server.up => CopyWaits(server.todo)
    BY <1>TakesIs, Zenon DEF ExecutorInv
  <2>2. ~server.up => server.todo = Nil
    BY Zenon DEF ExecutorInv, LinkInv, Shape
  <2>3. /\ Numbered(made, Len(issued), Texts, server.todo, conn.unsent)
        /\ call.stmts = Texts[call.serial] /\ call.serial # 0 /\ Nil.serial = 0
    BY <1>CallFacts, Zenon
  <2>4. PICK l, tx, t, u, s : /\ l = Len(issued) /\ tx = Texts /\ t = server.todo /\ u = conn.unsent
                              /\ s = call.serial
    BY Zenon
  <2>5. PICK len, sy : len = Len(tx[s]) /\ sy = (call.x \in SyncObjects)
    BY Zenon
  <2>6. Numbered(made, l, tx, t, u) /\ r \in Own(made, s) /\ s # 0 /\ s # u.serial
    BY <2>3, <2>4, Zenon
  <2>7. s = t.serial => t.next > Len(t.stmts)
    BY <2>1, <2>2, <2>3, <2>4, Zenon DEF CopyWaits
  <2>8. ASSUME NEW v \in Own(made, s), v.status = "FATAL_ERROR" PROVE v = r
    <3>1. Final(r) /\ Final(v)
      BY <2>8 DEF Final
    <3>2. /\ r.stmt \in 1 .. Len(tx[s]) /\ v.stmt <= r.stmt
      BY <2>6, <3>1, <1>OwnIs, Zenon
    <3>3. v.stmt \in 1 .. Len(tx[s]) /\ r.stmt <= v.stmt /\ (v.stmt = r.stmt => v = r)
      <4>1. /\ v.stmt \in 1 .. Len(tx[s])
            /\ \A w \in Own(made, s) : (v.stmt = w.stmt => v = w) /\ (Final(v) => w.stmt <= v.stmt)
        BY <2>6, <1>OwnIs, Zenon
      <4> QED
        BY <2>6, <3>1, <4>1, Zenon
    <3>4. v.stmt = r.stmt
      BY <3>2, <3>3
    <3> QED
      BY <3>3, <3>4, Zenon
  <2>9. r.status # "FATAL_ERROR"
    OBVIOUS
  <2>10. sy => /\ \A v \in Own(made, s) : v.status = "FATAL_ERROR" => v = r
               /\ r.status = "FATAL_ERROR" \/ r.stmt = len \/ r.status = "COPY_IN"
               /\ s = t.serial => t.next > Len(t.stmts)
    BY <2>7, <2>8, Zenon
  <2>11. r.status = "FATAL_ERROR" => s # t.serial
    BY <2>9, Zenon
  <2>12. Settled(s, process_result(r), sy, Own(made, s), len, t, u)
    BY <2>5, <2>6, <2>10, <2>11, <1>ResultSettles, Zenon
  <2> QED
    BY <2>3, <2>4, <2>5, <2>12, Zenon DEF Answers

(* The asynchronous executor has dropped the rest. *)
<1>DrainAnswers.
    ASSUME ExecutorInv, call \in Executes, call.pc = "drain", NEW n, Takes(n, Null), conn.unsent = Nil
    PROVE  Answers(process_result(call.result), server.todo, conn.unsent)
  <2> USE <1>DrainAnswers
  <2>1. CASE call.result = Lost
    BY <2>1, <1>LostAnswers, Zenon
  <2>2. CASE call.result \in Own(made, call.serial)
    <3>1. server.todo = Nil
      BY <1>TakesIs, Zenon DEF ExecutorInv
    <3>2. /\ Numbered(made, Len(issued), Texts, server.todo, conn.unsent)
          /\ call.stmts = Texts[call.serial] /\ call.serial # 0 /\ Nil.serial = 0
      BY <1>CallFacts, Zenon
    <3>3. call.x \notin SyncObjects
      <4>1. call.x \in AsyncObjects
        BY Zenon DEF ExecutorInv, CallInv
      <4> QED
        BY <4>1, ObjectsAssumption
    <3>4. PICK l, tx, t, u, s, r : /\ l = Len(issued) /\ tx = Texts /\ t = server.todo /\ u = conn.unsent
                                   /\ s = call.serial /\ r = call.result
      BY Zenon
    <3>5. PICK len, sy : len = Len(tx[s]) /\ sy = (call.x \in SyncObjects)
      BY Zenon
    <3>6. Numbered(made, l, tx, t, u) /\ r \in Own(made, s) /\ s # 0 /\ s # u.serial /\ s # t.serial /\ ~sy
      BY <2>2, <3>1, <3>2, <3>3, <3>4, <3>5, Zenon
    <3>7. Settled(s, process_result(r), sy, Own(made, s), len, t, u)
      <4>1. sy => /\ \A v \in Own(made, s) : v.status = "FATAL_ERROR" => v = r
                  /\ r.status = "FATAL_ERROR" \/ r.stmt = len \/ r.status = "COPY_IN"
                  /\ s = t.serial => t.next > Len(t.stmts)
        BY <3>6, Zenon
      <4> QED
        BY <3>5, <3>6, <4>1, <1>ResultSettles, Zenon
    <3> QED
      BY <3>2, <3>4, <3>5, <3>7, Zenon DEF Answers
  <2>3. call.result \in Own(made, call.serial) \cup {Lost}
    BY NowDynamic, Zenon DEF ExecutorInv, Dynamic
  <2> QED
    BY <2>1, <2>2, <2>3, Zenon

<1>ExecOfCleanup.
    ASSUME ExecutorInv, call \in Cleanups, Exec
    PROVE  ExecutorInv'
  <2> USE <1>ExecOfCleanup
  <2>1. obj' = obj /\ terminated' = terminated
    BY DEF Exec
  <2>2. PICK r \in Results :
            /\ PQgetResult(r)
            /\ IF r = Null THEN Executed(call.result)
               ELSE IF r = Lost \/ r.status = "COPY_IN" THEN Executed(r)
               ELSE call' = [call EXCEPT !.result = r] /\ UNCHANGED holder /\ UNCHANGED chainVars
    BY Zenon DEF Exec
  <2>3. r # Null => r \in PgResults
    <3>1. PQgetResult(r) /\ conn \in Links /\ server \in Servers
      BY <2>2, Zenon DEF ExecutorInv, LinkInv
    <3>2. r \in PgResults \cup {Null}
      BY <3>1, GetResult, Zenon
    <3> QED
      BY <3>2, Zenon
  <2>4. ASSUME NEW s, Executed(s), s.status = "COMMAND_OK" => r = Null
        PROVE  ExecutorInv'
    <3>1. call' = NoCall
      BY <2>4, CallIs, Zenon DEF Executed
    <3>2. call' \in Calls
      BY <3>1, CallIs, Zenon
    <3>3. /\ LinkInv' /\ made' = made /\ conn.unsent = Nil /\ conn'.unsent = Nil /\ server'.todo = server.todo
          /\ FindsEnd(r) \/ \E n : Takes(n, r)
      BY <2>2, <3>2, ReadIs, Zenon
    <3>4. server'.todo \in {server.todo, conn.unsent, Nil} /\ conn'.unsent \in {conn.unsent, Nil}
      BY <3>3, Zenon
    <3>5. r = Null => conn'.status = conn.status
      <4>1. Lost # Null
        BY NullAndLost, Zenon
      <4> QED
        BY <3>3, <4>1, Zenon DEF FindsEnd, Takes
    <3> QED
      BY <2>1, <2>4, <3>3, <3>4, <3>5, CleanupEnds, Zenon
  <2>5. CASE r = Null
    BY <2>2, <2>4, <2>5, Zenon
  <2>6. CASE r # Null /\ (r = Lost \/ r.status = "COPY_IN")
    <3>1. r.status # "COMMAND_OK"
      <4>1. Lost.status = "FATAL_ERROR"
        BY DEF Lost, Result
      <4> QED
        BY <2>6, <4>1
    <3>2. Executed(r)
      BY <2>2, <2>6, Zenon
    <3> QED
      BY <2>4, <3>1, <3>2, Zenon
  <2>7. CASE r # Null /\ r # Lost /\ r.status # "COPY_IN"
    <3>1. call' = [call EXCEPT !.result = r] /\ holder' = holder /\ UNCHANGED chainVars
      BY <2>2, <2>7, Zenon
    <3>2. call' \in Cleanups
      <4>1. r \in PgResults \cup {Null}
        BY <2>3, <2>7, Zenon
      <4>2. [call EXCEPT !.result = r] \in Cleanups
        BY <4>1, CleanupMoves, Zenon
      <4> QED
        BY <3>1, <4>2, Zenon
    <3>3. call' \in Calls /\ call' \notin Executes /\ issued' = issued /\ UNCHANGED ownVars
      <4>1. call' \in Calls /\ call' \notin Executes
        BY <3>2, CallIs, Zenon DEF Calls
      <4> QED
        BY <2>1, <3>1, <4>1, Zenon DEF chainVars, ownVars
    <3>4. /\ LinkInv' /\ made' = made /\ conn.unsent = Nil /\ conn'.unsent = Nil /\ server'.todo = server.todo
          /\ FindsEnd(r) \/ \E n : Takes(n, r)
      BY <2>2, <3>3, ReadIs, Zenon
    <3>5. conn'.status = conn.status
      BY <2>7, <3>4, Zenon DEF FindsEnd, Takes
    <3>6. HolderInv'
      BY <3>2, <3>3, <3>5, HolderSame, Zenon DEF ExecutorInv
    <3>7. server'.todo \in {server.todo, conn.unsent, Nil} /\ conn'.unsent \in {conn.unsent, Nil}
      BY <3>4, Zenon
    <3>8. MadeInv' /\ DoneInv'
      BY <3>3, <3>4, <3>7, FrameInv, Zenon DEF ExecutorInv
    <3>9. CallInv'
      BY <3>3, Zenon DEF CallInv
    <3> QED
      BY <3>4, <3>6, <3>8, <3>9, Zenon DEF ExecutorInv
  <2> QED
    BY <2>5, <2>6, <2>7, Zenon

(* What is left after a result was taken is complete. *)
<1>TakenComplete.
    ASSUME ExecutorInv, call \in Executes, call.pc \in Reading, NEW n, NEW r, Takes(n, r), r # Null,
           r \in Own(made, call.serial), Input' \in Seq(Messages)
    PROVE  Complete(Own(made, call.serial), r, Len(call.stmts), server.up, Input')
  <2> USE <1>TakenComplete
  <2>1. /\ n \in 1 .. Len(Input) /\ (\A m \in 1 .. n - 1 : Input[m] = Part) /\ IsRest(Input', Input, n)
        /\ Input[n].k = "result" /\ Input[n].r = r
    BY <1>TakesIs, Zenon DEF ExecutorInv
  <2>2. PICK own, res, len, up, in, in2 :
            /\ own = Own(made, call.serial) /\ res = call.result /\ len = Len(call.stmts)
            /\ up = server.up /\ in = Input /\ in2 = Input'
    BY Zenon
  <2>3. own \subseteq PgResults /\ res \in PgResults \cup {Null} /\ in \in Seq(Messages) /\ in2 \in Seq(Messages)
    BY <2>2, <1>CallFacts, SerialIs, InputTypes, Zenon DEF ExecutorInv
  <2>4. Complete(own, res, len, up, in)
    BY <2>2, NowDynamic, Zenon DEF ExecutorInv, Dynamic
  <2>5. /\ n \in 1 .. Len(in) /\ (\A m \in 1 .. n - 1 : in[m] = Part) /\ IsRest(in2, in, n)
        /\ in[n].k = "result" /\ in[n].r \in own
    BY <2>1, <2>2, Zenon
  <2>6. Complete(own, in[n].r, len, up, in2)
    BY <2>3, <2>4, <2>5, <1>CompleteTakes, Zenon
  <2> QED
    BY <2>1, <2>2, <2>6, Zenon

<1>ExecInv.
    ASSUME ExecutorInv, Exec
    PROVE  ExecutorInv'
  <2> USE <1>ExecInv
  <2>1. call.pc = "exec" /\ obj' = obj /\ terminated' = terminated
    BY DEF Exec
  <2>2. holder' = holder => UNCHANGED ownVars
    BY <2>1 DEF ownVars
  <2>3. CASE call \in Cleanups
    BY <2>3, <1>ExecOfCleanup, Zenon
  <2>4. CASE call \in Executes
    <3>1. /\ call.pc # "start" /\ call.pc \notin BeforeSend /\ call.pc \in Reading /\ call.kind # "cleanup"
          /\ call.pc \in Places
      <4>1. call.kind # "cleanup"
        BY <2>4, CallIs
      <4> QED
        BY <2>1, <4>1 DEF BeforeSend, Reading, Places
    <3>2. PICK r \in Results :
              /\ PQgetResult(r)
              /\ IF r = Null THEN Executed(call.result)
                 ELSE IF r = Lost \/ r.status = "COPY_IN" THEN Executed(r)
                 ELSE call' = [call EXCEPT !.result = r] /\ UNCHANGED holder /\ UNCHANGED chainVars
      BY Zenon DEF Exec
    <3>3. conn \in Links /\ server \in Servers /\ call \in Calls
      BY Zenon DEF ExecutorInv, LinkInv
    <3>4. conn.unsent = Nil /\ r \in PgResults \cup {Null} /\ (FindsEnd(r) \/ \E n : Takes(n, r)) /\ Lost # Null
      BY <3>2, <3>3, GetResult, NullAndLost, Zenon
    <3>5. ASSUME NEW s, Executed(s), s # Null, Answers(process_result(s), server.todo, conn.unsent)
          PROVE  ExecutorInv'
      <4>1. Returns(call, process_result(s)) /\ holder' = holder
        BY <3>1, <3>5, Zenon DEF Executed
      <4> QED
        BY <2>2, <2>4, <3>1, <3>2, <3>5, <4>1, ReadReturns, Zenon
    <3>6. CASE r = Null
      <4>1. PICK n : Takes(n, Null)
        BY <3>4, <3>6, Zenon DEF FindsEnd
      <4>2. call.result \in Own(made, call.serial) /\ Answers(process_result(call.result), server.todo, conn.unsent)
        BY <2>4, <3>1, <3>4, <4>1, <1>EndAnswers, Zenon
      <4>3. call.result # Null
        BY <2>4, <4>2, <1>CallFacts, Zenon
      <4> QED
        BY <3>2, <3>5, <3>6, <4>2, <4>3, Zenon
    <3>7. CASE r = Lost
      BY <3>2, <3>4, <3>5, <3>7, <1>LostAnswers, Zenon
    <3>8. ASSUME r # Null, r # Lost, call' \in Calls PROVE r \in Own(made, call.serial) /\ \E n : Takes(n, r)
      BY <2>4, <3>1, <3>2, <3>4, <3>8, <1>ReadOwn, Zenon DEF FindsEnd
    <3>9. CASE r # Null /\ r # Lost /\ r.status = "COPY_IN"
      <4>1. Executed(r)
        BY <3>2, <3>9, Zenon
      <4>2. call' = NoCall
        BY <3>1, <4>1, Zenon DEF Executed, Returns
      <4>3. call' \in Calls
        BY <4>2, CallIs, Zenon
      <4>4. PICK n : Takes(n, r)
        BY <3>8, <3>9, <4>3, Zenon
      <4>5. Answers(process_result(r), server.todo, conn.unsent)
        BY <2>4, <3>4, <3>8, <3>9, <4>3, <4>4, <1>CopyAnswers, Zenon
      <4> QED
        BY <3>5, <3>9, <4>1, <4>5, Zenon
    <3>10. CASE r # Null /\ r # Lost /\ r.status # "COPY_IN"
      <4>1. call' = [call EXCEPT !.result = r] /\ holder' = holder /\ UNCHANGED chainVars
        BY <3>2, <3>10, Zenon
      <4>2. /\ call' \in Executes /\ call'.pc = call.pc /\ call'.serial = call.serial
            /\ call'.stmts = call.stmts /\ call'.x = call.x /\ call'.result = r
        BY <2>4, <3>1, <3>4, <4>1, <1>CallTakes, ZenonT(40)
      <4>3. call' \in Calls /\ issued' = issued
        BY <4>1, <4>2, Zenon DEF Calls, chainVars
      <4>4. PICK n : Takes(n, r)
        BY <3>8, <3>10, <4>3, Zenon
      <4>5. /\ Current(call.serial, made, server.todo, Nil, Input')
            /\ r \in Own(made, call.serial)
        BY <2>4, <3>1, <3>2, <3>8, <3>10, <4>3, <1>ReadOwn, Zenon
      <4>6. /\ made' = made /\ conn'.unsent = Nil /\ server'.todo = server.todo /\ Input' \in Seq(Messages)
            /\ server'.up = server.up
        BY <3>2, <4>3, ReadIs, Zenon
      <4>7. Complete(Own(made, call.serial), r, Len(call.stmts), server.up, Input')
        BY <2>4, <3>1, <3>10, <4>4, <4>5, <4>6, <1>TakenComplete, Zenon
      <4>8. call.x \in SyncObjects
        BY <2>1, <2>4, Zenon DEF ExecutorInv, CallInv
      <4>9. call.pc # "drain" /\ call.pc \in {"exec", "drain"}
            /\ call.pc \notin {"flush", "write", "read", "collect", "drain"}
        BY <2>1
      <4>10. Dynamic(call)'
        BY <3>1, <4>2, <4>5, <4>6, <4>7, <4>9, Zenon DEF Dynamic
      <4> QED
        BY <2>2, <2>4, <3>1, <3>2, <4>1, <4>2, <4>3, <4>8, <4>9, <4>10, <1>ReadGoesOn, Zenon
    <3> QED
      BY <3>6, <3>7, <3>9, <3>10, Zenon
  <2>5. call \in Cleanups \/ call \in Executes
    BY <2>1, PlaceOf DEF ExecutorInv, LinkInv
  <2> QED
    BY <2>3, <2>4, <2>5, Zenon

<1>CollectInv.
    ASSUME ExecutorInv, Collect
    PROVE  ExecutorInv'
  <2> USE <1>CollectInv
  <2>1. call.pc = "collect" /\ UNCHANGED ownVars
    BY Zenon DEF Collect
  <2>2. call \in Executes
    BY <2>1, PlaceOf DEF ExecutorInv, LinkInv
  <2>3. /\ call.pc # "start" /\ call.pc \notin BeforeSend /\ call.pc \in Reading
        /\ call.pc \in {"flush", "write", "read", "collect", "drain"} /\ call.pc \notin {"exec", "drain"}
    BY <2>1 DEF BeforeSend, Reading
  <2>4. PICK r \in Results :
            /\ PQgetResult(r)
            /\ IF r = Null
               THEN Fail(call, ErrorContext(Client("InvalidArgument"), NoSqlstate))
               ELSE call' = [call EXCEPT !.pc = "drain", !.result = r] /\ UNCHANGED chainVars
    BY Zenon DEF Collect
  <2>5. conn \in Links /\ server \in Servers
    BY Zenon DEF ExecutorInv, LinkInv
  <2>6. conn.unsent = Nil /\ r \in PgResults \cup {Null} /\ (FindsEnd(r) \/ \E n : Takes(n, r)) /\ Lost # Null
    BY <2>4, <2>5, GetResult, NullAndLost, Zenon
  <2>7. call.result = Null /\ call.x \in AsyncObjects
    BY <2>2, <2>3, Zenon DEF ExecutorInv, CallInv
  <2>8. CASE r = Null
    <3>1. PICK n : Takes(n, Null)
      BY <2>6, <2>8, Zenon DEF FindsEnd
    <3>2. call.result \in Own(made, call.serial)
      BY <2>2, <2>3, <2>6, <3>1, <1>EndAnswers, Zenon
    <3>3. call.result # Null
      BY <2>2, <3>2, <1>CallFacts, Zenon
    <3> QED
      BY <2>7, <3>3, Zenon
  <2>9. CASE r # Null
    <3>1. call' = [call EXCEPT !.pc = "drain", !.result = r] /\ UNCHANGED chainVars
      BY <2>4, <2>9, Zenon
    <3>2. "drain" \in Places /\ "drain" \notin BeforeSend /\ "drain" \notin Reading
          /\ "drain" \notin {"discard", "exec"} /\ "drain" \in {"exec", "drain"}
      BY DEF Places, BeforeSend, Reading
    <3>3. /\ call' \in Executes /\ call'.pc = "drain" /\ call'.serial = call.serial
          /\ call'.stmts = call.stmts /\ call'.x = call.x /\ call'.result = r
      <4>1. call' = Drained(call, r)
        BY <3>1, Zenon DEF Drained
      <4> QED
        BY <2>2, <2>6, <4>1, <1>CallDrains, Zenon
    <3>4. call' \in Calls /\ issued' = issued
      BY <3>1, <3>3, Zenon DEF Calls, chainVars
    <3>5. /\ Current(call.serial, made, server.todo, Nil, Input')
          /\ r \in Own(made, call.serial) \cup {Lost}
      BY <2>2, <2>3, <2>4, <2>9, <3>4, <1>ReadOwn, Zenon
    <3>6. made' = made /\ conn'.unsent = Nil /\ server'.todo = server.todo
      BY <2>4, <3>4, ReadIs, Zenon
    <3>7. Dynamic(call)'
      BY <3>2, <3>3, <3>5, <3>6, Zenon DEF Dynamic
    <3> QED
      BY <2>1, <2>2, <2>3, <2>4, <2>7, <3>2, <3>3, <3>4, <3>7, <1>ReadGoesOn, Zenon
  <2> QED
    BY <2>8, <2>9, Zenon

<1>DrainInv.
    ASSUME ExecutorInv, Drain
    PROVE  ExecutorInv'
  <2> USE <1>DrainInv
  <2>1. call.pc = "drain" /\ UNCHANGED ownVars
    BY Zenon DEF Drain
  <2>2. call \in Executes /\ call \in Calls
    BY <2>1, PlaceOf DEF ExecutorInv, LinkInv
  <2>3. /\ call.pc # "start" /\ call.pc \notin BeforeSend /\ call.pc \notin Reading
        /\ call.pc \in {"flush", "write", "read", "collect", "drain"}
        /\ call.pc \notin {"discard", "exec"} /\ call.pc \in {"exec", "drain"}
    BY <2>1 DEF BeforeSend, Reading
  <2>4. CASE conn.async = "copy" /\ UNCHANGED linkVars /\ UNCHANGED chainVars /\ UNCHANGED call
    <3>1. UNCHANGED <<issued, call>>
      BY <2>4 DEF chainVars
    <3> QED
      BY <2>1, <2>4, <3>1, ChainInv, Zenon
  <2>5. ASSUME NEW r, PQgetResult(r), r = Null, Returns(call, process_result(call.result))
        PROVE  ExecutorInv'
    <3>1. conn \in Links /\ server \in Servers
      BY Zenon DEF ExecutorInv, LinkInv
    <3>2. conn.unsent = Nil /\ (FindsEnd(r) \/ \E n : Takes(n, r)) /\ Lost # Null
      BY <2>5, <3>1, GetResult, NullAndLost, Zenon
    <3>3. PICK n : Takes(n, Null)
      BY <2>5, <3>2, Zenon DEF FindsEnd
    <3>4. Answers(process_result(call.result), server.todo, conn.unsent)
      BY <2>1, <2>2, <3>2, <3>3, <1>DrainAnswers, Zenon
    <3> QED
      BY <2>1, <2>2, <2>3, <2>5, <3>4, ReadReturns, Zenon
  <2>6. ASSUME NEW r, PQgetResult(r), UNCHANGED call, UNCHANGED chainVars
        PROVE  ExecutorInv'
    <3>1. call' = call /\ issued' = issued
      BY <2>6, Zenon DEF chainVars
    <3>2. /\ call' \in Executes /\ call'.pc = call.pc /\ call'.serial = call.serial
          /\ call'.stmts = call.stmts /\ call'.x = call.x /\ call'.result = call.result /\ call' \in Calls
      BY <2>2, <3>1, Zenon
    <3>3. Current(call.serial, made, server.todo, Nil, Input')
      BY <2>2, <2>3, <2>6, <3>2, <1>ReadOwn, Zenon
    <3>4. made' = made /\ conn'.unsent = Nil /\ server'.todo = server.todo
      BY <2>6, <3>2, ReadIs, Zenon
    <3>5. call.result \in Own(made, call.serial) \cup {Lost} /\ call.x \in AsyncObjects
      BY <2>1, <2>2, <2>3, Zenon DEF ExecutorInv, CallInv
    <3>6. Dynamic(call)'
      BY <2>3, <3>2, <3>3, <3>4, <3>5, Zenon DEF Dynamic
    <3> QED
      BY <2>1, <2>2, <2>3, <2>6, <3>1, <3>2, <3>5, <3>6, <1>ReadGoesOn, Zenon
  <2>7. CASE \E r \in Results :
                /\ PQgetResult(r)
                /\ IF r = Null THEN Returns(call, process_result(call.result))
                               ELSE UNCHANGED call /\ UNCHANGED chainVars
    BY <2>5, <2>6, <2>7, Zenon
  <2> QED
    BY <2>4, <2>7, Zenon DEF Drain

<1> QED
  BY <1>ExecInv, <1>CollectInv, <1>DrainInv, Zenon

-----------------------------------------------------------------------------
(* The invariant, action by action *)

LEMMA InitInv ==
    ASSUME Init
    PROVE  ExecutorInv
<1>0. obj = [x \in Objects |-> Empty]
  BY Zenon DEF Init
<1>1. conn = Fresh(1) /\ server = FreshServer /\ call = NoCall /\ terminated = FALSE
  BY Zenon DEF Init
<1>a. issued = <<>> /\ made = {}
  BY Zenon DEF Init
<1>b. holder = [status |-> "FREE", cleanup |-> ""]
  BY Zenon DEF Init
<1>2. /\ conn \in Links /\ conn.status = "OK" /\ conn.async = "idle" /\ conn.unsent = Nil /\ conn.inbuf = <<>>
      /\ server \in Servers /\ server.up = TRUE /\ server.todo = Nil /\ server.wire = <<>>
  BY <1>1, FreshIs, Zenon
<1>3. call \in Calls /\ call \notin Executes /\ call \notin Cleanups
  BY <1>1, CallIs, Zenon
<1>4. LinkInv
  <2>1. Input = <<>>
    BY <1>2 DEF Input
  <2>2. Shape("idle", Nil, TRUE, Nil, <<>>)
    BY ShapeEmpty, Zenon
  <2> QED
    BY <1>2, <1>3, <2>1, <2>2, Zenon DEF LinkInv
<1>5. HolderInv
  <2>1. holder \in [status : {"FREE", "USED", "DEAD"}, cleanup : Words] /\ holder.status = "FREE"
    BY <1>b, Zenon DEF Words
  <2>2. obj \in [Objects -> Executors] /\ \A x \in Objects : ~obj[x].holds
    BY <1>0, EmptyIs
  <2> QED
    BY <1>1, <1>2, <1>3, <2>1, <2>2 DEF HolderInv, Executors
<1>6. Len(issued) = 0
  BY <1>a
<1>7. MadeInv
  <2>1. IssuedType
    BY <1>a DEF IssuedType, IsSeq
  <2>2. Numbered(made, Len(issued), Texts, server.todo, conn.unsent)
    BY <1>2, <1>a DEF Numbered, Known
  <2> QED
    BY <2>1, <2>2, Zenon DEF MadeInv
<1>8. CallInv
  BY <1>3, Zenon DEF CallInv
<1>9. DoneInv
  BY <1>6 DEF DoneInv
<1> QED
  BY <1>4, <1>5, <1>7, <1>8, <1>9, Zenon DEF ExecutorInv

LEMMA NextInv ==
    ASSUME ExecutorInv, [Next]_vars
    PROVE  ExecutorInv'
<1>1. CASE UNCHANGED vars
  <2>1. UNCHANGED <<issued, call>> /\ UNCHANGED linkVars /\ UNCHANGED ownVars
    BY <1>1 DEF vars, linkVars, ownVars
  <2> QED
    BY <2>1, ChainInv, Zenon
<1>2. CASE ServerRuns \/ ServerSendsPart \/ ConnectionBreaks
  BY <1>2, ServerInv, Zenon
<1>3. CASE \E x \in Objects :
          \/ Construct(x) \/ Destroy(x) \/ NativeReset(x)
          \/ \E query \in {"None", "DiscardAll"} : do_cleanup(x, query)
          \/ \E q \in DOMAIN Queries, why \in {"and_then", "or_else"} : execute(x, q, why)
  BY <1>3, OwnerInv, StartInv, Zenon
<1>4. CASE \E xs \in {SyncObjects, AsyncObjects} : \E x, y \in xs : Move(x, y) \/ MoveAssign(x, y)
  <2>1. PICK xs \in {SyncObjects, AsyncObjects} : \E x, y \in xs : Move(x, y) \/ MoveAssign(x, y)
    BY <1>4, Zenon
  <2>2. PICK x, y \in xs : Move(x, y) \/ MoveAssign(x, y)
    BY <2>1, Zenon
  <2>3. x \in Objects /\ y \in Objects
    BY DEF Objects
  <2> QED
    BY <2>2, <2>3, OwnerInv, Zenon
<1>5. CASE replace_conn
  BY <1>5, OwnerInv, Zenon
<1>6. CASE ExecutorStep
  BY <1>6, StartInv, DiscardStepInv, AsyncInv, ReadInv, Zenon DEF ExecutorStep
<1>7. CASE WaitFails
  BY <1>7, StartInv, Zenon
<1>8. ASSUME NEW o, NEW returned, Combine(o, returned) PROVE ExecutorInv'
  <2>1. UNCHANGED <<issued, call>> /\ UNCHANGED linkVars /\ UNCHANGED ownVars
    BY <1>8, Zenon DEF Combine
  <2> QED
    BY <2>1, ChainInv, Zenon
<1>9. CASE Validate
  BY <1>8, <1>9, Zenon DEF Validate
<1>10. CASE Transform
  BY <1>8, <1>10, Zenon DEF Transform
<1>11. CASE Skip
  BY <1>8, <1>11, Zenon DEF Skip
<1> QED
  BY <1>1, <1>2, <1>3, <1>4, <1>5, <1>6, <1>7, <1>9, <1>10, <1>11, Zenon DEF Next

-----------------------------------------------------------------------------
(* Theorems *)

\* The connection, its holder and the calls are always in the relation that
\* LinkInv, HolderInv, MadeInv, CallInv and DoneInv describe, whatever the
\* owners do, whatever the queries are and whenever the connection breaks.
THEOREM ExecutorInvariant == Spec => []ExecutorInv
<1>1. Init => ExecutorInv
  BY InitInv, Zenon
<1>2. ExecutorInv /\ [Next]_vars => ExecutorInv'
  BY NextInv, Zenon
<1> QED
  BY <1>1, <1>2, PTL DEF Spec

LEMMA HolderGives ==
    ASSUME ExecutorInv
    PROVE  HolderReturned
<1> DEFINE holding  == {x \in Objects : obj[x].holds}
           cleaning == call # NoCall /\ call.kind = "cleanup"
<1>1. call \in Calls
  BY Zenon DEF ExecutorInv, LinkInv
<1>2. cleaning <=> call \in Cleanups
  <2>1. CASE call = NoCall
    BY <2>1, CallIs
  <2>2. CASE call \in Cleanups
    BY <2>2, CallIs
  <2>3. CASE call \in Executes
    BY <2>3, CallIs
  <2> QED
    BY <1>1, <2>1, <2>2, <2>3, CallIs
<1>3. /\ holder.status = "FREE" => conn.status = "OK"
      /\ call \in Cleanups => holder.status = "USED"
      /\ holder.status = "USED" /\ call \notin Cleanups => \E x \in Objects : obj[x].holds
      /\ holder.status # "USED" \/ call \in Cleanups => \A x \in Objects : ~obj[x].holds
      /\ \A x, y \in Objects : obj[x].holds /\ obj[y].holds => x = y
      /\ ~terminated
  BY DEF ExecutorInv, HolderInv
<1>4. CASE holder.status = "USED" /\ ~cleaning
  <2>1. PICK x \in Objects : obj[x].holds
    BY <1>2, <1>3, <1>4
  <2>2. holding = {x}
    BY <1>3, <2>1
  <2> QED
    BY <1>2, <1>3, <1>4, <2>2 DEF HolderReturned
<1>5. CASE ~(holder.status = "USED" /\ ~cleaning)
  <2>1. holding = {}
    BY <1>2, <1>3, <1>5
  <2> QED
    BY <1>2, <1>3, <1>5, <2>1 DEF HolderReturned
<1> QED
  BY <1>4, <1>5

\* The connection is never handed out twice nor lost: while its holder says
\* USED exactly one executor holds it or its cleanup runs, else none does; a
\* FREE one is in order for libpq, so the noexcept functions of Session that
\* construct an executor on it never see it throw (~terminated).
THEOREM ConnectionReturned == Spec => []HolderReturned
BY ExecutorInvariant, HolderGives, PTL

LEMMA DoneIs ==
    ASSUME ExecutorInv, NEW i \in Done
    PROVE  /\ i \in 1 .. Len(issued) /\ Texts[i] = Queries[issued[i].q].stmts
           /\ Settled(i, issued[i].out, issued[i].sync, Own(made, i), Len(Queries[issued[i].q].stmts),
                      server.todo, conn.unsent)
<1>1. IssuedType
  BY Zenon DEF ExecutorInv, MadeInv
<1>2. i \in 1 .. Len(issued) /\ issued[i].out # Pending
  BY <1>1, TextsIs DEF Done
<1>3. Texts[i] = Queries[issued[i].q].stmts
  BY <1>1, <1>2, TextsIs, Zenon
<1>4. Settled(i, issued[i].out, issued[i].sync, Own(made, i), Len(Texts[i]), server.todo, conn.unsent)
  BY <1>2, Zenon DEF ExecutorInv, DoneInv
<1> QED
  BY <1>2, <1>3, <1>4, Zenon

LEMMA HonestGives ==
    ASSUME ExecutorInv
    PROVE  OutcomeHonest
<1> SUFFICES ASSUME NEW i \in Done
             PROVE  LET out == issued[i].out
                        own == {r \in made : r.serial = i}
                    IN  IF is_success(out)
                        THEN /\ out.value \in own
                             /\ is_success_status(out.value.status)
                             /\ issued[i].sync =>
                                   /\ \A r \in own : is_success_status(r.status)
                                   /\ out.value.stmt = Len(Queries[issued[i].q].stmts) \/ out.value.status = "COPY_IN"
                        ELSE out.error.sqlstate # NoSqlstate =>
                                \E r \in own : r.status = "FATAL_ERROR" /\ r.sqlstate = out.error.sqlstate
  BY Zenon DEF OutcomeHonest
<1>1. Settled(i, issued[i].out, issued[i].sync, Own(made, i), Len(Queries[issued[i].q].stmts),
              server.todo, conn.unsent)
  BY DoneIs, Zenon
<1>2. Own(made, i) = {r \in made : r.serial = i}
  BY Zenon DEF Own
<1> QED
  BY <1>1, <1>2, Zenon DEF Settled

\* What execute returned, for either executor: a success is the result of a
\* statement of that very call and, from the synchronous one, of its last
\* statement after all the others succeeded; an SQLSTATE in an error is one
\* the server raised for that call.
THEOREM OutcomesHonest == Spec => []OutcomeHonest
BY ExecutorInvariant, HonestGives, PTL

LEMMA DefiniteGives ==
    ASSUME ExecutorInv
    PROVE  DefiniteErrors
<1> SUFFICES ASSUME NEW i \in Done, is_error(issued[i].out), ~is_retryable(issued[i].out.error.code)
             PROVE  /\ \A r \in made : r.serial = i /\ r.stmt = Len(Queries[issued[i].q].stmts) =>
                                           ~is_success_status(r.status)
                    /\ i \notin {server.todo.serial, conn.unsent.serial}
  BY Zenon DEF DefiniteErrors
<1>1. Settled(i, issued[i].out, issued[i].sync, Own(made, i), Len(Queries[issued[i].q].stmts),
              server.todo, conn.unsent)
  BY DoneIs, Zenon
<1>2. ~is_success(issued[i].out)
  BY DEF is_error
<1>3. /\ \A r \in Own(made, i) : r.stmt = Len(Queries[issued[i].q].stmts) => ~is_success_status(r.status)
      /\ i # server.todo.serial /\ i # conn.unsent.serial
  BY <1>1, <1>2, Zenon DEF Settled
<1> QED
  BY <1>3, Zenon DEF Own

\* An error that is_retryable() rules out is definite: the last statement of
\* the query was not carried out, and nothing of the query is left with the
\* server or with libpq that could still carry it out.
THEOREM ErrorsDefinite == Spec => []DefiniteErrors
BY ExecutorInvariant, DefiniteGives, PTL
=============================================================================
