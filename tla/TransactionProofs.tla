------------------------- MODULE TransactionProofs -------------------------
(* Proofs about Transaction. *)
EXTENDS Transaction, FiniteSetTheorems, SequenceTheorems, TLAPS

Sessions ==
    {s \in [state : {"idle", "open", "failed"}, stack : Seq(Names), left : BOOLEAN] :
        Len(s.stack) <= MaxDepth /\ (s.left => s.state # "idle")}

(* A statement leaves s as session t: both have a transaction or neither. *)
SameState(s, t) == (t.state = "idle" <=> s.state = "idle") /\ (t.left <=> s.left)

(* Through moves and assignments at most one object has a connection, and  *)
(* a connection has an object exactly while it is borrowed.                *)
Owned ==
    /\ \A t \in Txs : tx[t].status = "none" => tx[t].conn = NoConn
    /\ \A t, u \in Txs : tx[t].conn = tx[u].conn /\ tx[t].conn # NoConn => t = u
    /\ \A c \in Conns : pool[c] = "used" <=> \E t \in Txs : tx[t].conn = c

OwnInv == TypeOK /\ srv \in [Conns -> Sessions] /\ Owned

(* A session that is lost has no transaction any more. *)
LostIdle == \A c \in Conns : link[c] # "good" => srv[c].state = "idle"

Honest == StatusHonest /\ ReturnedClean /\ LostIdle

TxInv == OwnInv /\ Honest

-----------------------------------------------------------------------------
(* The newest savepoint of a name. *)

(* A nonempty set of finite sets has a minimal element. *)
LEMMA MinimalSet ==
    ASSUME NEW S, NEW T, T # {}, \A U \in T : U \subseteq S /\ IsFiniteSet(U)
    PROVE  \E U \in T : \A V \in T : V \subseteq U => V = U
<1> DEFINE R == StrictSubsetOrdering(S)
<1>1. IsWellFoundedOn(R, FiniteSubsetsOf(S))
  BY FS_StrictSubsetOrderingWellFounded
<1>2. T \subseteq FiniteSubsetsOf(S)
  BY DEF FiniteSubsetsOf
<1> HIDE DEF R
<1>3. PICK U \in T : \A V \in T : <<V, U>> \notin R
  BY <1>1, <1>2, WFMin
<1>4. ASSUME NEW V \in T, V \subseteq U, V # U
      PROVE  FALSE
  <2>1. <<V, U>> \in R
    BY <1>4 DEF R, StrictSubsetOrdering
  <2> QED
    BY <1>3, <1>4, <2>1
<1> QED
  BY <1>4

(* A nonempty set of positions of a sequence has a last one. *)
LEMMA LastPosition ==
    ASSUME NEW n \in Nat, NEW A, A \subseteq 1 .. n, A # {}
    PROVE  \E a \in A : \A b \in A : b <= a
<1> DEFINE Above(a) == {b \in A : b > a}
<1>1. \A U \in {Above(a) : a \in A} : U \subseteq 1 .. n /\ IsFiniteSet(U)
  <2> SUFFICES ASSUME NEW a \in A PROVE Above(a) \subseteq 1 .. n /\ IsFiniteSet(Above(a))
    OBVIOUS
  <2>1. Above(a) \subseteq 1 .. n
    BY Zenon
  <2>2. IsFiniteSet(1 .. n)
    BY FS_Interval
  <2> HIDE DEF Above
  <2> QED
    BY <2>1, <2>2, FS_Subset
<1>2. PICK a \in A : \A b \in A : Above(b) \subseteq Above(a) => Above(b) = Above(a)
  <2> DEFINE T == {Above(a) : a \in A}
  <2>1. T # {}
    BY Zenon
  <2>2. PICK U \in T : \A V \in T : V \subseteq U => V = U
    <3> HIDE DEF T
    <3>1. \A U \in T : U \subseteq 1 .. n /\ IsFiniteSet(U)
      BY <1>1 DEF T
    <3> QED
      BY <2>1, <3>1, MinimalSet
  <2>3. PICK a \in A : U = Above(a)
    BY <2>2
  <2>4. \A b \in A : Above(b) \in T
    OBVIOUS
  <2> HIDE DEF T, Above
  <2> QED
    BY <2>2, <2>3, <2>4
<1>3. ASSUME NEW b \in A, b > a
      PROVE  FALSE
  <2>0. a \in Int /\ b \in Int
    OBVIOUS
  <2>1. b \in Above(a) /\ b \notin Above(b)
    BY <1>3, <2>0
  <2>2. Above(b) \subseteq Above(a)
    <3> SUFFICES ASSUME NEW c \in A, c > b PROVE c > a
      BY Zenon
    <3>1. c \in Int
      OBVIOUS
    <3> QED
      BY <1>3, <2>0, <3>1
  <2> QED
    BY <1>2, <2>1, <2>2
<1> QED
  BY <1>3

LEMMA NewestType ==
    ASSUME NEW s \in Sessions, NEW n, Has(s, n)
    PROVE  Newest(s, n) \in 1 .. Len(s.stack)
<1> DEFINE At == {k \in 1 .. Len(s.stack) : s.stack[k] = n}
<1>1. Len(s.stack) \in Nat /\ DOMAIN s.stack = 1 .. Len(s.stack)
  BY DEF Sessions
<1>2. At # {} /\ At \subseteq 1 .. Len(s.stack)
  BY <1>1 DEF Has
<1>3. PICK k \in At : \A b \in At : b <= k
  <2> HIDE DEF At
  <2> QED
    BY <1>1, <1>2, LastPosition, Zenon
<1>4. \A m \in k + 1 .. Len(s.stack) : s.stack[m] # n
  BY <1>1, <1>3
<1>5. k \in DOMAIN s.stack /\ s.stack[k] = n
  BY <1>1
<1> QED
  BY <1>1, <1>4, <1>5 DEF Newest

-----------------------------------------------------------------------------
(* What the server may answer. *)

Answers == [ok : BOOLEAN, session : Sessions]

LEMMA IdleType == Idle \in Sessions /\ Idle.state = "idle"
BY MaxDepthAssumption, EmptySeq DEF Idle, Sessions

(* What assigning over an object makes of the session of its connection. *)
LEMMA LeftType ==
    ASSUME NEW s \in Sessions
    PROVE  LET l == [s EXCEPT !.left = (s.state # "idle")]
           IN  l \in Sessions /\ l.state = s.state /\ (l.left <=> s.state # "idle")
<1>1. CASE s.state = "idle"
  <2>1. [s EXCEPT !.left = (s.state # "idle")] = [s EXCEPT !.left = FALSE]
    BY <1>1, Zenon
  <2> QED
    BY <1>1, <2>1 DEF Sessions
<1>2. CASE s.state # "idle"
  <2>1. [s EXCEPT !.left = (s.state # "idle")] = [s EXCEPT !.left = TRUE]
    BY <1>2, Zenon
  <2> QED
    BY <1>2, <2>1, Zenon DEF Sessions
<1> QED
  BY <1>1, <1>2

LEMMA AbortedType ==
    ASSUME NEW s \in Sessions
    PROVE  Aborted(s) \in Sessions /\ SameState(s, Aborted(s))
BY DEF Aborted, Sessions, SameState

LEMMA ReplyType ==
    ASSUME NEW s \in Sessions
    PROVE  /\ Reply(TRUE, s) \in Answers /\ Reply(TRUE, s).ok = TRUE
           /\ Reply(TRUE, s).session = s
           /\ Reply(FALSE, s) \in Answers /\ Reply(FALSE, s).ok = FALSE
           /\ Reply(FALSE, s).session = s
BY DEF Reply, Answers

(* The control statements decide whether there is a transaction ... *)
LEMMA BeginAnswers ==
    ASSUME NEW s \in Sessions, NEW r \in OnBegin(s)
    PROVE  /\ r \in Answers
           /\ r.ok => r.session.state # "idle"
           /\ ~r.ok => SameState(s, r.session)
<1>1. [s EXCEPT !.state = "open"] \in Sessions
  BY DEF Sessions
<1>2. [s EXCEPT !.state = "open"].state = "open"
  BY DEF Sessions
<1>3. \/ s.state = "failed" /\ r = Reply(FALSE, s)
      \/ r = Reply(TRUE, [s EXCEPT !.state = "open"])
      \/ r = Reply(FALSE, Aborted(s))
  BY Zenon DEF OnBegin
<1>4. CASE s.state = "failed" /\ r = Reply(FALSE, s)
  BY <1>4, ReplyType, Zenon DEF SameState
<1>5. CASE r = Reply(TRUE, [s EXCEPT !.state = "open"])
  BY <1>1, <1>2, <1>5, ReplyType, Zenon
<1>6. CASE r = Reply(FALSE, Aborted(s))
  BY <1>6, AbortedType, ReplyType, Zenon
<1> QED
  BY <1>3, <1>4, <1>5, <1>6, Zenon

LEMMA CommitAnswers ==
    ASSUME NEW s \in Sessions, NEW r \in OnCommit(s)
    PROVE  r \in Answers /\ r.session.state = "idle"
BY IdleType, ReplyType, Zenon DEF OnCommit

LEMMA RollbackAnswers ==
    ASSUME NEW s \in Sessions, NEW r \in OnRollback(s)
    PROVE  r \in Answers /\ r.session.state = "idle"
BY IdleType, ReplyType, Zenon DEF OnRollback

(* ... and the others leave that as it is, also when they fail. *)
LEMMA QueryAnswers ==
    ASSUME NEW s \in Sessions, NEW r \in OnQuery(s)
    PROVE  r \in Answers /\ SameState(s, r.session)
<1>1. r = Reply(FALSE, Aborted(s)) \/ r = Reply(TRUE, s)
  BY Zenon DEF OnQuery
<1>2. CASE r = Reply(FALSE, Aborted(s))
  BY <1>2, AbortedType, ReplyType, Zenon
<1>3. CASE r = Reply(TRUE, s)
  BY <1>3, ReplyType, Zenon DEF SameState
<1> QED
  BY <1>1, <1>2, <1>3, Zenon

LEMMA SavepointAnswers ==
    ASSUME NEW s \in Sessions, NEW n \in Names, Len(s.stack) < MaxDepth, NEW r \in OnSavepoint(s, n)
    PROVE  r \in Answers /\ SameState(s, r.session)
<1> DEFINE u == [s EXCEPT !.stack = Append(@, n)]
<1>1. Append(s.stack, n) \in Seq(Names) /\ Len(Append(s.stack, n)) <= MaxDepth
  BY MaxDepthAssumption DEF Sessions
<1>2. u \in Sessions /\ u.state = s.state /\ u.left = s.left
  BY <1>1 DEF Sessions
<1> HIDE DEF u
<1>3. r = Reply(TRUE, u) \/ r = Reply(FALSE, s)
  BY Zenon DEF OnSavepoint, u
<1> QED
  BY <1>2, <1>3, ReplyType, Zenon DEF SameState

(* A stack cut off after k savepoints. *)
LEMMA CutType ==
    ASSUME NEW s \in Sessions, NEW k \in 0 .. Len(s.stack)
    PROVE  SubSeq(s.stack, 1, k) \in Seq(Names) /\ Len(SubSeq(s.stack, 1, k)) <= MaxDepth
<1>1. s.stack \in Seq(Names) /\ Len(s.stack) \in Nat /\ Len(s.stack) <= MaxDepth
  BY DEF Sessions
<1>2. \A m \in 1 .. k : s.stack[m] \in Names
  BY <1>1, ElementOfSeq
<1>3. SubSeq(s.stack, 1, k) \in Seq(Names) /\ Len(SubSeq(s.stack, 1, k)) = IF 1 <= k THEN k - 1 + 1 ELSE 0
  BY <1>1, <1>2, SubSeqProperties
<1> QED
  BY <1>1, <1>3, MaxDepthAssumption

LEMMA RollbackToAnswers ==
    ASSUME NEW s \in Sessions, NEW n, NEW r \in OnRollbackTo(s, n)
    PROVE  r \in Answers /\ SameState(s, r.session)
<1>1. CASE s.state # "idle" /\ Has(s, n)
  <2> DEFINE u == [s EXCEPT !.state = "open", !.stack = SubSeq(@, 1, Newest(s, n))]
  <2>1. Newest(s, n) \in 0 .. Len(s.stack)
    BY <1>1, NewestType DEF Sessions
  <2>2. u \in Sessions /\ u.state # "idle" /\ u.left = s.left
    BY <2>1, CutType, Zenon DEF Sessions
  <2> HIDE DEF u
  <2>3. r = Reply(TRUE, u)
    BY <1>1 DEF OnRollbackTo, u
  <2> QED
    BY <1>1, <2>2, <2>3, ReplyType, Zenon DEF SameState
<1>2. CASE ~(s.state # "idle" /\ Has(s, n))
  <2>1. r = Reply(FALSE, Aborted(s))
    BY <1>2, Zenon DEF OnRollbackTo
  <2> QED
    BY <2>1, AbortedType, ReplyType, Zenon
<1> QED
  BY <1>1, <1>2

LEMMA ReleaseAnswers ==
    ASSUME NEW s \in Sessions, NEW n, NEW r \in OnRelease(s, n)
    PROVE  r \in Answers /\ SameState(s, r.session)
<1>1. CASE s.state = "open" /\ Has(s, n)
  <2> DEFINE u == [s EXCEPT !.stack = SubSeq(@, 1, Newest(s, n) - 1)]
  <2>1. Newest(s, n) - 1 \in 0 .. Len(s.stack)
    BY <1>1, NewestType DEF Sessions
  <2>2. u \in Sessions /\ u.state = s.state /\ u.left = s.left
    BY <2>1, CutType, Zenon DEF Sessions
  <2> HIDE DEF u
  <2>3. r = Reply(TRUE, u)
    BY <1>1 DEF OnRelease, u
  <2> QED
    BY <1>1, <2>2, <2>3, ReplyType, Zenon DEF SameState
<1>2. CASE ~(s.state = "open" /\ Has(s, n))
  <2>1. r = Reply(FALSE, Aborted(s))
    BY <1>2, Zenon DEF OnRelease
  <2> QED
    BY <2>1, AbortedType, ReplyType, Zenon
<1> QED
  BY <1>1, <1>2

-----------------------------------------------------------------------------
(* Ownership. *)

(* What one statement does: only its connection is concerned, and without a *)
(* good one it fails and leaves no transaction.                             *)
LEMMA SentEffect ==
    ASSUME srv \in [Conns -> Sessions], link \in [Conns -> {"good", "lost", "bad"}],
           NEW c \in Conns \cup {NoConn}, NEW replies \in SUBSET Answers,
           NEW r \in Replies(c, replies), Sent(c, r)
    PROVE  /\ r.ok \in BOOLEAN
           /\ srv' \in [Conns -> Sessions] /\ link' \in [Conns -> {"good", "lost", "bad"}]
           /\ \A d \in Conns : d # c => srv'[d] = srv[d] /\ link'[d] = link[d]
           /\ c = NoConn => ~r.ok
           /\ c # NoConn => /\ link'[c] = "good" <=> link[c] = "good"
                            /\ link[c] = "good" => r \in replies /\ srv'[c] = r.session
                            /\ link[c] # "good" => ~r.ok /\ srv'[c].state = "idle"
<1>1. r \in Answers
  BY IdleType, ReplyType, Zenon DEF Replies
<1>2. c = NoConn \/ link[c] # "good" => r = Reply(FALSE, Idle)
  BY Zenon DEF Replies
<1>3. CASE c = NoConn
  <2>1. ~r.ok
    BY <1>2, <1>3, IdleType, ReplyType, Zenon
  <2> QED
    BY <1>1, <1>3, <2>1 DEF Sent, Answers
<1>4. CASE c # NoConn
  <2>1. r.session \in Sessions /\ r.ok \in BOOLEAN
    BY <1>1 DEF Answers
  <2>2. /\ srv' = [srv EXCEPT ![c] = r.session]
        /\ link' = [link EXCEPT ![c] = IF @ = "lost" THEN "bad" ELSE @]
    BY <1>4 DEF Sent
  <2>3. link[c] = "good" => r \in replies
    BY <1>4 DEF Replies
  <2>4. link[c] # "good" => ~r.ok /\ r.session.state = "idle"
    BY <1>2, IdleType, ReplyType, Zenon
  <2> QED
    BY <1>4, <2>1, <2>2, <2>3, <2>4
<1> QED
  BY <1>3, <1>4

LEMMA SessionType ==
    ASSUME srv \in [Conns -> Sessions], NEW c \in Conns \cup {NoConn}
    PROVE  Session(c) \in Sessions
BY IdleType DEF Session

TxRecords == [status : Statuses \cup {"none"}, conn : Conns \cup {NoConn}, auto : BOOLEAN]
SpRecords == [live : BOOLEAN, conn : Conns \cup {NoConn}, name : Names, active : BOOLEAN]

LEMMA NoObjects == NoTx \in TxRecords /\ NoSp \in SpRecords
BY NamesAssumption DEF NoTx, NoSp, TxRecords, SpRecords, Statuses

(* The parts of TypeOK. *)
LEMMA TypeParts ==
    TypeOK <=>
        /\ tx \in [Txs -> TxRecords]
        /\ \A t \in Txs : tx[t].auto => tx[t].status \notin {"IDLE", "ROLLED_BACK"}
        /\ sp \in [Sps -> SpRecords]
        /\ \A c \in Conns : /\ srv[c].state \in {"idle", "open", "failed"}
                            /\ srv[c].stack \in Seq(Names) /\ Len(srv[c].stack) <= MaxDepth
                            /\ srv[c].left \in BOOLEAN /\ (srv[c].left => srv[c].state # "idle")
        /\ link \in [Conns -> {"good", "lost", "bad"}]
        /\ pool \in [Conns -> {"free", "used", "dead"}]
BY DEF TypeOK, TxRecords, SpRecords

(* The typing half of OwnInv, with the sessions as elements of a set. *)
Typed ==
    /\ tx \in [Txs -> TxRecords]
    /\ \A t \in Txs : tx[t].auto => tx[t].status \notin {"IDLE", "ROLLED_BACK"}
    /\ sp \in [Sps -> SpRecords]
    /\ srv \in [Conns -> Sessions]
    /\ link \in [Conns -> {"good", "lost", "bad"}]
    /\ pool \in [Conns -> {"free", "used", "dead"}]

LEMMA TypedOK == OwnInv <=> Typed /\ Owned
<1>1. srv \in [Conns -> Sessions] =>
          \A c \in Conns : /\ srv[c].state \in {"idle", "open", "failed"}
                           /\ srv[c].stack \in Seq(Names) /\ Len(srv[c].stack) <= MaxDepth
                           /\ srv[c].left \in BOOLEAN /\ (srv[c].left => srv[c].state # "idle")
  BY DEF Sessions
<1> QED
  BY <1>1, TypeParts DEF OwnInv, Typed

LEMMA InitOwnInv == Init => OwnInv
<1> SUFFICES ASSUME Init PROVE Typed /\ Owned
  BY TypedOK
<1>1. Typed
  BY NoObjects, IdleType DEF Init, Typed, NoTx
<1>2. Owned
  BY NoConnAssumption DEF Init, Owned, NoTx
<1> QED
  BY <1>1, <1>2

(* A step that moves no connection keeps the ownership. *)
LEMMA OwnedKept ==
    ASSUME Owned,
           \A t \in Txs : /\ tx'[t].conn = tx[t].conn
                          /\ tx'[t].status = "none" => tx[t].status = "none",
           \A c \in Conns : pool'[c] = "used" <=> pool[c] = "used"
    PROVE  Owned'
BY DEF Owned

LEMMA TypedOKPrime == Typed' /\ Owned' => OwnInv'
BY TypedOK, PTL

(* A statement of a transaction: Begin, Commit and Rollback. *)
LEMMA ControlOwn ==
    ASSUME Typed, Owned, NEW t \in Txs, tx[t].status # "none",
           NEW replies \in SUBSET Answers, NEW done \in {"ACTIVE", "COMMITTED", "ROLLED_BACK"},
           done = "ROLLED_BACK" => ~tx[t].auto, Control(t, replies, done)
    PROVE  Typed' /\ Owned'
<1>1. PICK r \in Replies(tx[t].conn, replies) :
          /\ Sent(tx[t].conn, r)
          /\ tx' = [tx EXCEPT ![t].status = IF r.ok THEN done ELSE "FAILED"]
          /\ UNCHANGED <<sp, pool>>
  BY Zenon DEF Control
<1>2. tx[t].conn \in Conns \cup {NoConn} /\ tx[t] \in TxRecords
  BY DEF Typed, TxRecords
<1>3. srv' \in [Conns -> Sessions] /\ link' \in [Conns -> {"good", "lost", "bad"}]
  BY <1>1, <1>2, SentEffect, Zenon DEF Typed
<1> DEFINE st == IF r.ok THEN done ELSE "FAILED"
<1>4. st \in Statuses /\ st # "none" /\ (st = "ROLLED_BACK" => ~tx[t].auto) /\ st # "IDLE"
  BY DEF Statuses
<1> HIDE DEF st
<1>5. /\ tx' \in [Txs -> TxRecords]
      /\ tx'[t].status = st /\ tx'[t].conn = tx[t].conn /\ tx'[t].auto = tx[t].auto
      /\ \A u \in Txs : u # t => tx'[u] = tx[u]
  <2>1. tx' = [tx EXCEPT ![t].status = st]
    BY <1>1 DEF st
  <2> QED
    BY <2>1, <1>2, <1>4 DEF Typed, TxRecords
<1>6. Typed'
  BY <1>1, <1>3, <1>4, <1>5 DEF Typed
<1>7. Owned'
  BY <1>1, <1>4, <1>5, OwnedKept
<1> QED
  BY <1>6, <1>7

(* The body of BeginAutoTransaction, for one connection and one answer. *)
AutoBegun(t, c, r) ==
    /\ Sent(c, r)
    /\ IF r.ok
       THEN /\ pool' = [pool EXCEPT ![c] = "used"]
            /\ tx' = [tx EXCEPT ![t] = [status |-> "ACTIVE", conn |-> c, auto |-> TRUE]]
       ELSE /\ \E to \in Returned(link'[c]) : pool' = [pool EXCEPT ![c] = to]
            /\ UNCHANGED tx

LEMMA BeginOwn ==
    ASSUME Typed, Owned, NEW t \in Txs, BeginTransaction(t) \/ BeginAutoTransaction(t)
    PROVE  Typed' /\ Owned'
<1>1. PICK c \in Conns, st \in {"IDLE", "ACTIVE"}, a \in BOOLEAN :
          /\ pool[c] = "free" /\ (st = "IDLE" => ~a)
          /\ \/ /\ pool' = [pool EXCEPT ![c] = "used"]
                /\ tx' = [tx EXCEPT ![t] = [status |-> st, conn |-> c, auto |-> a]]
             \/ /\ \E to \in {"free", "dead"} : pool' = [pool EXCEPT ![c] = to]
                /\ tx' = tx
          /\ sp' = sp
          /\ srv' \in [Conns -> Sessions] /\ link' \in [Conns -> {"good", "lost", "bad"}]
  <2>1. CASE BeginTransaction(t)
    BY <2>1, Zenon DEF BeginTransaction, Typed
  <2>2. CASE BeginAutoTransaction(t)
    <3>1. PICK c \in Conns :
              pool[c] = "free" /\ \E r \in Replies(c, OnBegin(srv[c])) : AutoBegun(t, c, r)
      BY <2>2 DEF BeginAutoTransaction, AutoBegun
    <3>2. PICK r \in Replies(c, OnBegin(srv[c])) : AutoBegun(t, c, r)
      BY <3>1
    <3>3. OnBegin(srv[c]) \in SUBSET Answers
      BY BeginAnswers DEF Typed
    <3>4. srv' \in [Conns -> Sessions] /\ link' \in [Conns -> {"good", "lost", "bad"}]
      BY <3>2, <3>3, SentEffect DEF Typed, AutoBegun
    <3> QED
      BY <2>2, <3>1, <3>2, <3>4, Zenon DEF BeginAutoTransaction, AutoBegun, Returned
  <2> QED
    BY <2>1, <2>2
<1>2. tx[t].status = "none" /\ tx[t].conn = NoConn
  BY DEF BeginTransaction, BeginAutoTransaction, Owned
<1>3. CASE /\ pool' = [pool EXCEPT ![c] = "used"]
           /\ tx' = [tx EXCEPT ![t] = [status |-> st, conn |-> c, auto |-> a]]
  <2> DEFINE new == [status |-> st, conn |-> c, auto |-> a]
  <2>1. new \in TxRecords /\ new.conn = c /\ new.status = st /\ new.auto = a
    BY DEF TxRecords, Statuses
  <2>2. tx' = [tx EXCEPT ![t] = new]
    BY <1>3
  <2> HIDE DEF new
  <2>3. tx' \in [Txs -> TxRecords] /\ tx'[t] = new /\ \A u \in Txs : u # t => tx'[u] = tx[u]
    BY <2>1, <2>2 DEF Typed
  <2>4. Typed'
    BY <1>1, <1>3, <2>1, <2>3 DEF Typed
  <2>5. \A u \in Txs : tx[u].conn # c
    BY <1>1 DEF Owned
  <2>6. Owned'
    <3>1. pool'[c] = "used" /\ \A d \in Conns : d # c => pool'[d] = pool[d]
      BY <1>3 DEF Typed
    <3>3. tx'[t].conn = c /\ tx'[t].status # "none"
      BY <2>1, <2>3
    <3>4. \A u \in Txs : tx'[u].status = "none" => tx'[u].conn = NoConn
      BY <2>3, <3>3 DEF Owned
    <3>5. \A u, v \in Txs : tx'[u].conn = tx'[v].conn /\ tx'[u].conn # NoConn => u = v
      BY <2>3, <2>5, <3>3 DEF Owned
    <3>6. \A d \in Conns : pool'[d] = "used" <=> \E u \in Txs : tx'[u].conn = d
      <4>1. pool'[c] = "used" /\ \E u \in Txs : tx'[u].conn = c
        BY <3>1, <3>3
      <4>2. ASSUME NEW d \in Conns, d # c
            PROVE  pool'[d] = "used" <=> \E u \in Txs : tx'[u].conn = d
        BY <1>2, <2>3, <3>1, <3>3, <4>2, NoConnAssumption DEF Owned
      <4> QED
        BY <4>1, <4>2
    <3> QED
      BY <3>4, <3>5, <3>6 DEF Owned
  <2> QED
    BY <2>4, <2>6
<1>4. CASE (\E to \in {"free", "dead"} : pool' = [pool EXCEPT ![c] = to]) /\ tx' = tx
  <2>1. Typed'
    BY <1>1, <1>4 DEF Typed
  <2>2. \A d \in Conns : pool'[d] = "used" <=> pool[d] = "used"
    BY <1>1, <1>4 DEF Typed
  <2> QED
    BY <1>4, <2>1, <2>2, OwnedKept
<1> QED
  BY <1>1, <1>3, <1>4

LEMMA DestroyOwn ==
    ASSUME Typed, Owned, NEW t \in Txs, Destroy(t)
    PROVE  Typed' /\ Owned'
<1> DEFINE c == tx[t].conn
<1>1. c \in Conns \cup {NoConn}
  BY DEF Typed, TxRecords
<1>2. tx' \in [Txs -> TxRecords] /\ tx'[t] = NoTx /\ \A u \in Txs : u # t => tx'[u] = tx[u]
  BY NoObjects DEF Destroy, Typed
<1>3. srv' \in [Conns -> Sessions] /\ link' \in [Conns -> {"good", "lost", "bad"}]
  <2>1. CASE c # NoConn /\ tx[t].status = "ACTIVE"
    <3>1. PICK r \in Replies(c, OnRollback(srv[c])) : Sent(c, r)
      BY <2>1 DEF Destroy
    <3>2. OnRollback(srv[c]) \in SUBSET Answers
      BY <1>1, <2>1, RollbackAnswers DEF Typed
    <3> HIDE DEF c
    <3> QED
      BY <1>1, <3>1, <3>2, SentEffect DEF Typed
  <2>2. CASE ~(c # NoConn /\ tx[t].status = "ACTIVE")
    BY <2>2 DEF Destroy, Typed
  <2> QED
    BY <2>1, <2>2
<1>4. /\ pool' \in [Conns -> {"free", "used", "dead"}]
      /\ c # NoConn => pool'[c] # "used"
      /\ \A d \in Conns : d # c => pool'[d] = pool[d]
  BY <1>1 DEF Destroy, Typed, Returned
<1>5. sp' = sp
  BY DEF Destroy
<1>6. Typed'
  BY <1>2, <1>3, <1>4, <1>5 DEF Typed, NoTx
<1>7. Owned'
  <2>1. tx'[t].conn = NoConn /\ tx'[t].status = "none"
    BY <1>2 DEF NoTx
  <2>2. \A u \in Txs : tx'[u].status = "none" => tx'[u].conn = NoConn
    BY <1>2, <2>1 DEF Owned
  <2>3. \A u, v \in Txs : tx'[u].conn = tx'[v].conn /\ tx'[u].conn # NoConn => u = v
    BY <1>2, <2>1 DEF Owned
  <2>4. \A d \in Conns : d # NoConn
    BY NoConnAssumption
  <2>5. \A d \in Conns : pool'[d] = "used" <=> \E u \in Txs : tx'[u].conn = d
    <3>1. ASSUME NEW d \in Conns, d = c
          PROVE  pool'[d] # "used" /\ \A u \in Txs : tx'[u].conn # d
      BY <1>2, <1>4, <2>1, <2>4, <3>1 DEF Owned
    <3>2. ASSUME NEW d \in Conns, d # c
          PROVE  pool'[d] = "used" <=> \E u \in Txs : tx'[u].conn = d
      BY <1>2, <1>4, <2>1, <2>4, <3>2 DEF Owned
    <3> QED
      BY <3>1, <3>2
  <2> QED
    BY <2>2, <2>3, <2>5 DEF Owned
<1> QED
  BY <1>6, <1>7

(* Both kinds of move: u has what t had, and t has nothing. *)
LEMMA MoveOwn ==
    ASSUME Typed, Owned, NEW t \in Txs, NEW u \in Txs, Move(t, u) \/ MoveAssign(t, u)
    PROVE  Typed' /\ Owned'
<1>1. t # u
  BY DEF Move, MoveAssign
<1>2. /\ tx' = [tx EXCEPT ![u] = tx[t], ![t] = MovedFrom(t)]
      /\ UNCHANGED <<sp, link>> /\ tx[t].status # "none"
  BY DEF Move, MoveAssign
<1>s. srv' \in [Conns -> Sessions]
  <2>1. CASE UNCHANGED srv
    BY <2>1 DEF Typed
  <2>2. ASSUME NEW c \in Conns, srv' = [srv EXCEPT ![c].left = (srv[c].state # "idle")]
        PROVE  srv' \in [Conns -> Sessions]
    <3>1. [srv[c] EXCEPT !.left = (srv[c].state # "idle")] \in Sessions
      BY LeftType DEF Typed
    <3> QED
      BY <2>2, <3>1 DEF Typed
  <2>3. tx[u].conn \in Conns \cup {NoConn}
    BY DEF Typed, TxRecords
  <2> QED
    BY <2>1, <2>2, <2>3 DEF Move, MoveAssign
<1>3. /\ MovedFrom(t) \in TxRecords /\ MovedFrom(t).conn = NoConn
      /\ MovedFrom(t).status = "FAILED"
  BY Zenon DEF MovedFrom, Typed, TxRecords, Statuses
<1>4. /\ tx' \in [Txs -> TxRecords] /\ tx'[t] = MovedFrom(t) /\ tx'[u] = tx[t]
      /\ \A v \in Txs : v # t /\ v # u => tx'[v] = tx[v]
  BY <1>1, <1>2, <1>3 DEF Typed
<1> DEFINE c == tx[u].conn
<1>5. /\ pool' \in [Conns -> {"free", "used", "dead"}]
      /\ c # NoConn => pool'[c] # "used"
      /\ \A d \in Conns : d # c => pool'[d] = pool[d]
  <2>1. CASE Move(t, u)
    <3>1. c = NoConn
      BY <2>1 DEF Move, Owned
    <3> QED
      BY <2>1, <3>1 DEF Move, Typed
  <2>2. CASE MoveAssign(t, u)
    <3>1. c \in Conns \cup {NoConn}
      BY DEF Typed, TxRecords
    <3> QED
      BY <2>2, <3>1 DEF MoveAssign, Typed, Returned
  <2> QED
    BY <2>1, <2>2
<1>6. Typed'
  BY <1>2, <1>s, <1>3, <1>4, <1>5 DEF Typed
<1>7. Owned'
  <2>1. \A v \in Txs : tx'[v].status = "none" => tx'[v].conn = NoConn
    BY <1>2, <1>3, <1>4 DEF Owned
  <2>2. \A v, w \in Txs : tx'[v].conn = tx'[w].conn /\ tx'[v].conn # NoConn => v = w
    BY <1>1, <1>3, <1>4 DEF Owned
  <2>3. \A d \in Conns : d # NoConn
    BY NoConnAssumption
  <2>4. \A d \in Conns : pool'[d] = "used" <=> \E v \in Txs : tx'[v].conn = d
    <3>1. ASSUME NEW d \in Conns, d = c
          PROVE  pool'[d] # "used" /\ \A v \in Txs : tx'[v].conn # d
      BY <1>1, <1>3, <1>4, <1>5, <2>3, <3>1 DEF Owned
    <3>2. ASSUME NEW d \in Conns, d # c
          PROVE  pool'[d] = "used" <=> \E v \in Txs : tx'[v].conn = d
      BY <1>1, <1>3, <1>4, <1>5, <2>3, <3>2 DEF Owned
    <3> QED
      BY <3>1, <3>2
  <2> QED
    BY <2>1, <2>2, <2>4 DEF Owned
<1> QED
  BY <1>6, <1>7

(* Statements that leave the transaction objects and the pool alone. *)
LEMMA StatementOwn ==
    ASSUME Typed, Owned, NEW c \in Conns \cup {NoConn}, NEW replies \in SUBSET Answers,
           NEW r \in Replies(c, replies), Sent(c, r), UNCHANGED <<tx, pool>>,
           sp' \in [Sps -> SpRecords]
    PROVE  Typed' /\ Owned'
<1>1. srv' \in [Conns -> Sessions] /\ link' \in [Conns -> {"good", "lost", "bad"}]
  BY SentEffect DEF Typed
<1>2. Typed'
  BY <1>1 DEF Typed
<1> QED
  BY <1>2, OwnedKept

LEMMA SavepointOwn ==
    ASSUME Typed, Owned, NEW t \in Txs, NEW p \in Sps, NEW n \in Names, Savepoint(t, p, n)
    PROVE  Typed' /\ Owned'
<1> DEFINE c == tx[t].conn
<1>1. c \in Conns \cup {NoConn}
  BY DEF Typed, TxRecords
<1>2. OnSavepoint(Session(c), n) \in SUBSET Answers
  BY <1>1, SessionType, SavepointAnswers DEF Savepoint, Typed
<1>3. PICK r \in Replies(c, OnSavepoint(Session(c), n)) :
          /\ Sent(c, r)
          /\ sp' = IF r.ok
                   THEN [sp EXCEPT ![p] = [live |-> TRUE, conn |-> c, name |-> n, active |-> TRUE]]
                   ELSE sp
  BY DEF Savepoint
<1>4. UNCHANGED <<tx, pool>>
  BY DEF Savepoint
<1> HIDE DEF c
<1>5. sp' \in [Sps -> SpRecords]
  BY <1>1, <1>3 DEF Typed, SpRecords
<1> QED
  BY <1>1, <1>2, <1>3, <1>4, <1>5, StatementOwn, Zenon

(* A released or moved savepoint object leaves the ownership alone. *)
LEMMA ReleaseActiveOwn ==
    ASSUME Typed, Owned, NEW p \in Sps, ReleaseActive(p), UNCHANGED <<tx, pool>>,
           sp' \in [Sps -> SpRecords]
    PROVE  Typed' /\ Owned'
<1> DEFINE c == sp[p].conn
           releases == OnRelease(Session(c), sp[p].name)
<1>1. c \in Conns \cup {NoConn}
  BY DEF Typed, SpRecords
<1>2. releases \in SUBSET Answers
  BY <1>1, SessionType, ReleaseAnswers DEF Typed
<1>3. CASE sp[p].active
  <2>1. PICK r \in Replies(c, releases) : Sent(c, r)
    BY <1>3 DEF ReleaseActive
  <2> HIDE DEF c, releases
  <2> QED
    BY <1>1, <1>2, <2>1, StatementOwn
<1>4. CASE ~sp[p].active
  <2>1. UNCHANGED <<srv, link>>
    BY <1>4 DEF ReleaseActive
  <2>2. Typed'
    BY <2>1 DEF Typed
  <2> QED
    BY <2>2, OwnedKept
<1> QED
  BY <1>3, <1>4

LEMMA SavepointMoveOwn ==
    ASSUME Typed, Owned, NEW p \in Sps, NEW q \in Sps,
           SavepointMove(p, q) \/ SavepointMoveAssign(p, q)
    PROVE  Typed' /\ Owned'
<1>1. SpMovedFrom(p) \in SpRecords
  BY Zenon DEF SpMovedFrom, Typed, SpRecords
<1>2. sp' \in [Sps -> SpRecords] /\ UNCHANGED <<tx, pool>>
  BY <1>1 DEF SavepointMove, SavepointMoveAssign, Typed
<1>3. CASE SavepointMove(p, q)
  <2>1. Typed'
    BY <1>2, <1>3 DEF SavepointMove, Typed
  <2> QED
    BY <1>2, <2>1, OwnedKept
<1>4. CASE SavepointMoveAssign(p, q)
  BY <1>2, <1>4, ReleaseActiveOwn DEF SavepointMoveAssign
<1> QED
  BY <1>3, <1>4

LEMMA SavepointObjectOwn ==
    ASSUME Typed, Owned, NEW p \in Sps,
           SavepointRollback(p) \/ SavepointRelease(p) \/ SavepointDestroy(p)
    PROVE  Typed' /\ Owned'
<1> DEFINE c == sp[p].conn
           rollbacks == OnRollbackTo(Session(c), sp[p].name)
           releases == OnRelease(Session(c), sp[p].name)
<1>1. c \in Conns \cup {NoConn}
  BY DEF Typed, SpRecords
<1>2. rollbacks \in SUBSET Answers /\ releases \in SUBSET Answers
  BY <1>1, SessionType, RollbackToAnswers, ReleaseAnswers DEF Typed
<1>3. CASE SavepointRollback(p)
  <2>1. PICK r \in Replies(c, rollbacks) : Sent(c, r)
    BY <1>3 DEF SavepointRollback
  <2>2. UNCHANGED <<tx, sp, pool>> /\ sp \in [Sps -> SpRecords]
    BY <1>3 DEF SavepointRollback, Typed
  <2> HIDE DEF c, rollbacks
  <2> QED
    BY <1>1, <1>2, <2>1, <2>2, StatementOwn
<1>4. CASE SavepointRelease(p)
  <2>1. PICK r \in Replies(c, releases) : Sent(c, r) /\ sp' = [sp EXCEPT ![p].active = ~r.ok]
    BY <1>4, Zenon DEF SavepointRelease
  <2>2. UNCHANGED <<tx, pool>>
    BY <1>4 DEF SavepointRelease
  <2> HIDE DEF c, releases
  <2>3. sp' \in [Sps -> SpRecords]
    BY <2>1, ZenonT(40) DEF Typed, SpRecords
  <2> QED
    BY <1>1, <1>2, <2>1, <2>2, <2>3, StatementOwn
<1>5. CASE SavepointDestroy(p)
  <2>1. UNCHANGED <<tx, pool>> /\ sp' \in [Sps -> SpRecords]
    BY <1>5, NoObjects DEF SavepointDestroy, Typed
  <2>2. ReleaseActive(p)
    BY <1>5 DEF SavepointDestroy
  <2> QED
    BY <2>1, <2>2, ReleaseActiveOwn
<1> QED
  BY <1>3, <1>4, <1>5

LEMMA NextOwnInv == OwnInv /\ [Next]_vars => OwnInv'
<1> SUFFICES ASSUME Typed, Owned, [Next]_vars PROVE Typed' /\ Owned'
  BY TypedOK, TypedOKPrime
<1>t. \A t \in Txs : tx[t].conn \in Conns \cup {NoConn} /\ Session(tx[t].conn) \in Sessions
  BY SessionType DEF Typed, TxRecords
<1>1. ASSUME NEW t \in Txs, BeginTransaction(t) \/ BeginAutoTransaction(t)
      PROVE  Typed' /\ Owned'
  BY <1>1, BeginOwn
<1>2. ASSUME NEW t \in Txs, Begin(t)
      PROVE  Typed' /\ Owned'
  <2>1. OnBegin(Session(tx[t].conn)) \in SUBSET Answers
    BY <1>t, BeginAnswers
  <2> QED
    BY <1>2, <2>1, ControlOwn DEF Begin
<1>3. ASSUME NEW t \in Txs, Commit(t)
      PROVE  Typed' /\ Owned'
  <2>1. OnCommit(Session(tx[t].conn)) \in SUBSET Answers
    BY <1>t, CommitAnswers
  <2> QED
    BY <1>3, <2>1, ControlOwn DEF Commit
<1>4. ASSUME NEW t \in Txs, Rollback(t)
      PROVE  Typed' /\ Owned'
  <2>1. OnRollback(Session(tx[t].conn)) \in SUBSET Answers
    BY <1>t, RollbackAnswers
  <2> QED
    BY <1>4, <2>1, ControlOwn DEF Rollback
<1>5. ASSUME NEW t \in Txs, Query(t)
      PROVE  Typed' /\ Owned'
  <2>1. OnQuery(Session(tx[t].conn)) \in SUBSET Answers
    BY <1>t, QueryAnswers
  <2>2. PICK r \in Replies(tx[t].conn, OnQuery(Session(tx[t].conn))) : Sent(tx[t].conn, r)
    BY <1>5 DEF Query
  <2> QED
    BY <1>5, <1>t, <2>1, <2>2, StatementOwn, Zenon DEF Query, Typed
<1>6. ASSUME NEW t \in Txs, Destroy(t)
      PROVE  Typed' /\ Owned'
  BY <1>6, DestroyOwn
<1>7. ASSUME NEW t \in Txs, NEW u \in Txs, Move(t, u) \/ MoveAssign(t, u)
      PROVE  Typed' /\ Owned'
  BY <1>7, MoveOwn
<1>8. ASSUME NEW c \in Conns, Lose(c) \/ Replace(c)
      PROVE  Typed' /\ Owned'
  <2>1. Typed'
    BY <1>8, IdleType DEF Lose, Replace, Typed
  <2>2. tx' = tx /\ \A d \in Conns : pool'[d] = "used" <=> pool[d] = "used"
    BY <1>8 DEF Lose, Replace, Typed
  <2> QED
    BY <2>1, <2>2, OwnedKept
<1>9. CASE UNCHANGED vars
  BY <1>9 DEF vars, Typed, Owned
<1> QED
  BY <1>1, <1>2, <1>3, <1>4, <1>5, <1>6, <1>7, <1>8, <1>9, SavepointOwn, SavepointObjectOwn,
     SavepointMoveOwn
  DEF Next

(* A borrowed connection has exactly one transaction object, and a returned *)
(* one has none, whichever transactions callers move, assign over or        *)
(* destroy (Transaction, AutoTransaction and the pool's reset).             *)
THEOREM TransactionOwnership == Spec => []ConnectionOwned
<1>1. OwnInv => ConnectionOwned
  <2> SUFFICES ASSUME OwnInv, NEW c \in Conns,
                      NEW owners, owners = {t \in Txs : tx[t].conn = c}
               PROVE  Cardinality(owners) = IF pool[c] = "used" THEN 1 ELSE 0
    BY DEF OwnInv, ConnectionOwned
  <2>1. CASE pool[c] = "used"
    <3>1. PICK t \in Txs : tx[t].conn = c
      BY <2>1 DEF OwnInv, Owned
    <3>2. owners = {t}
      BY <3>1, NoConnAssumption DEF OwnInv, Owned
    <3> QED
      BY <2>1, <3>2, FS_Singleton, Zenon
  <2>2. CASE pool[c] # "used"
    <3>1. owners = {}
      BY <2>2 DEF OwnInv, Owned
    <3> QED
      BY <2>2, <3>1, FS_EmptySet
  <2> QED
    BY <2>1, <2>2
<1> QED
  BY <1>1, InitOwnInv, NextOwnInv, PTL DEF Spec

-----------------------------------------------------------------------------
(* What a transaction knows of its session. *)

(* A step after which the same sessions have a transaction. *)
LEMMA HonestKept ==
    ASSUME Typed, Honest,
           \A t \in Txs : tx'[t].conn = tx[t].conn /\ tx'[t].status = tx[t].status,
           \A c \in Conns : /\ SameState(srv[c], srv'[c])
                            /\ link'[c] = "good" <=> link[c] = "good"
                            /\ pool'[c] = "free" => pool[c] = "free"
    PROVE  Honest'
<1>1. \A t \in Txs : tx[t].conn \in Conns \cup {NoConn}
  BY DEF Typed, TxRecords
<1>2. StatusHonest'
  BY <1>1 DEF Honest, StatusHonest, SameState
<1>3. ReturnedClean'
  BY DEF Honest, ReturnedClean, SameState
<1>4. LostIdle'
  BY DEF Honest, LostIdle, SameState
<1> QED
  BY <1>2, <1>3, <1>4 DEF Honest

(* Queries and savepoint statements neither open nor close a transaction. *)
LEMMA StatementHonest ==
    ASSUME Typed, Honest, NEW c \in Conns \cup {NoConn}, NEW replies \in SUBSET Answers,
           NEW r \in Replies(c, replies), Sent(c, r), UNCHANGED <<tx, pool>>,
           \A q \in replies : SameState(Session(c), q.session)
    PROVE  Honest'
<1>1. \A d \in Conns : d # c => srv'[d] = srv[d] /\ link'[d] = link[d]
  BY SentEffect, Zenon DEF Typed
<1>2. ASSUME c # NoConn
      PROVE  /\ link'[c] = "good" <=> link[c] = "good"
             /\ SameState(srv[c], srv'[c])
  <2>1. /\ link'[c] = "good" <=> link[c] = "good"
        /\ link[c] = "good" => r \in replies /\ srv'[c] = r.session
        /\ link[c] # "good" => srv'[c].state = "idle"
    BY <1>2, SentEffect DEF Typed
  <2>2. Session(c) = srv[c] /\ c \in Conns
    BY <1>2 DEF Session
  <2>3. link[c] # "good" => srv[c].state = "idle"
    BY <2>2 DEF Honest, LostIdle
  <2>4. srv[c] \in Sessions /\ srv'[c] \in Sessions
    BY <2>2, SentEffect DEF Typed
  <2>5. srv[c].state = "idle" /\ srv'[c].state = "idle" => SameState(srv[c], srv'[c])
    BY <2>4 DEF Sessions, SameState
  <2> QED
    BY <2>1, <2>2, <2>3, <2>5
<1>3. \A d \in Conns : /\ SameState(srv[d], srv'[d])
                       /\ link'[d] = "good" <=> link[d] = "good"
  BY <1>1, <1>2, NoConnAssumption, Zenon DEF SameState
<1> QED
  BY <1>3, HonestKept

(* Control statements change the session and the status together. *)
Knows(status, s) ==
    /\ status = "ACTIVE" => s.state # "idle"
    /\ s.state # "idle" => status = "ACTIVE" \/ s.left

LEMMA ControlHonest ==
    ASSUME Typed, Owned, Honest, NEW t \in Txs,
           NEW replies \in SUBSET Answers, NEW done \in {"ACTIVE", "COMMITTED", "ROLLED_BACK"},
           Control(t, replies, done),
           link[tx[t].conn] = "good" => \A q \in replies :
               /\ q.ok /\ done = "ACTIVE" => q.session.state # "idle"
               /\ q.session.state # "idle" => (q.ok /\ done = "ACTIVE") \/ q.session.left
    PROVE  Honest'
<1> DEFINE c == tx[t].conn
<1>1. PICK r \in Replies(c, replies) :
          /\ Sent(c, r)
          /\ tx' = [tx EXCEPT ![t].status = IF r.ok THEN done ELSE "FAILED"]
          /\ UNCHANGED <<sp, pool>>
  BY Zenon DEF Control
<1>2. \A u \in Txs : tx[u].conn \in Conns \cup {NoConn} /\ tx[u] \in TxRecords
  BY DEF Typed, TxRecords
<1>3. /\ tx'[t].status = IF r.ok THEN done ELSE "FAILED"
      /\ \A u \in Txs : tx'[u].conn = tx[u].conn /\ (u # t => tx'[u] = tx[u])
  BY <1>1, <1>2 DEF Typed, TxRecords
<1> HIDE DEF c
<1>4. /\ \A d \in Conns : d # c => srv'[d] = srv[d] /\ link'[d] = link[d]
      /\ c # NoConn => /\ link'[c] = "good" <=> link[c] = "good"
                       /\ link[c] = "good" => r \in replies /\ srv'[c] = r.session
                       /\ link[c] # "good" => srv'[c].state = "idle"
  <2>1. c \in Conns \cup {NoConn} /\ r \in Replies(c, replies) /\ Sent(c, r)
    BY <1>1, <1>2 DEF c
  <2>2. srv \in [Conns -> Sessions] /\ link \in [Conns -> {"good", "lost", "bad"}]
    BY DEF Typed
  <2> QED
    BY <2>1, <2>2, SentEffect, SMTT(20)
<1>5. StatusHonest'
  <2>1. ASSUME NEW u \in Txs, tx'[u].conn # NoConn, link'[tx'[u].conn] = "good", u # t
        PROVE  Knows(tx'[u].status, srv'[tx'[u].conn])
    <3>1. tx[u].conn # c
      BY <1>3, <2>1 DEF Owned, c
    <3> QED
      BY <1>2, <1>3, <1>4, <2>1, <3>1 DEF Honest, StatusHonest, Knows
  <2>2. ASSUME c # NoConn, link'[c] = "good"
        PROVE  Knows(tx'[t].status, srv'[c])
    <3>1. link[c] = "good" /\ r \in replies /\ srv'[c] = r.session
      BY <1>4, <2>2
    <3>2. /\ r.ok /\ done = "ACTIVE" => r.session.state # "idle"
          /\ r.session.state # "idle" => (r.ok /\ done = "ACTIVE") \/ r.session.left
      BY <3>1 DEF c
    <3> QED
      BY <1>3, <3>1, <3>2 DEF Knows
  <2> QED
    BY <1>3, <2>1, <2>2 DEF StatusHonest, Knows, c
<1>6. ReturnedClean'
  <2>1. \A d \in Conns : d = c => pool[d] # "free"
    BY DEF Owned, c
  <2> QED
    BY <1>1, <1>4, <2>1 DEF Honest, ReturnedClean
<1>7. LostIdle'
  BY <1>4, NoConnAssumption DEF Honest, LostIdle
<1> QED
  BY <1>5, <1>6, <1>7 DEF Honest

(* BeginTransaction takes a clean connection; BeginAutoTransaction gives    *)
(* back the connection of a BEGIN that failed.                              *)
LEMMA BeginHonest ==
    ASSUME Typed, Owned, Honest, NEW t \in Txs,
           BeginTransaction(t) \/ BeginAutoTransaction(t)
    PROVE  Honest'
<1>1. \A u \in Txs : tx[u] \in TxRecords /\ tx[u].conn \in Conns \cup {NoConn}
  BY DEF Typed, TxRecords
<1>2. CASE BeginTransaction(t)
  <2>1. PICK c \in Conns :
            /\ pool[c] = "free" /\ pool' = [pool EXCEPT ![c] = "used"]
            /\ tx' = [tx EXCEPT ![t] = [status |-> "IDLE", conn |-> c, auto |-> FALSE]]
            /\ UNCHANGED <<srv, link>>
    BY <1>2, Zenon DEF BeginTransaction
  <2>2. /\ tx'[t].status = "IDLE" /\ tx'[t].conn = c
        /\ \A u \in Txs : u # t => tx'[u] = tx[u]
    BY <2>1 DEF Typed
  <2>3. srv[c].state = "idle" \/ srv[c].left
    BY <2>1 DEF Honest, ReturnedClean
  <2>4. StatusHonest'
    BY <2>1, <2>2, <2>3 DEF Honest, StatusHonest
  <2>5. ReturnedClean' /\ LostIdle'
    BY <2>1 DEF Honest, ReturnedClean, LostIdle, Typed
  <2> QED
    BY <2>4, <2>5 DEF Honest
<1>3. CASE BeginAutoTransaction(t)
  <2>0. PICK c \in Conns :
            pool[c] = "free" /\ \E r \in Replies(c, OnBegin(srv[c])) : AutoBegun(t, c, r)
    BY <1>3 DEF BeginAutoTransaction, AutoBegun
  <2>1. PICK r \in Replies(c, OnBegin(srv[c])) : AutoBegun(t, c, r)
    BY <2>0
  <2>2. srv[c] \in Sessions /\ (srv[c].state = "idle" \/ srv[c].left) /\ pool[c] = "free"
    BY <2>0 DEF Typed, Honest, ReturnedClean
  <2>3. \A q \in OnBegin(srv[c]) :
            /\ q \in Answers
            /\ q.ok => q.session.state # "idle"
            /\ ~q.ok => q.session.state = "idle" \/ q.session.left
    BY <2>2, BeginAnswers, Zenon DEF SameState
  <2>4. /\ \A d \in Conns : d # c => srv'[d] = srv[d] /\ link'[d] = link[d]
        /\ link'[c] = "good" <=> link[c] = "good"
        /\ r.ok => srv'[c].state # "idle"
        /\ ~r.ok => srv'[c].state = "idle" \/ srv'[c].left
        /\ link[c] # "good" => srv'[c].state = "idle"
        /\ link[c] # "good" => ~r.ok
    <3>1. Sent(c, r) /\ OnBegin(srv[c]) \in SUBSET Answers /\ c # NoConn
      BY <2>1, <2>3, NoConnAssumption DEF AutoBegun
    <3>2. srv \in [Conns -> Sessions] /\ link \in [Conns -> {"good", "lost", "bad"}]
      BY DEF Typed
    <3>3. /\ \A d \in Conns : d # c => srv'[d] = srv[d] /\ link'[d] = link[d]
          /\ link'[c] = "good" <=> link[c] = "good"
          /\ link[c] = "good" => r \in OnBegin(srv[c]) /\ srv'[c] = r.session
          /\ link[c] # "good" => ~r.ok /\ srv'[c].state = "idle"
      BY <3>1, <3>2, SentEffect
    <3> QED
      BY <2>3, <3>3
  <2>5. \A d \in Conns : d # c => pool'[d] = pool[d]
    BY <2>1 DEF AutoBegun, Typed
  <2>6. ReturnedClean'
    <3>1. r.ok => pool'[c] # "free"
      BY <2>1 DEF AutoBegun, Typed
    <3> QED
      BY <2>4, <2>5, <3>1 DEF Honest, ReturnedClean
  <2>7. LostIdle'
    BY <2>4 DEF Honest, LostIdle
  <2>8. \A u \in Txs : tx[u].conn # c
    BY <2>2 DEF Owned
  <2>9. CASE r.ok
    <3>1. /\ tx'[t].status = "ACTIVE" /\ tx'[t].conn = c
          /\ \A u \in Txs : u # t => tx'[u] = tx[u]
      BY <2>1, <2>9 DEF AutoBegun, Typed
    <3>2. StatusHonest'
      BY <1>1, <2>4, <2>8, <2>9, <3>1 DEF Honest, StatusHonest
    <3> QED
      BY <2>6, <2>7, <3>2 DEF Honest
  <2>10. CASE ~r.ok
    <3>1. tx' = tx
      BY <2>1, <2>10 DEF AutoBegun
    <3>2. StatusHonest'
      BY <1>1, <2>4, <2>8, <3>1 DEF Honest, StatusHonest
    <3> QED
      BY <2>6, <2>7, <3>2 DEF Honest
  <2> QED
    BY <2>9, <2>10
<1> QED
  BY <1>2, <1>3

(* The destructor leaves no transaction of its own on the connection it     *)
(* gives back: it rolls an active one back, and in any other status there   *)
(* is none but one left by an assignment before.                            *)
LEMMA DestroyHonest ==
    ASSUME Typed, Owned, Honest, NEW t \in Txs, Destroy(t)
    PROVE  Honest'
<1> DEFINE c == tx[t].conn
<1>1. \A u \in Txs : tx[u].conn \in Conns \cup {NoConn}
  BY DEF Typed, TxRecords
<1>2. tx'[t].conn = NoConn /\ \A u \in Txs : u # t => tx'[u] = tx[u]
  BY DEF Destroy, Typed, NoTx
<1>3. CASE c = NoConn
  <2>1. UNCHANGED <<srv, link, pool>>
    BY <1>3 DEF Destroy
  <2> QED
    BY <1>2, <2>1 DEF Honest, StatusHonest, ReturnedClean, LostIdle
<1>4. CASE c # NoConn
  <2>1. c \in Conns
    BY <1>1, <1>4
  <2>2. /\ \A d \in Conns : d # c => srv'[d] = srv[d] /\ link'[d] = link[d]
        /\ link'[c] = "good" <=> link[c] = "good"
        /\ srv'[c].state = "idle" \/ (link[c] = "good" /\ srv'[c].left)
    <3>1. CASE tx[t].status = "ACTIVE"
      <4>1. PICK r \in Replies(c, OnRollback(srv[c])) : Sent(c, r)
        BY <1>4, <3>1 DEF Destroy
      <4>2. \A q \in OnRollback(srv[c]) : q \in Answers /\ q.session.state = "idle"
        BY <2>1, RollbackAnswers DEF Typed
      <4>3. srv \in [Conns -> Sessions] /\ link \in [Conns -> {"good", "lost", "bad"}]
        BY DEF Typed
      <4> HIDE DEF c
      <4>4. OnRollback(srv[c]) \in SUBSET Answers
        BY <4>2
      <4> QED
        BY <1>4, <2>1, <4>1, <4>2, <4>3, <4>4, SentEffect
    <3>2. CASE tx[t].status # "ACTIVE"
      <4>1. UNCHANGED <<srv, link>>
        BY <1>4, <3>2 DEF Destroy
      <4>2. srv[c].state = "idle" \/ (link[c] = "good" /\ srv[c].left)
        BY <1>4, <2>1, <3>2 DEF Honest, StatusHonest, LostIdle
      <4> QED
        BY <4>1, <4>2
    <3> QED
      BY <3>1, <3>2
  <2>3. \A d \in Conns : d # c => pool'[d] = pool[d]
    BY <1>4 DEF Destroy, Typed
  <2>4. \A u \in Txs : u # t => tx[u].conn # c
    BY <1>4 DEF Owned
  <2> HIDE DEF c
  <2>5. StatusHonest'
    BY <1>1, <1>2, <2>2, <2>4 DEF Honest, StatusHonest
  <2>6. ReturnedClean' /\ LostIdle'
    BY <2>2, <2>3 DEF Honest, ReturnedClean, LostIdle
  <2> QED
    BY <2>5, <2>6 DEF Honest
<1> QED
  BY <1>3, <1>4

(* A move takes the connection along; an assignment gives back the one of   *)
(* the object assigned over, and marks a transaction that is open on it.    *)
LEMMA MoveHonest ==
    ASSUME Typed, Owned, Honest, NEW t \in Txs, NEW u \in Txs,
           Move(t, u) \/ MoveAssign(t, u)
    PROVE  Honest'
<1> DEFINE c == tx[u].conn
<1>1. /\ t # u /\ UNCHANGED link
      /\ tx' = [tx EXCEPT ![u] = tx[t], ![t] = MovedFrom(t)]
  BY DEF Move, MoveAssign
<1>2. MovedFrom(t).conn = NoConn
  BY DEF MovedFrom, Typed, TxRecords
<1>3. /\ tx'[t] = MovedFrom(t) /\ tx'[u] = tx[t]
      /\ \A v \in Txs : v # t /\ v # u => tx'[v] = tx[v]
  BY <1>1 DEF Typed
<1>4. \A v \in Txs : tx[v].conn \in Conns \cup {NoConn}
  BY DEF Typed, TxRecords
<1>5. /\ \A d \in Conns : d # c => srv'[d] = srv[d] /\ pool'[d] = pool[d]
      /\ c # NoConn => srv'[c].state = "idle" \/ srv'[c].left
      /\ c # NoConn => (srv'[c].state = "idle" <=> srv[c].state = "idle")
  <2>1. CASE Move(t, u)
    <3>1. c = NoConn
      BY <2>1 DEF Move, Owned
    <3> QED
      BY <2>1, <3>1 DEF Move
  <2>2. CASE MoveAssign(t, u) /\ c = NoConn
    BY <2>2 DEF MoveAssign
  <2>3. CASE MoveAssign(t, u) /\ c # NoConn
    <3>1. c \in Conns /\ srv[c] \in Sessions
      BY <1>4, <2>3 DEF Typed
    <3>2. /\ srv' = [srv EXCEPT ![c].left = (srv[c].state # "idle")]
          /\ \E to \in Returned(link[c]) : pool' = [pool EXCEPT ![c] = to]
      BY <2>3 DEF MoveAssign
    <3> DEFINE l == [srv[c] EXCEPT !.left = (srv[c].state # "idle")]
    <3>3. l.state = srv[c].state /\ (l.left <=> srv[c].state # "idle")
      BY <3>1, LeftType, Zenon
    <3>4. srv'[c] = l /\ \A d \in Conns : d # c => srv'[d] = srv[d]
      BY <3>1, <3>2 DEF Typed
    <3>5. \A d \in Conns : d # c => pool'[d] = pool[d]
      BY <3>2 DEF Typed
    <3> HIDE DEF l, c
    <3> QED
      BY <3>3, <3>4, <3>5
  <2> QED
    BY <2>1, <2>2, <2>3
<1>6. \A v \in Txs : v # u /\ tx[v].conn # NoConn => tx[v].conn # c
  BY DEF Owned
<1> HIDE DEF c
<1>7. StatusHonest'
  <2> SUFFICES ASSUME NEW v \in Txs, tx'[v].conn # NoConn, link'[tx'[v].conn] = "good"
               PROVE  Knows(tx'[v].status, srv'[tx'[v].conn])
    BY DEF StatusHonest, Knows
  <2>1. PICK w \in Txs : w # u /\ tx'[v] = tx[w]
    BY <1>1, <1>2, <1>3, Zenon
  <2>2. tx[w].conn \in Conns /\ tx[w].conn # c
    BY <1>4, <1>6, <2>1
  <2>3. Knows(tx[w].status, srv[tx[w].conn])
    BY <1>1, <2>1 DEF Honest, StatusHonest, Knows
  <2> QED
    BY <1>5, <2>1, <2>2, <2>3
<1>8. ReturnedClean'
  BY <1>5, NoConnAssumption DEF Honest, ReturnedClean
<1>9. LostIdle'
  BY <1>1, <1>5, NoConnAssumption DEF Honest, LostIdle
<1> QED
  BY <1>7, <1>8, <1>9 DEF Honest

LEMMA SavepointHonest ==
    ASSUME Typed, Honest, NEW t \in Txs, NEW p \in Sps, NEW n \in Names, Savepoint(t, p, n)
    PROVE  Honest'
<1> DEFINE c == tx[t].conn
           replies == OnSavepoint(Session(c), n)
<1>1. c \in Conns \cup {NoConn}
  BY DEF Typed, TxRecords
<1>2. \A q \in replies : q \in Answers /\ SameState(Session(c), q.session)
  BY <1>1, SessionType, SavepointAnswers DEF Savepoint, Typed
<1>3. PICK r \in Replies(c, replies) : Sent(c, r)
  BY DEF Savepoint
<1>4. UNCHANGED <<tx, pool>>
  BY DEF Savepoint
<1> HIDE DEF c, replies
<1>5. replies \in SUBSET Answers
  BY <1>2
<1> QED
  BY <1>1, <1>2, <1>3, <1>4, <1>5, StatementHonest

(* A savepoint object sends statements, or is moved without one. *)
LEMMA SavepointObjectHonest ==
    ASSUME Typed, Honest, NEW p \in Sps,
           \/ SavepointRollback(p) \/ SavepointRelease(p) \/ SavepointDestroy(p)
           \/ \E q \in Sps : SavepointMove(q, p) \/ SavepointMoveAssign(q, p)
    PROVE  Honest'
<1> DEFINE c == sp[p].conn
           rollbacks == OnRollbackTo(Session(c), sp[p].name)
           releases == OnRelease(Session(c), sp[p].name)
<1>1. c \in Conns \cup {NoConn}
  BY DEF Typed, SpRecords
<1>2. UNCHANGED <<tx, pool>>
  BY DEF SavepointRollback, SavepointRelease, SavepointDestroy, SavepointMove,
         SavepointMoveAssign
<1>3. /\ \A q \in rollbacks :
             q \in Answers /\ SameState(Session(c), q.session)
      /\ \A q \in releases :
             q \in Answers /\ SameState(Session(c), q.session)
  BY <1>1, SessionType, RollbackToAnswers, ReleaseAnswers DEF Typed
<1>4. \/ \E r \in Replies(c, rollbacks) : Sent(c, r)
      \/ \E r \in Replies(c, releases) : Sent(c, r)
      \/ UNCHANGED <<srv, link>>
  BY DEF SavepointRollback, SavepointRelease, SavepointDestroy, SavepointMove,
         SavepointMoveAssign, ReleaseActive
<1> HIDE DEF c, rollbacks, releases
<1>5. rollbacks \in SUBSET Answers /\ releases \in SUBSET Answers
  BY <1>3
<1>6. CASE \E r \in Replies(c, rollbacks) : Sent(c, r)
  BY <1>1, <1>2, <1>3, <1>5, <1>6, StatementHonest
<1>7. CASE \E r \in Replies(c, releases) : Sent(c, r)
  BY <1>1, <1>2, <1>3, <1>5, <1>7, StatementHonest
<1>8. CASE UNCHANGED <<srv, link>>
  BY <1>2, <1>8, HonestKept DEF SameState
<1> QED
  BY <1>4, <1>6, <1>7, <1>8

LEMMA NextHonest ==
    ASSUME OwnInv, Honest, [Next]_vars
    PROVE  Honest'
<1>o. Typed /\ Owned
  BY TypedOK
<1>t. \A t \in Txs : tx[t].conn \in Conns \cup {NoConn} /\ Session(tx[t].conn) \in Sessions
  BY <1>o, SessionType DEF Typed, TxRecords
<1>1. ASSUME NEW t \in Txs, BeginTransaction(t) \/ BeginAutoTransaction(t)
      PROVE  Honest'
  BY <1>1, <1>o, BeginHonest
<1>2. ASSUME NEW t \in Txs, Begin(t)
      PROVE  Honest'
  <2> DEFINE s == Session(tx[t].conn)
  <2>1. s.state = "idle" \/ s.left
    BY <1>2, <1>t, IdleType DEF Begin, Session, Honest, StatusHonest, LostIdle
  <2>2. \A q \in OnBegin(s) :
            /\ q \in Answers
            /\ q.ok => q.session.state # "idle"
            /\ q.session.state # "idle" => q.ok \/ q.session.left
    <3>1. s \in Sessions
      BY <1>t
    <3> HIDE DEF s
    <3> QED
      BY <2>1, <3>1, BeginAnswers DEF SameState
  <2>3. OnBegin(s) \in SUBSET Answers
    BY <2>2
  <2> QED
    BY <1>2, <1>o, <2>2, <2>3, ControlHonest DEF Begin
<1>3. ASSUME NEW t \in Txs, Commit(t)
      PROVE  Honest'
  <2>1. \A q \in OnCommit(Session(tx[t].conn)) : q \in Answers /\ q.session.state = "idle"
    BY <1>t, CommitAnswers
  <2>2. OnCommit(Session(tx[t].conn)) \in SUBSET Answers
    BY <2>1
  <2> QED
    BY <1>3, <1>o, <2>1, <2>2, ControlHonest DEF Commit
<1>4. ASSUME NEW t \in Txs, Rollback(t)
      PROVE  Honest'
  <2>1. \A q \in OnRollback(Session(tx[t].conn)) : q \in Answers /\ q.session.state = "idle"
    BY <1>t, RollbackAnswers
  <2>2. OnRollback(Session(tx[t].conn)) \in SUBSET Answers
    BY <2>1
  <2> QED
    BY <1>4, <1>o, <2>1, <2>2, ControlHonest DEF Rollback
<1>5. ASSUME NEW t \in Txs, Query(t)
      PROVE  Honest'
  <2>1. \A q \in OnQuery(Session(tx[t].conn)) :
            q \in Answers /\ SameState(Session(tx[t].conn), q.session)
    BY <1>t, QueryAnswers
  <2>2. OnQuery(Session(tx[t].conn)) \in SUBSET Answers
    BY <2>1
  <2>3. PICK r \in Replies(tx[t].conn, OnQuery(Session(tx[t].conn))) : Sent(tx[t].conn, r)
    BY <1>5 DEF Query
  <2> QED
    BY <1>5, <1>o, <1>t, <2>1, <2>2, <2>3, StatementHonest DEF Query
<1>6. ASSUME NEW t \in Txs, Destroy(t)
      PROVE  Honest'
  BY <1>6, <1>o, DestroyHonest
<1>7. ASSUME NEW t \in Txs, NEW u \in Txs, Move(t, u) \/ MoveAssign(t, u)
      PROVE  Honest'
  BY <1>7, <1>o, MoveHonest
<1>8. ASSUME NEW c \in Conns, Lose(c) \/ Replace(c)
      PROVE  Honest'
  <2>1. /\ \A d \in Conns : d # c => srv'[d] = srv[d] /\ link'[d] = link[d] /\ pool'[d] = pool[d]
        /\ srv'[c].state = "idle"
        /\ tx' = tx
    BY <1>8, <1>o, IdleType DEF Lose, Replace, Typed
  <2>2. ReturnedClean' /\ LostIdle'
    BY <2>1 DEF Honest, ReturnedClean, LostIdle
  <2>3. CASE Lose(c)
    <3>1. link'[c] # "good"
      BY <1>o, <2>3 DEF Lose, Typed
    <3>2. StatusHonest'
      BY <1>t, <2>1, <3>1 DEF Honest, StatusHonest
    <3> QED
      BY <2>2, <3>2 DEF Honest
  <2>4. CASE Replace(c)
    <3>1. \A t \in Txs : tx[t].conn # c
      BY <1>o, <2>4 DEF Replace, Owned
    <3>2. StatusHonest'
      BY <1>t, <2>1, <3>1 DEF Honest, StatusHonest
    <3> QED
      BY <2>2, <3>2 DEF Honest
  <2> QED
    BY <1>8, <2>3, <2>4
<1>9. CASE UNCHANGED vars
  BY <1>9 DEF vars, Honest, StatusHonest, ReturnedClean, LostIdle
<1> QED
  BY <1>1, <1>2, <1>3, <1>4, <1>5, <1>6, <1>7, <1>8, <1>9, <1>o,
     SavepointHonest, SavepointObjectHonest
  DEF Next

LEMMA InitHonest == Init => Honest
BY IdleType DEF Init, Honest, StatusHonest, ReturnedClean, LostIdle, NoTx

(* The inductive invariant: ownership, and honesty about the sessions. *)
THEOREM TransactionInvariant == Spec => []TxInv
<1>1. Init => TxInv
  BY InitOwnInv, InitHonest DEF TxInv
<1>2. TxInv /\ [Next]_vars => TxInv'
  BY NextOwnInv, NextHonest DEF TxInv
<1> QED
  BY <1>1, <1>2, PTL DEF Spec

(* An object's status_ tells whether the server has a transaction on its    *)
(* connection, after any replies, lost connections, savepoint statements    *)
(* and moves; only a transaction left by assigning over an ACTIVE object    *)
(* can be open behind an object that is not ACTIVE.                         *)
THEOREM TransactionHonest == Spec => []StatusHonest
<1>1. TxInv => StatusHonest
  BY DEF TxInv, Honest
<1> QED
  BY <1>1, TransactionInvariant, PTL

(* The destructors and failed BEGINs hand back connections without a        *)
(* transaction; assigning over an ACTIVE object is the only source of one   *)
(* on a connection that can be borrowed.                                    *)
THEOREM TransactionClean == Spec => []ReturnedClean
<1>1. TxInv => ReturnedClean
  BY DEF TxInv, Honest
<1> QED
  BY <1>1, TransactionInvariant, PTL
=============================================================================
