------------------------------ MODULE Logger ------------------------------
(***************************************************************************)
(* The asynchronous logger of common/scroll: producers log() into the      *)
(* disruptor, the consumer thread collects batches and posts them to one   *)
(* strand per sink, a thread pool runs the strands, and shutdown() sends a *)
(* last event through the ring, joins the consumer and drains the strands. *)
(*                                                                         *)
(* The disruptor is used through what EventStream promises: a claim is one *)
(* step, because MultiProducerSequencer is proved to implement the stream. *)
(* The wait strategies are modelled here, as they decide who wakes whom.   *)
(***************************************************************************)
EXTENDS Integers, Sequences, FiniteSets, Functions

CONSTANTS Producers,    \* the threads that log
          Closer,       \* the thread that owns the logger
          BufferSize,   \* LoggerConfig::ring_buffer_size
          Strategies,   \* LoggerConfig::WaitStrategy: "spin" (busy or yielding), "blocking"
          OwnsPool,     \* whether the executor is the logger's own pool
          SinkConfig,   \* threshold and prefix filter of each sink, in order
          Messages,     \* what is logged: records with level and prefix
          Shutdown,     \* the event with shutdown_signal = true
          NoPrefix,     \* the empty prefix
          Quota         \* bound: how many log() or flush() calls a thread makes

ASSUME BufferSizeAssumption == BufferSize \in Nat \ {0}
ASSUME CloserAssumption == Closer \notin Producers
ASSUME ShutdownAssumption == Shutdown \notin Messages
ASSUME QuotaAssumption == Quota \in Nat
ASSUME SinkConfigAssumption == Len(SinkConfig) \in Nat

VARIABLES claims,       \* the events by sequence, in order of their claims
          published,    \* the sequences whose flag was raised
          gating,       \* gating_sequence_
          running,      \* running_
          strategy,     \* the wait strategy of the disruptor
          pc,           \* where each calling thread is
          msg,          \* the event it logs
          mine,         \* the sequence it claimed
          left,         \* how many calls it may still make
          cpc,          \* where the consumer thread is
          next_seq,     \* next_seq of consumer_loop
          bound,        \* the cursor its scan goes up to
          seq,          \* the sequence it takes next
          highest,      \* available: the result of get_highest_published
          batch,        \* the sequences moved out of the ring
          sink,         \* the sink it posts to next
          strand,       \* the queue of tasks of each sink's strand
          written,      \* the sequences each sink wrote, in order
          flushed,      \* how many of them it has flushed
          remaining     \* remaining: sinks shutdown() still waits for

ringVars == <<claims, published, gating, strategy>>
callerVars == <<pc, msg, mine, left>>
consumerVars == <<cpc, next_seq, bound, seq, highest, batch, sink>>
sinkVars == <<strand, written, flushed>>
vars == <<ringVars, running, callerVars, consumerVars, sinkVars, remaining>>

Threads == Producers \cup {Closer}
Sinks == 1 .. Len(SinkConfig)
Cursor == Len(claims) - 1
Event(s) == claims[s + 1]

Init ==
    /\ claims = << >> /\ published = {} /\ gating = -1
    /\ running = TRUE
    /\ strategy \in Strategies
    /\ pc = [t \in Threads |-> "idle"]
    /\ msg = [t \in Threads |-> Shutdown]
    /\ mine = [t \in Threads |-> -1]
    /\ left = [t \in Threads |-> IF t = Closer THEN 2 ELSE Quota]
    /\ cpc = "check" /\ next_seq = 0 /\ bound = -1 /\ seq = 0 /\ highest = -1
    /\ batch = << >> /\ sink = 1
    /\ strand = [k \in Sinks |-> << >>]
    /\ written = [k \in Sinks |-> << >>]
    /\ flushed = [k \in Sinks |-> 0]
    /\ remaining = 0

-----------------------------------------------------------------------------
(* What a sink lets through. *)

(* PrefixFilter::accepts *)
Accepts(filter, prefix) ==
    IF prefix = NoPrefix
    THEN ~filter.block_empty
    ELSE \/ filter.mode = "AllowAll"
         \/ filter.mode = "Allowlist" /\ prefix \in filter.set
         \/ filter.mode = "Denylist" /\ prefix \notin filter.set

(* Sink::should_log *)
ShouldLog(k, m) ==
    /\ m.level >= SinkConfig[k].threshold
    /\ Accepts(SinkConfig[k].filter, m.prefix)

(* The members of ss that are in S, in order. *)
Selected(ss, S) ==
    LET upTo[n \in 0 .. Len(ss)] ==
            IF n = 0 THEN << >>
            ELSE IF ss[n] \in S THEN Append(upTo[n - 1], ss[n]) ELSE upTo[n - 1]
    IN  upTo[Len(ss)]

(* The events of a sequence of sequences that sink k writes. *)
Filtered(k, ss) == Selected(ss, {s \in Range(ss) : ShouldLog(k, Event(s))})

-----------------------------------------------------------------------------
(* log() and shutdown(): claim, write and publish, signal. *)

(* The message is formatted and its metadata captured before the claim. *)
StartLog(p) ==
    /\ pc[p] = "idle" /\ left[p] > 0
    /\ \E m \in Messages : msg' = [msg EXCEPT ![p] = m]
    /\ left' = [left EXCEPT ![p] = @ - 1]
    /\ pc' = [pc EXCEPT ![p] = "claim"]
    /\ UNCHANGED <<ringVars, running, mine, consumerVars, sinkVars, remaining>>

(* The owner calls shutdown(), and the destructor calls it again. *)
StartShutdown ==
    /\ pc[Closer] \in {"idle", "returned"} /\ left[Closer] > 0
    /\ left' = [left EXCEPT ![Closer] = @ - 1]
    /\ pc' = [pc EXCEPT ![Closer] = IF running THEN "claim" ELSE "returned"]
    /\ UNCHANGED <<ringVars, running, msg, mine, consumerVars, sinkVars, remaining>>

(* next(): spins while the ring is full. *)
Claim(t) ==
    /\ pc[t] = "claim"
    /\ Cursor - gating < BufferSize
    /\ claims' = Append(claims, msg[t])
    /\ mine' = [mine EXCEPT ![t] = Cursor + 1]
    /\ pc' = [pc EXCEPT ![t] = "publish"]
    /\ UNCHANGED <<published, gating, strategy, running, msg, left, consumerVars, sinkVars, remaining>>

(* The slot is written and publish() raises its flag ... *)
Publish(t) ==
    /\ pc[t] = "publish"
    /\ published' = published \cup {mine[t]}
    /\ pc' = [pc EXCEPT ![t] = "signal"]
    /\ UNCHANGED <<claims, gating, strategy, running, msg, mine, left, consumerVars, sinkVars, remaining>>

(* ... and calls signal(): notify_one, without the mutex, reaches only a
   thread that is already asleep. *)
Signal(t) ==
    /\ pc[t] = "signal"
    /\ cpc' = IF cpc = "asleep" THEN "locked" ELSE cpc
    /\ pc' = [pc EXCEPT ![t] = IF t = Closer THEN "join" ELSE "idle"]
    /\ UNCHANGED <<ringVars, running, msg, mine, left,
                   next_seq, bound, seq, highest, batch, sink, sinkVars, remaining>>

(* Logger::flush() posts a flush to every strand and returns. *)
Flush(p) ==
    /\ pc[p] = "idle" /\ left[p] > 0
    /\ left' = [left EXCEPT ![p] = @ - 1]
    /\ strand' = [k \in Sinks |-> Append(strand[k], [kind |-> "flush", events |-> << >>])]
    /\ UNCHANGED <<ringVars, running, pc, msg, mine, consumerVars, written, flushed, remaining>>

(* Fault: shutdown() flushes the sinks without joining the consumer. *)
JoinSkipped ==
    /\ pc[Closer] = "join"
    /\ remaining' = Len(SinkConfig)
    /\ strand' = [k \in Sinks |-> Append(strand[k], [kind |-> "last_flush", events |-> << >>])]
    /\ pc' = [pc EXCEPT ![Closer] = "drain"]
    /\ UNCHANGED <<ringVars, running, msg, mine, left, consumerVars, written, flushed>>

(* The consumer is joined; then the strands are drained: behind everything
   the consumer posted, each gets a last flush. *)
Join ==
    /\ pc[Closer] = "join"
    /\ cpc = "exit"
    /\ remaining' = Len(SinkConfig)
    /\ strand' = [k \in Sinks |-> Append(strand[k], [kind |-> "last_flush", events |-> << >>])]
    /\ pc' = [pc EXCEPT ![Closer] = "drain"]
    /\ UNCHANGED <<ringVars, running, msg, mine, left, consumerVars, written, flushed>>

(* All last flushes ran; an own pool is joined, which runs what is left. *)
Drained ==
    /\ pc[Closer] = "drain"
    /\ remaining = 0
    /\ OwnsPool => \A k \in Sinks : strand[k] = << >>
    /\ running' = FALSE
    /\ pc' = [pc EXCEPT ![Closer] = "returned"]
    /\ UNCHANGED <<ringVars, msg, mine, left, consumerVars, sinkVars, remaining>>

-----------------------------------------------------------------------------
(* consumer_loop *)

(* running_ is checked and the cursor read for the scan. *)
Poll ==
    /\ cpc = "check"
    /\ bound' = Cursor
    /\ cpc' = IF running THEN "scan" ELSE "exit"
    /\ UNCHANGED <<ringVars, running, callerVars, next_seq, seq, highest, batch, sink, sinkVars, remaining>>

(* get_highest_published(next_seq, bound): the end of the published run. *)
HighestPublished ==
    CHOOSE h \in next_seq - 1 .. bound :
        /\ \A s \in next_seq .. h : s \in published
        /\ h = bound \/ h + 1 \notin published

Scan ==
    /\ cpc = "scan"
    /\ highest' = HighestPublished
    /\ cpc' = IF HighestPublished < next_seq THEN "wait" ELSE "take"
    /\ seq' = next_seq
    /\ batch' = << >>
    /\ UNCHANGED <<ringVars, running, callerVars, next_seq, bound, sink, sinkVars, remaining>>

(* Fault: the shutdown event drops the batch collected before it. *)
TakeDropsBatch ==
    /\ cpc = "take"
    /\ seq' = seq + 1
    /\ IF Event(seq) = Shutdown
       THEN running' = FALSE /\ cpc' = "gate" /\ batch' = << >>
       ELSE /\ batch' = Append(batch, seq)
            /\ cpc' = IF seq < highest THEN "take" ELSE "gate"
            /\ running' = running
    /\ UNCHANGED <<ringVars, callerVars, next_seq, bound, highest, sink, sinkVars, remaining>>

(* One event is moved into the batch; the shutdown event ends the loop. *)
Take ==
    /\ cpc = "take"
    /\ seq' = seq + 1
    /\ IF Event(seq) = Shutdown
       THEN running' = FALSE /\ cpc' = "gate" /\ batch' = batch
       ELSE /\ batch' = Append(batch, seq)
            /\ cpc' = IF seq < highest THEN "take" ELSE "gate"
            /\ running' = running
    /\ UNCHANGED <<ringVars, callerVars, next_seq, bound, highest, sink, sinkVars, remaining>>

(* Fault: the slots up to the end of the scan are released. *)
UpdateGatingToHighest ==
    /\ cpc = "gate"
    /\ gating' = highest
    /\ next_seq' = highest + 1
    /\ sink' = 1
    /\ cpc' = IF batch = << >> \/ Sinks = {} THEN "check" ELSE "post"
    /\ UNCHANGED <<claims, published, strategy, running, callerVars, bound, seq, highest, batch, sinkVars, remaining>>

UpdateGating ==
    /\ cpc = "gate"
    /\ gating' = seq - 1
    /\ next_seq' = seq
    /\ sink' = 1
    /\ cpc' = IF batch = << >> \/ Sinks = {} THEN "check" ELSE "post"
    /\ UNCHANGED <<claims, published, strategy, running, callerVars, bound, seq, highest, batch, sinkVars, remaining>>

(* The shared batch is posted to one strand after the other. *)
Post ==
    /\ cpc = "post"
    /\ strand' = [strand EXCEPT ![sink] = Append(@, [kind |-> "batch", events |-> batch])]
    /\ sink' = sink + 1
    /\ cpc' = IF sink < Len(SinkConfig) THEN "post" ELSE "check"
    /\ UNCHANGED <<ringVars, running, callerVars, next_seq, bound, seq, highest, batch,
                   written, flushed, remaining>>

-----------------------------------------------------------------------------
(* wait_for(next_seq): waits for the claim, not for the publication. *)

waitUnchanged == <<ringVars, running, callerVars, next_seq, bound, seq, highest, batch,
                   sink, sinkVars, remaining>>

(* Fault: the check waits for one event more. *)
WaitCheckOffByOne ==
    /\ cpc = "wait"
    /\ \/ Cursor > next_seq /\ cpc' = "check"
       \/ Cursor <= next_seq /\ strategy = "blocking" /\ cpc' = "locked"
    /\ UNCHANGED waitUnchanged

(* The first check of the cursor: spinning strategies repeat it. *)
WaitCheck ==
    /\ cpc = "wait"
    /\ \/ Cursor >= next_seq /\ cpc' = "check"
       \/ Cursor < next_seq /\ strategy = "blocking" /\ cpc' = "locked"
    /\ UNCHANGED waitUnchanged

(* The check under the mutex; "falling" is before cv.wait has released it. *)
LockedCheck ==
    /\ cpc = "locked"
    /\ cpc' = IF Cursor >= next_seq THEN "check" ELSE "falling"
    /\ UNCHANGED waitUnchanged

FallAsleep ==
    /\ cpc = "falling"
    /\ cpc' = "asleep"
    /\ UNCHANGED waitUnchanged

SpuriousWakeup ==
    /\ cpc = "asleep"
    /\ cpc' = "locked"
    /\ UNCHANGED waitUnchanged

Consumer ==
    \/ Poll \/ Scan \/ Take \/ UpdateGating \/ Post
    \/ WaitCheck \/ LockedCheck \/ FallAsleep

-----------------------------------------------------------------------------
(* A pool thread runs the oldest task of a strand, if the pool still runs. *)
RunStrand(k) ==
    /\ strand[k] # << >>
    /\ ~(OwnsPool /\ pc[Closer] = "returned")
    /\ LET task == Head(strand[k])
       IN  /\ written' = [written EXCEPT ![k] = @ \o Filtered(k, task.events)]
           /\ flushed' = [flushed EXCEPT ![k] = IF task.kind = "batch" THEN @ ELSE Len(written[k])]
           /\ remaining' = IF task.kind = "last_flush" THEN remaining - 1 ELSE remaining
    /\ strand' = [strand EXCEPT ![k] = Tail(@)]
    /\ UNCHANGED <<ringVars, running, callerVars, consumerVars>>

Caller(t) == Claim(t) \/ Publish(t) \/ Signal(t)

Next ==
    \/ \E p \in Producers : StartLog(p) \/ Flush(p)
    \/ \E t \in Threads : Caller(t)
    \/ StartShutdown \/ Join \/ Drained
    \/ Consumer \/ SpuriousWakeup
    \/ \E k \in Sinks : RunStrand(k)

Spec == Init /\ [][Next]_vars

(* Threads inside a call, the consumer and the pool keep running.  Nothing
   makes a thread log or shut down, or a condition variable wake by itself. *)
Fairness ==
    /\ \A t \in Threads : WF_vars(Caller(t))
    /\ WF_vars(Join \/ Drained)
    /\ WF_vars(Consumer)
    /\ \A k \in Sinks : WF_vars(RunStrand(k))

FairSpec == Spec /\ Fairness
-----------------------------------------------------------------------------
(* Properties. *)

(* Every thread is at a known place, sequences are integers, the strands   *)
(* hold tasks, and the counters stay within their bounds.                  *)
TypeOK ==
    /\ claims \in Seq(Messages \cup {Shutdown})
    /\ published \subseteq 0 .. Cursor
    /\ gating \in Int /\ running \in BOOLEAN /\ strategy \in Strategies
    /\ pc \in [Threads -> {"idle", "claim", "publish", "signal", "join", "drain", "returned"}]
    /\ msg \in [Threads -> Messages \cup {Shutdown}]
    /\ mine \in [Threads -> -1 .. Cursor]
    /\ left \in [Threads -> 0 .. Quota + 2]
    /\ cpc \in {"check", "scan", "take", "gate", "post", "exit",
                "wait", "locked", "falling", "asleep"}
    /\ next_seq \in Nat /\ bound \in -1 .. Cursor /\ seq \in Nat /\ highest \in -1 .. Cursor
    /\ batch \in Seq(0 .. Cursor) /\ sink \in 1 .. Len(SinkConfig) + 1
    /\ strand \in [Sinks -> Seq([kind : {"batch", "flush", "last_flush"}, events : Seq(0 .. Cursor)])]
    /\ written \in [Sinks -> Seq(0 .. Cursor)]
    /\ flushed \in [Sinks -> Nat]
    /\ remaining \in 0 .. Len(SinkConfig)

(* The events the consumer moved out of the ring. *)
Taken == IF cpc \in {"take", "gate"} THEN seq ELSE next_seq

(* The log events with sequences below n that sink k has to write. *)
Due(k, n) ==
    Selected([i \in 1 .. n |-> i - 1],
             {s \in 0 .. n - 1 : Event(s) # Shutdown /\ ShouldLog(k, Event(s))})

(* The events of the tasks of a strand, in order. *)
EventsOf(tasks) ==
    LET upTo[n \in 0 .. Len(tasks)] ==
            IF n = 0 THEN << >> ELSE upTo[n - 1] \o tasks[n].events
    IN  upTo[Len(tasks)]

(* The events posted to sink k and not processed yet. *)
Pending(k) == EventsOf(strand[k])

(* What consumer_loop took from the ring and did not post to sink k yet. *)
Unposted(k) ==
    IF cpc \in {"take", "gate"} \/ (cpc = "post" /\ sink <= k) THEN batch ELSE << >>

(* Between ring, batch, strand and sink no event is lost, repeated or       *)
(* overtaken: what sink k wrote, what waits in its strand and what is still *)
(* in the batch are, in this order, the events taken that it lets through   *)
(* (consumer_loop and the strands).                                         *)
NothingLost ==
    /\ TypeOK
    /\ \A k \in Sinks :
           written[k] \o Filtered(k, Pending(k) \o Unposted(k)) = Due(k, Taken)

(* When shutdown() returns, every event whose claim precedes its own was    *)
(* written and flushed by every sink that wants it, and none after it       *)
(* ("waits for all events to be processed").                                *)
GracefulShutdown ==
    pc[Closer] = "returned" =>
        \A k \in Sinks : /\ written[k] = Due(k, mine[Closer])
                         /\ flushed[k] = Len(written[k])

Stream == INSTANCE EventStream WITH
    Capacity <- BufferSize,
    reserved <- Len(claims),
    filled <- published,
    taken <- [i \in 1 .. Taken |-> i - 1],
    recycled <- gating + 1

(* The logger uses the disruptor as the bounded stream allows: it publishes *)
(* what it claimed, once, takes events in order, never one that is not      *)
(* published, and releases only slots it has taken.                         *)
UsesStream == Stream!StreamSpec

(* "Graceful shutdown - waits for all events to be processed": shutdown()  *)
(* returns; the consumer gets the shutdown event, ends its loop, and the    *)
(* strands run dry.                                                         *)
ShutdownReturns == pc[Closer] = "claim" ~> pc[Closer] = "returned"

(* With a spinning consumer, an event that was claimed, and not behind the  *)
(* shutdown event, is written by every sink that wants it, although the     *)
(* consumer waits for claims and scans for publications; and shutdown()     *)
(* returns.                                                                 *)
EveryEventWritten ==
    strategy = "spin" => ShutdownReturns /\
        \A s \in 0 .. Quota * Cardinality(Producers) - 1 : \A k \in Sinks :
            s <= Cursor /\ s \in {Due(k, Cursor + 1)[i] : i \in 1 .. Len(Due(k, Cursor + 1))}
            ~> \/ s \in {written[k][i] : i \in 1 .. Len(written[k])}
               \/ mine[Closer] \in 0 .. s
=============================================================================
