----------------------------- MODULE FileSink -----------------------------
(***************************************************************************)
(* scroll::FileSink: events are formatted into one buffer, written to an   *)
(* ofstream, and the file is rotated once it has grown past max_file_size. *)
(* Rotation names the next file by the clock, in whole seconds.            *)
(*                                                                         *)
(* A logger calls a sink from one strand, so process() calls of one logger *)
(* do not overlap; the sink itself is a shared_ptr and says it is safe for *)
(* several threads.  Writers is the set of threads that call it.  Sizes    *)
(* are counted in events.                                                  *)
(***************************************************************************)
EXTENDS Integers, Sequences, FiniteSets

CONSTANTS Writers,              \* the threads that call process() and flush()
          Events,               \* what they write, each event once
          Configs,              \* FileSinkConfig: records with flush_each_entry,
                                \* max_file_size and the events the filters accept
          add_time_to_filename, \* FileSinkConfig: whether files are named by the clock
          LastSecond,           \* bound: how far the clock goes
          NoEvent               \* an empty buffer

ASSUME LastSecondAssumption == LastSecond \in Nat
ASSUME ConfigsAssumption ==
    \A cfg \in Configs :
        /\ cfg.max_file_size \in Nat /\ cfg.flush_each_entry \in BOOLEAN
        /\ cfg.accepted \subseteq Events

VARIABLES config,               \* config_
          pc, ev,               \* where each writer is, and with which event
          todo,                 \* the events nobody has processed yet
          format_buffer,        \* format_buffer_
          stream,               \* what file_stream_ buffers
          position,             \* file_stream_.tellp()
          disk,                 \* the files' contents, by the second in the name
          name,                 \* the second in the current file's name
          clock,                \* the current second
          processed,            \* the accepted events, in the order of formatting
          closed                \* whether the sink was destroyed

vars == <<config, pc, ev, todo, format_buffer, stream, position, disk, name, clock, processed, closed>>

Seconds == 0 .. LastSecond

Init ==
    /\ config \in Configs
    /\ pc = [w \in Writers |-> "idle"]
    /\ ev = [w \in Writers |-> NoEvent]
    /\ todo = Events
    /\ format_buffer = NoEvent
    /\ stream = << >>
    /\ position = 0
    /\ disk = [s \in Seconds |-> << >>]
    /\ name = 0
    /\ clock = 0
    /\ processed = << >>
    /\ closed = FALSE

(* process(event), up to should_log(). *)
StartProcess(w) ==
    /\ pc[w] = "idle" /\ ~closed
    /\ \E e \in todo :
        /\ todo' = todo \ {e}
        /\ ev' = [ev EXCEPT ![w] = e]
        /\ pc' = [pc EXCEPT ![w] = IF e \in config.accepted THEN "format" ELSE "idle"]
    /\ UNCHANGED <<config, format_buffer, stream, position, disk, name, clock, processed, closed>>

(* format_into(format_buffer_), before the mutex is taken *)
Format(w) ==
    /\ pc[w] = "format"
    /\ format_buffer' = ev[w]
    /\ processed' = Append(processed, ev[w])
    /\ pc' = [pc EXCEPT ![w] = "write"]
    /\ UNCHANGED <<config, ev, todo, stream, position, disk, name, clock, closed>>

(* The buffered events reach the disk; the file is open for appending, so
   the position is the end of the file from then on. *)
Flushed(contents) ==
    /\ disk' = [disk EXCEPT ![name] = @ \o contents]
    /\ stream' = << >>
    /\ position' = Len(disk[name]) + Len(contents)

(* file_stream_ << format_buffer_ under the mutex, and the optional flush *)
Write(w) ==
    /\ pc[w] = "write"
    /\ IF config.flush_each_entry
       THEN Flushed(Append(stream, format_buffer))
       ELSE /\ stream' = Append(stream, format_buffer)
            /\ position' = position + 1
            /\ UNCHANGED disk
    /\ pc' = [pc EXCEPT ![w] = "check"]
    /\ UNCHANGED <<config, ev, todo, format_buffer, name, clock, processed, closed>>

(* should_rotate(), outside the mutex *)
should_rotate == add_time_to_filename /\ position > config.max_file_size

CheckRotate(w) ==
    /\ pc[w] = "check"
    /\ pc' = [pc EXCEPT ![w] = IF should_rotate THEN "rotate" ELSE "idle"]
    /\ UNCHANGED <<config, ev, todo, format_buffer, stream, position, disk, name, clock, processed, closed>>

(* Fault: init() opens the next file truncated. *)
RotateTruncates(w) ==
    /\ pc[w] = "rotate"
    /\ disk' = IF clock = name THEN [disk EXCEPT ![name] = << >>]
                               ELSE [disk EXCEPT ![name] = @ \o stream]
    /\ stream' = << >>
    /\ position' = 0
    /\ name' = clock
    /\ pc' = [pc EXCEPT ![w] = "idle"]
    /\ UNCHANGED <<config, ev, todo, format_buffer, clock, processed, closed>>

(* rotate_log(): flush and close, then init() opens the file named by the
   clock for appending; a file opened again starts at position 0. *)
Rotate(w) ==
    /\ pc[w] = "rotate"
    /\ disk' = [disk EXCEPT ![name] = @ \o stream]
    /\ stream' = << >>
    /\ position' = 0
    /\ name' = IF add_time_to_filename THEN clock ELSE name
    /\ pc' = [pc EXCEPT ![w] = "idle"]
    /\ UNCHANGED <<config, ev, todo, format_buffer, clock, processed, closed>>

(* flush() from a flush task of the logger *)
Flush(w) ==
    /\ pc[w] = "idle" /\ ~closed
    /\ Flushed(stream)
    /\ UNCHANGED <<config, pc, ev, todo, format_buffer, name, clock, processed, closed>>

(* ~FileSink(), once no writer holds the sink any more *)
Destroy ==
    /\ ~closed /\ \A w \in Writers : pc[w] = "idle"
    /\ Flushed(stream)
    /\ closed' = TRUE
    /\ UNCHANGED <<config, pc, ev, todo, format_buffer, name, clock, processed>>

(* set_config(), which has no lock: nobody may be using the sink. *)
SetConfig ==
    /\ ~closed /\ \A w \in Writers : pc[w] = "idle"
    /\ config' \in Configs
    /\ UNCHANGED <<pc, ev, todo, format_buffer, stream, position, disk, name, clock, processed, closed>>

Tick ==
    /\ clock < LastSecond
    /\ clock' = clock + 1
    /\ UNCHANGED <<config, pc, ev, todo, format_buffer, stream, position, disk, name, processed, closed>>

Next ==
    \/ Tick \/ SetConfig \/ Destroy
    \/ \E w \in Writers : StartProcess(w) \/ Format(w) \/ Write(w) \/ CheckRotate(w)
                          \/ Rotate(w) \/ Flush(w)

Spec == Init /\ [][Next]_vars

-----------------------------------------------------------------------------
(* Properties. *)

(* All files, oldest name first. *)
OnDisk ==
    LET upTo[n \in 0 .. LastSecond + 1] ==
            IF n = 0 THEN << >> ELSE upTo[n - 1] \o disk[n - 1]
    IN  upTo[LastSecond + 1]

Contents == OnDisk \o stream

(* Across buffering, flushing and rotation, also twice within a second, the *)
(* files read in the order of their names are the accepted events in the    *)
(* order they were processed (FileSink::process, rotate_log).               *)
EventsInOrder ==
    (\A w \in Writers : pc[w] # "write") => Contents = processed
=============================================================================
