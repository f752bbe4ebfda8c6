---------------------------- MODULE MCFileSink ----------------------------
(* Model-checking instances of FileSink. *)
EXTENDS FileSink

(* A small file and one that is flushed after each entry; each filters out
   one event. *)
MCConfigs ==
    {[max_file_size |-> 1, flush_each_entry |-> FALSE, accepted |-> Events \ {"e1"}],
     [max_file_size |-> 0, flush_each_entry |-> TRUE, accepted |-> Events \ {"e2"}]}
=============================================================================
