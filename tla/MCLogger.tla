----------------------------- MODULE MCLogger -----------------------------
(* Model-checking instances of Logger. *)
EXTENDS Logger

CONSTANT Subsystem      \* a prefix that is not empty

(* A debug message of no subsystem and an error of one. *)
MCMessages == {[level |-> 1, prefix |-> NoPrefix], [level |-> 4, prefix |-> Subsystem]}

(* A sink for everything, and one for the errors of the subsystem. *)
MCSinkConfig ==
    << [threshold |-> 0, filter |-> [mode |-> "Denylist", block_empty |-> FALSE, set |-> {}]],
       [threshold |-> 4, filter |-> [mode |-> "Allowlist", block_empty |-> TRUE, set |-> {Subsystem}]] >>

(* One sink for everything. *)
MCOneSink ==
    << [threshold |-> 0, filter |-> [mode |-> "AllowAll", block_empty |-> FALSE, set |-> {}]] >>

(* Errors only. *)
MCErrors == {[level |-> 4, prefix |-> NoPrefix]}
=============================================================================
