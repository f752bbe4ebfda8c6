--------------------------- MODULE MCThreadPool ---------------------------
(* Model-checking instances of ThreadPool. *)
EXTENDS ThreadPool, TLC

CONSTANTS t1, t2, t3

(* Two ordinary tasks and an urgent one. *)
MCPriority == t1 :> 1 @@ t2 :> 1 @@ t3 :> 5

Elastic == [min_threads |-> 1, max_threads |-> 2]
Fixed == [min_threads |-> 2, max_threads |-> 2]

(* A pool that grows and shrinks, and one that does not. *)
MCConfigs == {Elastic, Fixed}
=============================================================================
