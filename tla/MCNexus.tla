------------------------------ MODULE MCNexus ------------------------------
(* Model-checking instances of Nexus. *)
EXTENDS Nexus, TLC

CONSTANTS k1, k2

(* The service k1 depends on k2. *)
MCDependsOn == k1 :> k2 @@ k2 :> None

Make(k, l) == [key |-> k, lt |-> l, how |-> "factory"]
Give(k, l) == [key |-> k, lt |-> l, how |-> "object"]

MCRegistrations ==
    {Make(k1, "Resettable"), Make(k2, "Scoped"), Make(k2, "Timed"), Give(k2, "Immortal")}
=============================================================================
