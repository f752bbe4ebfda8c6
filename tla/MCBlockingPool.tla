-------------------------- MODULE MCBlockingPool --------------------------
(* Model-checking instances of BlockingPool. *)
EXTENDS BlockingPool, TLC

CONSTANTS c1, c2, c3

(* One of each kind of wait: bounded, unbounded, coroutine with a timer;
   and unbounded coroutine waits with a caller that never waits. *)
MCModes ==
    {c1 :> "timed" @@ c2 :> "blocking" @@ c3 :> "async_timed",
     c1 :> "async" @@ c2 :> "async" @@ c3 :> "try"}
=============================================================================
