------------------------- MODULE MCConnectionPool -------------------------
(* Model-checking instances of ConnectionPool. *)
EXTENDS ConnectionPool
=============================================================================
