--------------------------- MODULE MCTransaction ---------------------------
(* Model-checking instance of Transaction. *)
EXTENDS Transaction
=============================================================================
