---------------------------- MODULE MCSequencer ----------------------------
(* Model-checking instances of MultiProducerSequencer. *)
EXTENDS MultiProducerSequencer
=============================================================================
