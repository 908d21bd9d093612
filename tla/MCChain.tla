------------------------------ MODULE MCChain ------------------------------
(* Two workers and a chain of a few links. *)
EXTENDS Chain
MCWorkers == {"w1", "w2"}
=============================================================================
