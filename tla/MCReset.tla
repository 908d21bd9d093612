------------------------------ MODULE MCReset ------------------------------
(* Two workers: one of them resets a run and its child, or both do. *)
EXTENDS Reset
MCWorkers == {"w1", "w2"}
=============================================================================
