---------------------------- MODULE MCChildTree ----------------------------
(* Two workers, a parent and its child. *)
EXTENDS ChildTree
MCWorkers == {"w1", "w2"}
=============================================================================
