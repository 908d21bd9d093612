---------------------------- MODULE MCOwnership ----------------------------
(* Instances of Ownership for TLC: two steps, the second of which may fail. *)
EXTENDS Ownership

MCFallible == {2}
NoneFails  == {}

=============================================================================
