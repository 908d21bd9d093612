------------------------------ MODULE MCGather ------------------------------
(* Two waits and a step, which may fail, under gather. *)
EXTENDS Gather

WaitsAndStep == <<"wait", "wait", "step">>
Third        == {3}
=============================================================================
