---------------------------- MODULE MCRunEngine ----------------------------
(* Small workflow bodies for model checking RunEngine. *)
EXTENDS RunEngine

\* A journaled value, a wait with a deadline whose timeout the body catches, a
\* compensated step, a timer, an external effect registered by hand, and a wait
\* without deadline.
EngineType == <<"value", "wait", "step", "sleep", "register", "wait">>
Second     == {2}
Third      == {3}

\* A compensated step and a timer.
TimerType == <<"step", "sleep">>
First     == {1}

Nothing == {}
=============================================================================
