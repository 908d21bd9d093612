------------------------------- MODULE RunLog -------------------------------
(***************************************************************************)
(* What the journal of one run promises to everybody who reads it: it is   *)
(* the history of ONE sequential execution, whoever wrote it.  The steps   *)
(* are scheduled and finished one after another; after a failed step the   *)
(* finished ones are undone in reverse order; then the journal is closed,  *)
(* once, and the status of the run, which never changes again, says how.   *)
(***************************************************************************)
EXTENDS RunHistory

VARIABLES log, status

Init == log = <<>> /\ status = "RUNNING"

Extend == \E e \in Events : Continues(e, log) /\ log' = Append(log, e)
                            /\ UNCHANGED status

Mark == /\ status = "RUNNING" /\ UNCHANGED log
        /\ \/ In(Closing("completed"), log) /\ status' = "COMPLETED"
           \/ In(Closing("failed"), log) /\ status' = "FAILED"

Next == Extend \/ Mark

Spec == Init /\ [][Next]_<<log, status>>

=============================================================================
