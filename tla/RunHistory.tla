----------------------------- MODULE RunHistory ----------------------------
(***************************************************************************)
(* The journal of one run as a sequence of events, and what may come next  *)
(* in the journal of a single execution.                                   *)
(*                                                                         *)
(* The body is a sequence of steps, each with a compensation.  The events  *)
(* <<kind, step>> stand for STEP_SCHEDULED, STEP_COMPLETED, STEP_FAILED    *)
(* and COMP_COMPLETED, those of step 0 for RUN_STARTED and the three       *)
(* events that close a journal.                                            *)
(***************************************************************************)
EXTENDS Integers, Sequences

CONSTANTS
  NSteps,     \* steps of the workflow body, each with a compensation
  Fallible    \* those that may fail

Steps == 1..NSteps

ASSUME BodyAssumption == NSteps \in Nat /\ Fallible \subseteq Steps

Closing(kind) == <<kind, 0>>
Events == ({"sched", "done", "fail", "undone"} \X Steps)
          \cup {Closing(kind) : kind \in {"start", "completed", "failed", "cancelled"}}

In(e, s) == \E i \in 1..Len(s) : s[i] = e

\* Steps a journal holds an event of some kind for.
StepsWith(kind, s) == {i \in Steps : In(<<kind, i>>, s)}

\* The steps that have something to undo, and the one that is undone next.
Finished(s)  == StepsWith("done", s) \ StepsWith("undone", s)
Latest(i, s) == i \in Finished(s) /\ \A j \in Finished(s) : j <= i

\* The events that may come next in a journal.
Continues(e, s) ==
  \/ e = Closing("start") /\ s = <<>>
  \/ /\ s # <<>> /\ StepsWith("fail", s) = {}
     /\ \/ \E i \in Steps : /\ e = <<"sched", i>>
                            /\ StepsWith("sched", s) = 1..(i - 1)
                            /\ StepsWith("done", s) = 1..(i - 1)
        \/ \E i \in Steps : /\ e = <<"done", i>>
                            /\ StepsWith("sched", s) = 1..i
                            /\ StepsWith("done", s) = 1..(i - 1)
        \/ \E i \in Fallible : /\ e = <<"fail", i>>
                               /\ StepsWith("sched", s) = 1..i
                               /\ StepsWith("done", s) = 1..(i - 1)
        \/ /\ e = Closing("completed") /\ ~In(e, s)
           /\ StepsWith("done", s) = Steps
  \/ /\ StepsWith("fail", s) # {}
     /\ \/ \E i \in Steps : Latest(i, s) /\ e = <<"undone", i>>
        \/ Finished(s) = {} /\ e = Closing("failed") /\ ~In(e, s)

=============================================================================
