------------------------------ MODULE Lineage ------------------------------
(***************************************************************************)
(* What continue-as-new promises to those who hold any id of a chain: it   *)
(* is ONE computation.  It has one live end, which only moves forward, and *)
(* one outcome, which is that of its last link and never changes.          *)
(***************************************************************************)
EXTENDS Integers

CONSTANT Links

VARIABLES end, outcome

Init == end = 1 /\ outcome = "RUNNING"

Continue == /\ outcome = "RUNNING" /\ end + 1 \in Links
            /\ end' = end + 1 /\ UNCHANGED outcome

Finish == /\ outcome = "RUNNING" /\ UNCHANGED end
          /\ outcome' \in {"COMPLETED", "CANCELLED"}

Next == Continue \/ Finish

Spec == Init /\ [][Next]_<<end, outcome>>

=============================================================================
