----------------------------- MODULE StoreCalls -----------------------------
(***************************************************************************)
(* What a store promises to its callers: a call that was asked for takes   *)
(* effect as a whole, between other calls, before it is answered, and the  *)
(* answer is that of its last effect.  It may take effect MORE THAN ONCE,  *)
(* and a call that is answered with an error may have taken effect too.    *)
(* Deleting a run is the exception: it goes table by table.                *)
(***************************************************************************)
EXTENDS Database

VARIABLES db, asked, result, answer

\* A store serves the calls of its worker one at a time.
Busy(w) == \E c \in asked : Call[c].by = w /\ answer[c] = "none"

Init == /\ db = Empty /\ asked = {}
        /\ result = [c \in Calls |-> "none"] /\ answer = [c \in Calls |-> "none"]

Ask(c) == /\ c \in Calls \ asked /\ ~Busy(Call[c].by)
          /\ asked' = asked \cup {c}
          /\ UNCHANGED <<db, result, answer>>

Apply(c) == /\ c \in asked /\ answer[c] = "none"
            /\ \E e \in Effects(c, db) :
                 /\ db' = e[1] /\ result' = [result EXCEPT ![c] = e[2]]
            /\ UNCHANGED <<asked, answer>>

Answer(c) == /\ c \in asked /\ answer[c] = "none"
             /\ \E a \in {result[c], "error"} \ {"none"} : answer' = [answer EXCEPT ![c] = a]
             /\ UNCHANGED <<db, asked, result>>

\* The time of a lease runs out.
Expire == /\ db.lease # Nobody
          /\ db' = [db EXCEPT !.expired = TRUE]
          /\ UNCHANGED <<asked, result, answer>>

Next == Expire \/ \E c \in Calls : Ask(c) \/ Apply(c) \/ Answer(c)

Spec == Init /\ [][Next]_<<db, asked, result, answer>>

=============================================================================
