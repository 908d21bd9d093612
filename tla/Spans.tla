------------------------------- MODULE Spans -------------------------------
(***************************************************************************)
(* The observer of sicim/otel.py in one process.  It is called with every  *)
(* event this process journals, and keeps the open span of every run and   *)
(* the children that will need their parent's span when they start, which  *)
(* may be after the parent's span has ended.                               *)
(*                                                                         *)
(* The spans of operations, emitted when they end, change nothing of this; *)
(* the times and attributes of spans are left out.                         *)
(***************************************************************************)

\* open: run_spans; pending: pending_children; traced, alone: the runs whose
\* span was started under that of their parent, or without; known: history,
\* the children that were scheduled while their parent's span was open.
NoSpans == [open |-> {}, pending |-> {}, traced |-> {}, alone |-> {}, known |-> {}]

Ends == {"RUN_COMPLETED", "RUN_FAILED", "RUN_CANCELLED", "RUN_CONTINUED"}

\* Mutant: a child finds its parent's span only while that is open.
Forgetful(s, run, child) == s.pending

\* The parent's span is kept for a child that is about to be started.
Remembered(s, run, child) == IF run \in s.open THEN s.pending \cup {child} ELSE s.pending

\* A run's span is opened, under that of its parent where that is known.
Opened(s, run, parent) ==
  LET under == run \in s.pending \/ parent \in s.open IN
  [s EXCEPT !.open = @ \cup {run}, !.pending = @ \ {run},
            !.traced = IF under THEN @ \cup {run} ELSE @,
            !.alone = IF under THEN @ ELSE @ \cup {run}]

\* A child of run is about to be started.
Expected(s, run, child) ==
  [s EXCEPT !.pending = Remembered(s, run, child),
            !.known = IF run \in s.open THEN @ \cup {child} ELSE @]

\* What the observer keeps after an event of run, a child of parent.
Observed(s, run, parent, child, kind) ==
  CASE kind = "RUN_STARTED" -> Opened(s, run, parent)
    [] kind = "CHILD_SCHEDULED" -> Expected(s, run, child)
    [] kind \in {"CHILD_COMPLETED", "CHILD_FAILED"} -> [s EXCEPT !.pending = @ \ {child}]
    [] kind \notin {"RUN_STARTED", "CHILD_SCHEDULED", "CHILD_COMPLETED", "CHILD_FAILED"} ->
         [s EXCEPT !.open = IF kind \in Ends THEN @ \ {run} ELSE @]

=============================================================================
