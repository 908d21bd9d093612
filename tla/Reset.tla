------------------------------- MODULE Reset -------------------------------
(***************************************************************************)
(* Runtime.reset: a run is stopped, what its journal holds from an         *)
(* operation on is dropped, the signals it had consumed there go back to   *)
(* the inbox, the children it had started there are deleted, and it is     *)
(* driven again.  Every one of these is a store call of its own.           *)
(*                                                                         *)
(* The body of the run has three operations: 0 a child with a              *)
(* compensation, 1 a wait for a signal, 2 a step that succeeds or fails.   *)
(***************************************************************************)
EXTENDS Integers, FiniteSets

CONSTANTS
  Workers,
  Nobody,      \* nobody holds the lease
  Ghost,       \* a worker that is dead holds it
  MaxResets,   \* bound: resets
  MaxFaults    \* bound: crashes, leases that run out under a reset

ASSUME ResetAssumption ==
  /\ Nobody \notin Workers /\ Ghost \notin Workers /\ Nobody # Ghost
  /\ MaxResets \in Nat /\ MaxFaults \in Nat

VARIABLES
  status,    \* RunRecord.status
  journal,   \* the rows of the run in the events table
  signal,    \* the one signal of its inbox: "none", "unread" or "consumed"
  child,     \* the record of the child, and how often it was created
  lease,     \* who holds the leases of the run and of the child
  driver,    \* the driver of the run in every worker: where it is, its journal
  minder,    \* the worker with a driver for the child
  reset,     \* the reset that is under way
  torn,      \* a reset has lost its process or a lease, or was disturbed
  resets, faults

run    == <<status, journal, signal>>
counts == <<resets, faults>>
vars   == <<run, child, lease, driver, minder, reset, torn, counts>>

Final == {"COMPLETED", "FAILED"}

\* An event: its number, its kind, and of which child (0 for other kinds).
Event(seq, kind, of) == [seq |-> seq, kind |-> kind, of |-> of]

OpOf(kind) ==
  CASE kind \in {"CHILD_SCHEDULED", "CHILD_COMPLETED", "COMP_COMPLETED"} -> 0
    [] kind = "EVENT_CONSUMED" -> 1
    [] kind \in {"STEP_COMPLETED", "STEP_FAILED"} -> 2
    [] kind \in {"RUN_STARTED", "RUN_RESET", "RUN_COMPLETED", "RUN_FAILED"} -> -1

Has(events, kind) == \E e \in events : e.kind = kind
Taken(seq)        == \E e \in journal : e.seq = seq

Down     == [pc |-> "down", mine |-> {}]
Busy(w)  == driver[w].pc # "down"
NoReset  == [by |-> Nobody, pc |-> "idle", stopped |-> FALSE, claimed |-> FALSE,
             kept |-> {}, dropped |-> {}]

\* While it holds leases a reset relies on being alone with the run; from its
\* first write to its last it must also come to its end.
Relying   == {"load", "stop", "claim", "replace", "marker", "signals", "reopen", "delete"}
Rewriting == {"marker", "signals", "reopen", "delete"}

Freed(w, what) == [lease EXCEPT ![what] = IF @ = w THEN Nobody ELSE @]

-----------------------------------------------------------------------------

\* _ensure, from start, recover, signal or cancel.  It takes a lease this
\* worker holds already, that of a reset included; only a reset's own worker
\* can disturb it so.
Ensure(w) ==
  /\ status = "RUNNING" /\ ~Busy(w) /\ lease.run \in {Nobody, w}
  /\ lease' = [lease EXCEPT !.run = w]
  /\ driver' = [driver EXCEPT ![w] = [pc |-> "body", mine |-> journal]]
  /\ torn' = (torn \/ reset.by = w)
  /\ UNCHANGED <<run, child, minder, reset, counts>>

\* The same for the child.
EnsureChild(w) ==
  /\ child.status = "RUNNING" /\ minder # w /\ lease.child \in {Nobody, w}
  /\ lease' = [lease EXCEPT !.child = w] /\ minder' = w
  /\ torn' = (torn \/ (reset.by = w /\ (reset.pc = "claim" \/ reset.claimed)))
  /\ UNCHANGED <<run, child, driver, reset, counts>>

Leave(w) == driver' = [driver EXCEPT ![w] = Down] /\ lease' = Freed(w, "run")

\* Journal.append; a number that is taken ends the driver.
AppendThen(w, kind, pc) ==
  LET e == Event(Cardinality(driver[w].mine), kind, IF kind = "CHILD_COMPLETED" THEN child.gen ELSE 0)
  IN IF Taken(e.seq)
     THEN Leave(w) /\ UNCHANGED journal
     ELSE /\ journal' = journal \cup {e}
          /\ driver' = [driver EXCEPT ![w] = [pc |-> pc, mine |-> @.mine \cup {e}]]
          /\ UNCHANGED lease

\* What the body of the driver has journaled.
Did(w, kind) == Has(driver[w].mine, kind)
InBody(w)    == driver[w].pc = "body"

ScheduleChild(w) ==
  /\ InBody(w) /\ ~Did(w, "CHILD_SCHEDULED")
  /\ AppendThen(w, "CHILD_SCHEDULED", "body")
  /\ UNCHANGED <<status, signal, child, minder, reset, torn, counts>>

\* Runtime._start of the child; a child that exists is attached to.
StartChild(w) ==
  /\ InBody(w) /\ Did(w, "CHILD_SCHEDULED") /\ ~Did(w, "CHILD_COMPLETED")
  /\ child.status = "absent"
  /\ child' = [status |-> "RUNNING", gen |-> child.gen + 1]
  /\ minder' = w /\ lease' = [lease EXCEPT !.child = w]
  /\ UNCHANGED <<run, driver, reset, torn, counts>>

ChildEnds ==
  /\ minder # Nobody /\ child.status = "RUNNING"
  /\ child' = [child EXCEPT !.status = "COMPLETED"]
  /\ minder' = Nobody /\ lease' = Freed(minder, "child")
  /\ UNCHANGED <<run, driver, reset, torn, counts>>

\* The parent has the result, from its own task or by polling the store.
TakeResult(w) ==
  /\ InBody(w) /\ Did(w, "CHILD_SCHEDULED") /\ ~Did(w, "CHILD_COMPLETED")
  /\ child.status = "COMPLETED"
  /\ AppendThen(w, "CHILD_COMPLETED", "body")
  /\ UNCHANGED <<status, signal, child, minder, reset, torn, counts>>

Consume(w) ==
  /\ InBody(w) /\ Did(w, "CHILD_COMPLETED") /\ ~Did(w, "EVENT_CONSUMED")
  /\ signal = "unread"
  /\ AppendThen(w, "EVENT_CONSUMED", "mark")
  /\ UNCHANGED <<status, signal, child, minder, reset, torn, counts>>

MarkConsumed(w) ==
  /\ driver[w].pc = "mark" /\ signal' = "consumed"
  /\ driver' = [driver EXCEPT ![w].pc = "body"]
  /\ UNCHANGED <<status, journal, child, lease, minder, reset, torn, counts>>

Stepped(w) == Did(w, "STEP_COMPLETED") \/ Did(w, "STEP_FAILED")

Step(w) ==
  /\ InBody(w) /\ Did(w, "EVENT_CONSUMED") /\ ~Stepped(w)
  /\ \E kind \in {"STEP_COMPLETED", "STEP_FAILED"} : AppendThen(w, kind, "body")
  /\ UNCHANGED <<status, signal, child, minder, reset, torn, counts>>

Compensate(w) ==
  /\ InBody(w) /\ Did(w, "STEP_FAILED") /\ ~Did(w, "COMP_COMPLETED")
  /\ AppendThen(w, "COMP_COMPLETED", "body")
  /\ UNCHANGED <<status, signal, child, minder, reset, torn, counts>>

\* append_once of the terminal event, ...
End(w) ==
  /\ InBody(w) /\ Stepped(w) /\ (Did(w, "STEP_FAILED") => Did(w, "COMP_COMPLETED"))
  /\ LET kind == IF Did(w, "STEP_FAILED") THEN "RUN_FAILED" ELSE "RUN_COMPLETED" IN
       IF Did(w, kind)
       THEN driver' = [driver EXCEPT ![w].pc = "update"] /\ UNCHANGED <<journal, lease>>
       ELSE AppendThen(w, kind, "update")
  /\ UNCHANGED <<status, signal, child, minder, reset, torn, counts>>

\* ... the status, ...
Update(w) ==
  /\ driver[w].pc = "update" /\ driver' = [driver EXCEPT ![w].pc = "release"]
  /\ status' = IF Did(w, "RUN_FAILED") THEN "FAILED" ELSE "COMPLETED"
  /\ UNCHANGED <<journal, signal, child, lease, minder, reset, torn, counts>>

\* ... and the finally of _drive.
Release(w) ==
  /\ driver[w].pc = "release" /\ Leave(w)
  /\ UNCHANGED <<run, child, minder, reset, torn, counts>>

Drive(w) ==
  \/ ScheduleChild(w) \/ StartChild(w) \/ TakeResult(w) \/ Consume(w) \/ MarkConsumed(w)
  \/ Step(w) \/ Compensate(w) \/ End(w) \/ Update(w) \/ Release(w)

SendSignal ==
  /\ signal = "none" /\ status = "RUNNING" /\ signal' = "unread"
  /\ UNCHANGED <<status, journal, child, lease, driver, minder, reset, torn, counts>>

-----------------------------------------------------------------------------

Stage(p) == reset' = [reset EXCEPT !.pc = p]
Over     == reset' = NoReset

\* The call comes in (what its arguments are matters later on).  The driver
\* this worker has for the run is stopped, and releases the lease as it goes.
Ask(w) ==
  /\ reset = NoReset /\ resets < MaxResets /\ resets' = resets + 1
  /\ reset' = [NoReset EXCEPT !.by = w, !.pc = "acquire", !.stopped = Busy(w)]
  /\ IF Busy(w) THEN Leave(w) ELSE UNCHANGED <<driver, lease>>
  /\ UNCHANGED <<run, child, minder, torn, faults>>

\* LeaseUnavailable is raised before the try.
Acquire ==
  /\ reset.pc = "acquire"
  /\ IF lease.run \in {Nobody, reset.by}
     THEN lease' = [lease EXCEPT !.run = reset.by] /\ Stage("load")
     ELSE Over /\ UNCHANGED lease
  /\ UNCHANGED <<run, child, driver, minder, torn, counts>>

\* Where a reset without to_op goes: the first failed operation, else 0.
Default(events) == IF Has(events, "STEP_FAILED") THEN 2 ELSE 0

\* Mutant: only what belongs to the operations from to on is dropped.
StaleByOp(e, to) == OpOf(e.kind) >= to

Stale(e, to) ==
  OpOf(e.kind) >= to \/ e.kind \in {"RUN_COMPLETED", "RUN_FAILED", "COMP_COMPLETED"}

\* The journal is split; an unforced reset of a compensated run is refused.
Load(to, force) ==
  /\ reset.pc = "load"
  /\ LET kept    == {e \in journal : ~Stale(e, to)}
         dropped == {e.kind : e \in journal \ kept}
     IN reset' = [reset EXCEPT !.kept = kept, !.dropped = dropped,
                    !.pc = IF "COMP_COMPLETED" \in dropped /\ ~force THEN "refuse"
                           ELSE IF "CHILD_SCHEDULED" \in dropped THEN "stop"
                           ELSE "replace"]
  /\ UNCHANGED <<run, child, lease, driver, minder, torn, counts>>

\* _claim_run_tree: nothing to claim when there is no record.
StopChild ==
  /\ reset.pc = "stop"
  /\ Stage(IF child.status = "absent" THEN "replace" ELSE "claim")
  /\ IF child.status # "absent" /\ minder = reset.by
     THEN minder' = Nobody /\ lease' = Freed(reset.by, "child")
     ELSE UNCHANGED <<minder, lease>>
  /\ UNCHANGED <<run, child, driver, torn, counts>>

Claim ==
  /\ reset.pc = "claim"
  /\ IF lease.child \in {Nobody, reset.by}
     THEN /\ lease' = [lease EXCEPT !.child = reset.by]
          /\ reset' = [reset EXCEPT !.pc = "replace", !.claimed = TRUE]
     ELSE Stage("refuse") /\ UNCHANGED lease
  /\ UNCHANGED <<run, child, driver, minder, torn, counts>>

\* What is kept is numbered from 0 again.
Renumbered(events) ==
  {[e EXCEPT !.seq = Cardinality({f \in events : f.seq < e.seq})] : e \in events}

ReplaceEvents ==
  /\ reset.pc = "replace" /\ Stage("marker") /\ journal' = Renumbered(reset.kept)
  /\ UNCHANGED <<status, signal, child, lease, driver, minder, torn, counts>>

AppendMarker ==
  /\ reset.pc = "marker"
  /\ LET seq == Cardinality(reset.kept) IN
       IF Taken(seq)
       THEN Stage("refuse") /\ UNCHANGED journal
       ELSE Stage("signals") /\ journal' = journal \cup {Event(seq, "RUN_RESET", 0)}
  /\ UNCHANGED <<status, signal, child, lease, driver, minder, torn, counts>>

\* Mutant: signals stay consumed.
StayConsumed == signal

\* mark_signal_consumed(run_id, seq, False) for every one dropped
Returned == IF "EVENT_CONSUMED" \in reset.dropped THEN "unread" ELSE signal

ReturnSignals ==
  /\ reset.pc = "signals" /\ signal' = Returned
  /\ reset' = [reset EXCEPT !.pc = "reopen", !.kept = {}, !.dropped = {}]
  /\ UNCHANGED <<status, journal, child, lease, driver, minder, torn, counts>>

Reopen ==
  /\ reset.pc = "reopen" /\ Stage("delete") /\ status' = "RUNNING"
  /\ UNCHANGED <<journal, signal, child, lease, driver, minder, torn, counts>>

\* Those whose leases it has claimed.
Claimed == reset.claimed

\* delete_run, which deletes the lease too.
DeleteChild ==
  /\ reset.pc = "delete" /\ Stage("resume")
  /\ IF Claimed THEN /\ child' = [child EXCEPT !.status = "absent"]
                     /\ lease' = [lease EXCEPT !.child = Nobody]
     ELSE UNCHANGED <<child, lease>>
  /\ UNCHANGED <<run, driver, minder, torn, counts>>

\* The run is driven here, unless it is already, or left to be recovered.
Resume(resume) ==
  /\ reset.pc = "resume" /\ Over
  /\ LET w == reset.by IN
     IF ~resume THEN lease' = Freed(w, "run") /\ UNCHANGED driver
     ELSE IF ~Busy(w) /\ status = "RUNNING" /\ lease.run \in {Nobody, w}
     THEN /\ lease' = [lease EXCEPT !.run = w]
          /\ driver' = [driver EXCEPT ![w] = [pc |-> "body", mine |-> journal]]
     ELSE UNCHANGED <<driver, lease>>
  /\ UNCHANGED <<run, child, minder, torn, counts>>

\* Mutant: nothing is released.
HoldOn == lease

\* The claims are released, and the lease of the run unless a driver was
\* stopped for it.
HandBack == [what \in DOMAIN lease |->
  IF lease[what] = reset.by /\ (IF what = "run" THEN ~reset.stopped ELSE reset.claimed)
  THEN Nobody ELSE lease[what]]

\* The except branch: a driver that was stopped is put back to work.
Refuse ==
  /\ reset.pc = "refuse" /\ Over
  /\ LET w == reset.by IN
     IF reset.stopped /\ ~Busy(w) /\ status = "RUNNING" /\ lease.run \in {Nobody, w}
     THEN /\ lease' = [HandBack EXCEPT !.run = w]
          /\ driver' = [driver EXCEPT ![w] = [pc |-> "body", mine |-> journal]]
     ELSE lease' = HandBack /\ UNCHANGED driver
  /\ UNCHANGED <<run, child, minder, torn, counts>>

Rewind ==
  \/ Acquire \/ StopChild \/ Claim \/ ReplaceEvents \/ AppendMarker
  \/ ReturnSignals \/ Reopen \/ DeleteChild \/ Refuse
  \/ \E to \in {Default(journal), 0, 1, 2}, force \in BOOLEAN : Load(to, force)
  \/ \E resume \in BOOLEAN : Resume(resume)

-----------------------------------------------------------------------------

\* A worker dies; a restarted one has a new worker_id.
Crash(w) ==
  /\ faults < MaxFaults /\ faults' = faults + 1
  /\ Busy(w) \/ minder = w \/ reset.by = w
  /\ driver' = [driver EXCEPT ![w] = Down]
  /\ minder' = IF minder = w THEN Nobody ELSE minder
  /\ lease' = [what \in DOMAIN lease |-> IF lease[what] = w THEN Ghost ELSE lease[what]]
  /\ reset' = IF reset.by = w THEN NoReset ELSE reset
  /\ torn' = (torn \/ (reset.by = w /\ reset.pc \in Rewriting))
  /\ UNCHANGED <<run, child, resets>>

Expire(what) ==
  /\ lease[what] = Ghost /\ lease' = [lease EXCEPT ![what] = Nobody]
  /\ UNCHANGED <<run, child, driver, minder, reset, torn, counts>>

\* A reset renews nothing: a lease of its runs out.
Lapse(what) ==
  /\ faults < MaxFaults /\ faults' = faults + 1
  /\ reset.pc \in Relying /\ (what = "child" => reset.claimed)
  /\ lease[what] = reset.by
  /\ lease' = [lease EXCEPT ![what] = Nobody] /\ torn' = TRUE
  /\ UNCHANGED <<run, child, driver, minder, reset, resets>>

Init ==
  /\ status = "RUNNING" /\ journal = {Event(0, "RUN_STARTED", 0)} /\ signal = "none"
  /\ child = [status |-> "absent", gen |-> 0]
  /\ lease = [run |-> Nobody, child |-> Nobody]
  /\ driver = [w \in Workers |-> Down] /\ minder = Nobody
  /\ reset = NoReset /\ torn = FALSE /\ resets = 0 /\ faults = 0

Next ==
  \/ \E w \in Workers : Ensure(w) \/ EnsureChild(w) \/ Drive(w) \/ Ask(w) \/ Crash(w)
  \/ ChildEnds \/ SendSignal \/ Rewind
  \/ \E what \in {"run", "child"} : Expire(what) \/ Lapse(what)

\* Bound: a torn run is not followed any further (Ownership lets drivers that
\* have lost their leases go on).
WholeNext == ~torn /\ Next

Spec == Init /\ [][WholeNext]_vars

\* Drivers, resets and children go on, workers recover what is free, the
\* leases of the dead run out, and the signal comes.
FairSpec ==
  /\ Spec
  /\ \A w \in Workers : WF_vars(~torn /\ (Ensure(w) \/ EnsureChild(w))) /\ WF_vars(~torn /\ Drive(w))
  /\ WF_vars(~torn /\ ChildEnds) /\ WF_vars(~torn /\ SendSignal) /\ WF_vars(~torn /\ Rewind)
  /\ \A what \in {"run", "child"} : WF_vars(~torn /\ Expire(what))

-----------------------------------------------------------------------------

\* What comes right before an event in one execution of the body.
Prior == [CHILD_SCHEDULED |-> "RUN_STARTED", CHILD_COMPLETED |-> "CHILD_SCHEDULED",
          EVENT_CONSUMED |-> "CHILD_COMPLETED", STEP_COMPLETED |-> "EVENT_CONSUMED",
          STEP_FAILED |-> "EVENT_CONSUMED", COMP_COMPLETED |-> "STEP_FAILED",
          RUN_FAILED |-> "COMP_COMPLETED", RUN_COMPLETED |-> "STEP_COMPLETED"]

\* However often a run is reset, by whom and from where, its journal is that of
\* one execution of the body that has come some way, and it has no gaps.
JournalOfOneRun ==
  ~torn =>
    /\ {e.seq : e \in journal} = 0..(Cardinality(journal) - 1)
    /\ \A e \in journal : e.kind # "RUN_RESET" =>
         /\ \A f \in journal : f.kind = e.kind => f = e
         /\ e.kind # "RUN_STARTED" => \E f \in journal : f.kind = Prior[e.kind] /\ f.seq < e.seq
    /\ ~(Has(journal, "STEP_COMPLETED") /\ Has(journal, "STEP_FAILED"))

\* While no reset is rewriting the run, what its journal says of the world is
\* so: a consumed signal was consumed by the execution the journal tells of,
\* the child's result is that of the child there is, and a child there is was
\* scheduled.
AccountsAgree ==
  ~torn /\ reset.pc \notin Rewriting =>
    /\ signal = "consumed" => Has(journal, "EVENT_CONSUMED")
    /\ child.status # "absent" => Has(journal, "CHILD_SCHEDULED")
    /\ \A e \in journal : e.kind = "CHILD_COMPLETED" =>
         child = [status |-> "COMPLETED", gen |-> e.of]

\* Reset, refused or done, leaves no lease behind that keeps others from a run
\* that is still to be driven.
NoLeaseLeftBehind ==
  /\ status = "RUNNING" /\ lease.run \in Workers =>
       Busy(lease.run) \/ reset.by = lease.run
  /\ child.status = "RUNNING" /\ lease.child \in Workers =>
       minder = lease.child \/ reset.by = lease.child

\* A run that is reset, refused a reset, or abandoned by its worker comes to
\* an end again.
EndsUnlessTorn == <>[](status \in Final) \/ <>torn

=============================================================================
