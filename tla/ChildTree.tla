----------------------------- MODULE ChildTree -----------------------------
(***************************************************************************)
(* A run whose body awaits a child run.  Both are runs of their own, with  *)
(* journals and leases of their own, driven by one worker or by two; they  *)
(* meet where the parent starts or finds its child, waits for it in memory *)
(* or through the store, and passes a cancellation on to it.               *)
(*                                                                         *)
(* The body of the parent "p" is ctx.child with a compensation; that of    *)
(* the child "c" is a step with a compensation.  Either may raise after    *)
(* that.  A journal is the sequence of its kinds.                          *)
(***************************************************************************)
EXTENDS Integers, Sequences, SequencesExt, Spans

CONSTANTS
  Workers,
  Nobody,      \* nobody holds the lease
  MaxFaults,   \* bound: crashes, shutdowns, leases that run out under a driver,
               \*        and drivers that start from a record read too early
  MaxCancels   \* bound: requests for cancellation by clients

Runs    == {"p", "c"}
Drivers == Workers \X Runs
Final   == {"COMPLETED", "FAILED", "CANCELLED"}

ASSUME ChildTreeAssumption ==
  /\ Nobody \notin Workers
  /\ MaxFaults \in Nat /\ MaxCancels \in Nat

VARIABLES
  raises,     \* the runs whose body raises in the end
  status,     \* RunRecord.status
  cancelReq,  \* RunRecord.cancel_requested
  journal,
  lease,
  driver,     \* the driver of a worker for a run
  spans,      \* the spans of every process
  closing,    \* Runtime._closing of a worker
  reopened,   \* history: the runs that were driven on, as if nobody had asked
              \*   for their cancellation, after RUN_CANCELLED
  strayed,    \* history: the parent took another interruption for its
              \*   cancellation, or an error of its child's driver for its child's
  faults, cancels

record  == <<raises, status, cancelReq>>
history == <<reopened, strayed>>
bounds  == <<faults, cancels>>
vars    == <<record, journal, lease, driver, spans, closing, history, bounds>>

Over(r) == status[r] \in Final

\* pc: its place, at last the status it writes; mine: its journal; flag:
\* _cancel_flags and _cancel_events; beats: its heartbeat has not ended.  Of a
\* parent, news: the status of the child's record when it was loaded, and then
\* the "task" that is awaited here, or "follow" if the child is followed through
\* the store, and then what came of it: its final status, "stopped" or "error";
\* asked: cancel_requested of the child's record when it was loaded.
Idle == [pc |-> "down", mine |-> <<>>, flag |-> FALSE, beats |-> FALSE, news |-> "none",
         asked |-> FALSE]

In(d, p)     == driver[d].pc = p
Busy(d)      == ~In(d, "down")
Holds(d)     == lease[d[2]] = d[1]
Did(d, kind) == Contains(driver[d].mine, kind)
Hears(d, n)  == driver[d].news = n
Child(d)     == <<d[1], "c">>

\* The driver at another place, where the news it had is of no use.
At(d, p)     == [driver[d] EXCEPT !.pc = p, !.news = "none", !.asked = FALSE]
Go(d, p)     == driver' = [driver EXCEPT ![d] = At(d, p)]

Without(ds) == [r \in Runs |-> IF \E d \in ds : d[2] = r /\ Holds(d) THEN Nobody ELSE lease[r]]

\* A parent that awaits the task of one of these drivers learns how it ended.
Told(d, gone, how) ==
  IF Hears(d, "task") /\ Child(d) \in gone THEN [driver[d] EXCEPT !.news = how] ELSE driver[d]

\* The driver's task ends.
Leave(d, how) ==
  /\ driver' = [e \in Drivers |-> IF e = d THEN Idle ELSE Told(e, {d}, how)]
  /\ lease' = Without({d})

\* Journal.append, and the observers of this process; a number that another
\* driver has taken ends the driver with an error.
AppendThen(d, kind, p) ==
  IF Len(driver[d].mine) = Len(journal[d[2]])
  THEN /\ journal' = [journal EXCEPT ![d[2]] = Append(@, kind)]
       /\ driver' = [driver EXCEPT ![d] = [At(d, p) EXCEPT !.mine = Append(@, kind)]]
       /\ spans' = [spans EXCEPT ![d[1]] =
            Observed(@, d[2], IF d[2] = "c" THEN "p" ELSE "", "c", kind)]
       /\ UNCHANGED lease
  ELSE Leave(d, "error") /\ UNCHANGED <<journal, spans>>

OnceThen(d, kind, p) ==
  IF Did(d, kind) THEN Go(d, p) /\ UNCHANGED <<journal, lease, spans>>
  ELSE AppendThen(d, kind, p)

-----------------------------------------------------------------------------

\* _ensure of a record that says RUNNING finds that this worker may drive it.
Claimable(w, r) == ~Busy(<<w, r>>) /\ ~closing[w] /\ lease[r] \in {Nobody, w}

\* The driver it starts: the journal is read now, the request is the record's.
Spawned(r, request) ==
  [Idle EXCEPT !.pc = "start", !.mine = journal[r], !.flag = request, !.beats = TRUE]

Reopens(r, request) ==
  IF Contains(journal[r], "RUN_CANCELLED") /\ ~request THEN reopened \cup {r} ELSE reopened

Spawn(w, r, request) ==
  /\ Claimable(w, r)
  /\ lease' = [lease EXCEPT ![r] = w]
  /\ driver' = [driver EXCEPT ![<<w, r>>] = Spawned(r, request)]
  /\ reopened' = Reopens(r, request)
  /\ UNCHANGED <<record, journal, spans, closing, strayed>>

\* start, resume, recover or cancel reach _ensure with the record as it is, ...
Ensure(w, r) ==
  /\ status[r] = "RUNNING" /\ Spawn(w, r, cancelReq[r])
  /\ UNCHANGED bounds

\* ... or as it was before the run was over, or before its cancellation was
\* requested: _ensure does not read it again.
EnsureStale(w, r) ==
  /\ faults < MaxFaults /\ faults' = faults + 1
  /\ status[r] # "absent"
  /\ \E request \in {FALSE, cancelReq[r]} :
       /\ <<"RUNNING", request>> # <<status[r], cancelReq[r]>>
       /\ Spawn(w, r, request)
  /\ UNCHANGED cancels

JournalStart(d) ==
  /\ In(d, "start") /\ OnceThen(d, "RUN_STARTED", "body")
  /\ UNCHANGED <<record, closing, history, bounds>>

\* cancel in this process, or the heartbeat, finds the request.
SeeCancel(d) ==
  /\ Busy(d) /\ cancelReq[d[2]] /\ ~driver[d].flag
  /\ driver' = [driver EXCEPT ![d].flag = TRUE]
  /\ UNCHANGED <<record, journal, lease, spans, closing, history, bounds>>

\* What the body does next, and what it has done.
Asks(d)    == In(d, "body") /\ IF d[2] = "p" THEN ~Did(d, "CHILD_SCHEDULED")
                                             ELSE ~Did(d, "STEP_COMPLETED")
Settled(d) == In(d, "body") /\ (Did(d, "CHILD_COMPLETED") \/ Did(d, "CHILD_FAILED")
                                  \/ Did(d, "STEP_COMPLETED"))

\* _check_cancel at an operation that is live.
CheckCancel(d) ==
  /\ Asks(d) /\ driver[d].flag /\ Go(d, "cancelled")
  /\ UNCHANGED <<record, journal, lease, spans, closing, history, bounds>>

\* The child's step.
BeginStep(d) ==
  /\ d[2] = "c" /\ Asks(d) /\ ~driver[d].flag /\ Go(d, "step")
  /\ UNCHANGED <<record, journal, lease, spans, closing, history, bounds>>

EndStep(d) ==
  /\ In(d, "step") /\ AppendThen(d, "STEP_COMPLETED", "body")
  /\ UNCHANGED <<record, closing, history, bounds>>

-----------------------------------------------------------------------------

ScheduleChild(d) ==
  /\ d[2] = "p" /\ Asks(d) /\ ~driver[d].flag
  /\ AppendThen(d, "CHILD_SCHEDULED", "body")
  /\ UNCHANGED <<record, closing, history, bounds>>

\* Runtime._start: the child's record is loaded, or created.
CreateChild(d) ==
  /\ d[2] = "p" /\ In(d, "body") /\ Did(d, "CHILD_SCHEDULED") /\ ~Settled(d)
  /\ status' = IF status["c"] = "absent" THEN [status EXCEPT !["c"] = "RUNNING"] ELSE status
  /\ driver' = [driver EXCEPT ![d] =
       [At(d, "attach") EXCEPT !.news = status'["c"], !.asked = cancelReq["c"]]]
  /\ UNCHANGED <<raises, cancelReq, journal, lease, spans, closing, history, bounds>>

Awaiting(d, n) == [At(d, "await") EXCEPT !.news = n]

\* _ensure of that record: the child's task here, new or not, the outcome that
\* the record tells, or else a run that another worker drives.
Attach(d) ==
  /\ In(d, "attach")
  /\ LET c == Child(d) IN
       \/ /\ Busy(c)
          /\ driver' = [driver EXCEPT ![d] = Awaiting(d, "task")]
          /\ UNCHANGED <<lease, reopened>>
       \/ /\ ~Busy(c) /\ ~Hears(d, "RUNNING")
          /\ driver' = [driver EXCEPT ![d] = Awaiting(d, driver[d].news)]
          /\ UNCHANGED <<lease, reopened>>
       \/ /\ Hears(d, "RUNNING") /\ Claimable(d[1], "c")
          /\ driver' = [driver EXCEPT ![d] = Awaiting(d, "task"), ![c] = Spawned("c", driver[d].asked)]
          /\ lease' = [lease EXCEPT !["c"] = d[1]]
          /\ reopened' = Reopens("c", driver[d].asked)
       \/ /\ ~Busy(c) /\ Hears(d, "RUNNING") /\ ~Claimable(d[1], "c")
          /\ driver' = [driver EXCEPT ![d] = Awaiting(d, "follow")]
          /\ UNCHANGED <<lease, reopened>>
  /\ UNCHANGED <<record, journal, spans, closing, strayed, bounds>>

\* Mutant: a child that another worker drives is never heard of.
AnsweredHere(d) == driver[d].news \in Final

\* The child's task has returned or raised an outcome, or its record tells one.
Answered(d) == driver[d].news \in Final \/ (Hears(d, "follow") /\ Over("c"))

\* Mutant: whatever has ended has succeeded.
AnyOutcome(d) == "CHILD_COMPLETED"

Outcome(d) ==
  LET end == IF Hears(d, "follow") THEN status["c"] ELSE driver[d].news IN
  IF end = "COMPLETED" THEN "CHILD_COMPLETED" ELSE "CHILD_FAILED"

TakeOutcome(d) ==
  /\ In(d, "await") /\ Answered(d)
  /\ AppendThen(d, Outcome(d), "body")
  /\ UNCHANGED <<record, closing, history, bounds>>

\* An exception of the child's driver that is no outcome is the parent's own.
ChildErred(d) ==
  /\ In(d, "await") /\ Hears(d, "error")
  /\ Go(d, "failed") /\ strayed' = TRUE
  /\ UNCHANGED <<record, journal, lease, spans, closing, reopened, bounds>>

-----------------------------------------------------------------------------

\* A CancelledError in the body of a run whose flag is set.
Heeds(d) == driver[d].flag /\ ~Settled(d)
            /\ driver[d].pc \in {"body", "step", "attach", "await", "propagate"}

\* The tasks of ds are cancelled.  Who waits for a child that it has stopped
\* only has the child's task cancelled again; others take the way of a cancelled
\* run, or end as in a crash.
Hit(ds)  == ds \cup {Child(d) : d \in {e \in ds : In(e, "stopping")}}
Gone(ds) == {d \in Hit(ds) : Busy(d) /\ ~Heeds(d) /\ ~In(d, "stopping")}

Struck(d) ==
  CASE In(d, "stopping")              -> [driver[d] EXCEPT !.news = "stopped"]
    [] Heeds(d)                       -> At(d, "cancelled")
    [] ~In(d, "stopping") /\ ~Heeds(d) -> Idle

Stopped(ds) ==
  [d \in Drivers |-> IF d \in Hit(ds) THEN Struck(d) ELSE Told(d, Gone(ds), "stopped")]

Interrupt(ds) ==
  /\ driver' = Stopped(ds) /\ lease' = Without(Gone(ds))
  /\ strayed' = (strayed \/ \E d \in ds : d[2] = "p" /\ Heeds(d))

\* The heartbeat finds the lease gone, and ends.
Fenced(d) ==
  /\ Busy(d) /\ ~Holds(d) /\ driver[d].beats
  /\ LET after == Stopped({d}) IN
       driver' = [after EXCEPT ![d].beats = FALSE]
  /\ lease' = Without(Gone({d}))
  /\ strayed' = (strayed \/ (d[2] = "p" /\ Heeds(d)))
  /\ UNCHANGED <<record, journal, spans, closing, reopened, bounds>>

\* The child's task was cancelled, and its CancelledError is raised in the parent.
ChildStopped(d) ==
  /\ In(d, "await") /\ Hears(d, "stopped") /\ Interrupt({d})
  /\ UNCHANGED <<record, journal, spans, closing, reopened, bounds>>

\* The parent is cancelled while it waits: result_task is cancelled, and with
\* it the child's task that it awaits, if there is one, ...
StopWaiting(d) ==
  /\ In(d, "await") /\ driver[d].flag
  /\ \/ /\ Hears(d, "follow") /\ Go(d, "propagate")
        /\ UNCHANGED lease
     \/ /\ Hears(d, "task")
        /\ LET after == Stopped({Child(d)}) IN
             driver' = [after EXCEPT ![d].pc = "stopping"]
        /\ lease' = Without(Gone({Child(d)}))
  /\ UNCHANGED <<record, journal, spans, closing, history, bounds>>

\* ... and awaited: of what it raises only a CancelledError is suppressed, ...
ChildGone(d) ==
  /\ In(d, "stopping")
  /\ \/ /\ driver[d].news \in {"stopped", "COMPLETED"} /\ Go(d, "propagate")
        /\ UNCHANGED strayed
     \/ /\ driver[d].news \in {"FAILED", "CANCELLED", "error"} /\ Go(d, "failed")
        /\ strayed' = (strayed \/ Hears(d, "error"))
  /\ UNCHANGED <<record, journal, lease, spans, closing, reopened, bounds>>

\* Mutant: the child is left alone.
Ignored == cancelReq

\* Runtime.cancel of a child that is not over.
Requested == IF Over("c") THEN cancelReq ELSE [cancelReq EXCEPT !["c"] = TRUE]

\* ... and the request is written for the child, which is driven here again
\* (Ensure) if nobody else does.
Propagate(d) ==
  /\ In(d, "propagate") /\ cancelReq' = Requested /\ Go(d, "cancelled")
  /\ UNCHANGED <<raises, status, journal, lease, spans, closing, history, bounds>>

-----------------------------------------------------------------------------

\* The compensation of what the driver knows to be complete.
Compensable(d) == Did(d, "CHILD_COMPLETED") \/ Did(d, "STEP_COMPLETED")
Undone(d)      == Compensable(d) => Did(d, "COMP_COMPLETED")
Fails(d)       == d[2] \in raises \/ Did(d, "CHILD_FAILED")
Failing(d)     == In(d, "failed") \/ (Settled(d) /\ Fails(d))

Compensate(d) ==
  /\ ~Undone(d) /\ (In(d, "cancelled") \/ Failing(d))
  /\ AppendThen(d, "COMP_COMPLETED", driver[d].pc)
  /\ UNCHANGED <<record, closing, history, bounds>>

End(d) ==
  /\ \/ In(d, "cancelled") /\ Undone(d) /\ OnceThen(d, "RUN_CANCELLED", "CANCELLED")
     \/ Failing(d) /\ Undone(d) /\ OnceThen(d, "RUN_FAILED", "FAILED")
     \/ Settled(d) /\ ~Fails(d) /\ OnceThen(d, "RUN_COMPLETED", "COMPLETED")
  /\ UNCHANGED <<record, closing, history, bounds>>

\* The status is written, and the task returns or raises accordingly.
Mark(d) ==
  /\ driver[d].pc \in Final /\ Leave(d, driver[d].pc)
  /\ status' = [status EXCEPT ![d[2]] = driver[d].pc]
  /\ UNCHANGED <<raises, cancelReq, journal, spans, closing, history, bounds>>

Drive(d) ==
  \/ JournalStart(d) \/ SeeCancel(d) \/ CheckCancel(d) \/ BeginStep(d) \/ EndStep(d)
  \/ ScheduleChild(d) \/ CreateChild(d) \/ Attach(d) \/ TakeOutcome(d) \/ ChildErred(d)
  \/ ChildStopped(d) \/ StopWaiting(d) \/ ChildGone(d) \/ Propagate(d)
  \/ Compensate(d) \/ End(d) \/ Mark(d)

-----------------------------------------------------------------------------

\* Runtime.cancel by a client, whose record of the run may be an old one.
Cancel(r) ==
  /\ cancels < MaxCancels /\ cancels' = cancels + 1
  /\ status[r] # "absent" /\ cancelReq' = [cancelReq EXCEPT ![r] = TRUE]
  /\ UNCHANGED <<raises, status, journal, lease, driver, spans, closing, history, faults>>

DriversOf(w) == {w} \X Runs

\* Runtime.shutdown: the tasks of all drivers are cancelled, and awaited; ...
Shutdown(w) ==
  /\ faults < MaxFaults /\ faults' = faults + 1
  /\ ~closing[w] /\ \E d \in DriversOf(w) : Busy(d)
  /\ closing' = [closing EXCEPT ![w] = TRUE]
  /\ Interrupt(DriversOf(w))
  /\ UNCHANGED <<record, journal, spans, reopened, cancels>>

\* ... a process takes the place of this one.
Restart(w) ==
  /\ closing[w] /\ \A d \in DriversOf(w) : ~Busy(d)
  /\ closing' = [closing EXCEPT ![w] = FALSE]
  /\ spans' = [spans EXCEPT ![w] = NoSpans]
  /\ UNCHANGED <<record, journal, lease, driver, history, bounds>>

\* A process dies, and with it its drivers and its spans; another takes its place.
Crash(w) ==
  /\ faults < MaxFaults /\ faults' = faults + 1
  /\ \E d \in DriversOf(w) : Busy(d)
  /\ driver' = [d \in Drivers |-> IF d[1] = w THEN Idle ELSE driver[d]]
  /\ spans' = [spans EXCEPT ![w] = NoSpans]
  /\ closing' = [closing EXCEPT ![w] = FALSE]
  /\ UNCHANGED <<record, journal, lease, history, cancels>>

\* The lease of a run that nobody drives any more runs out, ...
Expire(r) ==
  /\ lease[r] # Nobody /\ ~Busy(<<lease[r], r>>)
  /\ lease' = [lease EXCEPT ![r] = Nobody]
  /\ UNCHANGED <<record, journal, driver, spans, closing, history, bounds>>

\* ... or that of a driver that stalls.
Lapse(r) ==
  /\ faults < MaxFaults /\ faults' = faults + 1
  /\ lease[r] # Nobody /\ Busy(<<lease[r], r>>)
  /\ lease' = [lease EXCEPT ![r] = Nobody]
  /\ UNCHANGED <<record, journal, driver, spans, closing, history, cancels>>

Init ==
  /\ raises \in {{}, {"p"}, {"c"}}
  /\ status = [r \in Runs |-> IF r = "p" THEN "RUNNING" ELSE "absent"]
  /\ cancelReq = [r \in Runs |-> FALSE] /\ journal = [r \in Runs |-> <<>>]
  /\ lease = [r \in Runs |-> Nobody] /\ driver = [d \in Drivers |-> Idle]
  /\ spans = [w \in Workers |-> NoSpans] /\ closing = [w \in Workers |-> FALSE]
  /\ reopened = {} /\ strayed = FALSE /\ faults = 0 /\ cancels = 0

Next ==
  \/ \E w \in Workers, r \in Runs : Ensure(w, r) \/ EnsureStale(w, r)
  \/ \E d \in Drivers : Drive(d) \/ Fenced(d)
  \/ \E r \in Runs : Cancel(r) \/ Expire(r) \/ Lapse(r)
  \/ \E w \in Workers : Shutdown(w) \/ Restart(w) \/ Crash(w)

Spec == Init /\ [][Next]_vars

\* What happens by itself: drivers go on, workers recover what nobody drives, the
\* leases of the dead run out, heartbeats find out, and workers that were shut
\* down come back.
Progress ==
  \/ \E d \in Drivers : Drive(d) \/ Fenced(d)
  \/ \E w \in Workers : Restart(w) \/ \E r \in Runs : Ensure(w, r)
  \/ \E r \in Runs : Expire(r)

\* As long as one of these can happen, one of them does.
FairSpec == Spec /\ WF_vars(Progress)

-----------------------------------------------------------------------------

\* What a parent has journaled of its child is what became of the child,
\* whoever drove it, from whatever record, and however often either of them was
\* taken over; but a cancelled child can be driven on from a record that was
\* read before its cancellation was requested, and come to another end.
OutcomeIsTheChilds ==
  "c" \notin reopened =>
    /\ Contains(journal["p"], "CHILD_COMPLETED") => status["c"] = "COMPLETED"
    /\ Contains(journal["p"], "CHILD_FAILED") => status["c"] \in {"FAILED", "CANCELLED"}

\* A parent that is over leaves no child that runs on unasked (ctx.child:
\* "cancelling the parent ... cancels the child too").  The exceptions are a
\* flagged parent that is interrupted by a shutdown, the loss of its lease or the
\* end of its child's task, which takes the way of a cancelled run from wherever
\* it is; one whose child's task ends with an error; and one that was reopened.
NoOrphans ==
  Over("p") /\ ~strayed /\ "p" \notin reopened =>
    status["c"] = "absent" \/ Over("c") \/ cancelReq["c"]

\* The whole tree comes to an end.
TreeEnds == <>[](Over("p") /\ (Over("c") \/ status["c"] = "absent"))

\* otel.py: "a child workflow's run span is parented under the parent's run
\* span (one trace across the whole agent tree)", also when the child starts
\* only after the parent has been cancelled, as long as one process does both.
OneTrace == \A w \in Workers : spans[w].known \cap spans[w].alone = {}

=============================================================================
