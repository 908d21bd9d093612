----------------------------- MODULE Ownership -----------------------------
(***************************************************************************)
(* One run of sicim, its lease, and the workers that may drive it.         *)
(*                                                                         *)
(* A worker that wants to drive the run reads its record, acquires the     *)
(* lease, loads the journal and starts a driver task with a heartbeat.     *)
(* These are separate store calls.  The lease can lapse under a live       *)
(* driver (a stalled event loop, a failed renewal), so that two workers    *)
(* drive the run for a while; what then protects the journal is the        *)
(* primary key (run_id, seq) of the SQL stores: a driver whose copy of the *)
(* journal is behind cannot append, and takes the refusal for a failure of *)
(* the workflow.                                                           *)
(*                                                                         *)
(* The body is a sequence of steps with compensations, as in RunHistory.       *)
(***************************************************************************)
EXTENDS RunHistory

CONSTANTS
  Workers,
  Nobody,             \* the lease row does not exist
  CanCancel,          \* TRUE when clients may request cancellation
  MaxLapses,          \* bound: leases that expire under a live driver
  MaxHeartbeatErrors, \* bound: heartbeat tasks that a store error ends
  MaxCrashes          \* bound: crashes of workers

VARIABLES
  \* --- the store ---
  log, status, cancelReq,
  owner,      \* the lease's owner
  expired,    \* the lease's expiry time has passed
  \* --- a worker ---
  pc,         \* where its driver of the run stands
  snap,       \* cancel_requested in the record it read
  copy,       \* Journal._events
  flag,       \* Runtime._cancel_flags[run]
  how,        \* outcome the driver is unwinding for
  beat,       \* its heartbeat: "on", "lost" (saw another owner) or "dead"
  \* --- what the compensations did in the outside world ---
  undone,     \* steps whose compensation has been executed
  \* --- bounds ---
  lapses, heartbeatErrors, crashes

store  == <<log, status, cancelReq>>
lease  == <<owner, expired>>
memory == <<snap, copy, flag, how, beat>>
bounds == <<lapses, heartbeatErrors, crashes>>
vars   == <<store, lease, pc, memory, undone, bounds>>

ASSUME OwnershipAssumption ==
  /\ Nobody \notin Workers /\ CanCancel \in BOOLEAN
  /\ MaxLapses \in Nat /\ MaxHeartbeatErrors \in Nat /\ MaxCrashes \in Nat

\* Places of a live driver task, and of a worker that holds the lease.
Driving == {"begin", "body", "invoke", "undo", "undoing", "mark"}
Holding == Driving \cup {"loading", "leaving"}
Places  == Holding \cup {"down", "read", "dead"}

Goto(w, place) == pc' = [pc EXCEPT ![w] = place]

\* What is lost with the driver task.
Forget(w) == /\ snap' = [snap EXCEPT ![w] = FALSE]
             /\ copy' = [copy EXCEPT ![w] = <<>>]
             /\ flag' = [flag EXCEPT ![w] = FALSE]
             /\ how'  = [how EXCEPT ![w] = "none"]
             /\ beat' = [beat EXCEPT ![w] = "dead"]

-----------------------------------------------------------------------------
(***************************************************************************)
(* Store.append_event of the SQL stores: the next sequence number is the   *)
(* length of the driver's copy, and the primary key refuses one in use.    *)
(***************************************************************************)

\* Mutant: the events of a run have no primary key.
NeverRefused(w) == FALSE

Refused(w) == Len(copy[w]) # Len(log)

Write(w, e) == /\ ~Refused(w)
               /\ log' = Append(log, e)
               /\ copy' = [copy EXCEPT ![w] = Append(@, e)]

\* The workflow is taken to have ended in a way that runs compensations.
Unwind(w, outcome) == /\ Goto(w, "undo")
                      /\ how' = [how EXCEPT ![w] = outcome]

\* An append in the body: a refusal is one more exception of the workflow.
BodyWrites(w, e) ==
  \/ Write(w, e) /\ Goto(w, "body") /\ UNCHANGED how
  \/ Refused(w) /\ Unwind(w, "failed") /\ UNCHANGED <<log, copy>>

\* An append after the body: a refusal ends the driver.
DriverWrites(w, e, place) ==
  \/ Write(w, e) /\ Goto(w, place)
  \/ Refused(w) /\ Goto(w, "leaving") /\ UNCHANGED <<log, copy>>

-----------------------------------------------------------------------------
(***************************************************************************)
(* Becoming the driver: Runtime._ensure                                    *)
(***************************************************************************)

\* recover, resume, start or signal reads the record of a run that is not
\* terminal, and goes on with that copy.
Read(w) ==
  /\ pc[w] = "down" /\ status = "RUNNING"
  /\ snap' = [snap EXCEPT ![w] = cancelReq]
  /\ Goto(w, "read")
  /\ UNCHANGED <<store, lease, copy, flag, how, beat, undone, bounds>>

\* Mutant: the upsert of the lease has no condition.
AlwaysClaimable(w) == TRUE

\* Mutant: a lease that has run out still belongs to its owner.
ExpiredNotClaimable(w) == owner \in {Nobody, w}

\* try_acquire_lease: free, expired or its own.
Claimable(w) == owner \in {Nobody, w} \/ expired

Acquire(w) ==
  /\ pc[w] = "read"
  /\ IF Claimable(w)
     THEN owner' = w /\ expired' = FALSE /\ Goto(w, "loading")
     ELSE UNCHANGED lease /\ Goto(w, "down")   \* LeaseUnavailable
  /\ UNCHANGED <<store, memory, undone, bounds>>

Load(w) ==
  /\ pc[w] = "loading"
  /\ copy' = [copy EXCEPT ![w] = log]
  /\ flag' = [flag EXCEPT ![w] = snap[w]]
  /\ how'  = [how EXCEPT ![w] = "none"]
  /\ beat' = [beat EXCEPT ![w] = "on"]
  /\ Goto(w, "begin")
  /\ UNCHANGED <<store, lease, snap, undone, bounds>>

Begin(w) ==
  /\ pc[w] = "begin"
  /\ IF In(Closing("start"), copy[w])
     THEN Goto(w, "body") /\ UNCHANGED <<log, copy>>
     ELSE DriverWrites(w, Closing("start"), "body")
  /\ UNCHANGED <<status, cancelReq, lease, snap, flag, how, beat, undone, bounds>>

-----------------------------------------------------------------------------
(***************************************************************************)
(* The body: the driver is at the first step its copy has no result of     *)
(***************************************************************************)

At(w, i) == pc[w] = "body" /\ StepsWith("done", copy[w]) = 1..(i - 1)
Failed(w) == StepsWith("fail", copy[w]) # {}

\* A live boundary: before a step is scheduled and before it is attempted.
ObserveCancel(w) ==
  /\ \E i \in Steps : At(w, i)
  /\ flag[w] /\ ~Failed(w)
  /\ Unwind(w, "cancelled")
  /\ UNCHANGED <<store, lease, snap, copy, flag, beat, undone, bounds>>

Schedule(w) ==
  /\ ~flag[w]
  /\ \E i \in Steps : /\ At(w, i) /\ ~In(<<"sched", i>>, copy[w])
                      /\ BodyWrites(w, <<"sched", i>>)
  /\ UNCHANGED <<status, cancelReq, lease, snap, flag, beat, undone, bounds>>

Attempt(w) ==
  /\ ~flag[w] /\ ~Failed(w)
  /\ \E i \in Steps : At(w, i) /\ In(<<"sched", i>>, copy[w])
  /\ Goto(w, "invoke")
  /\ UNCHANGED <<store, lease, memory, undone, bounds>>

StepReturns(w) ==
  /\ pc[w] = "invoke"
  /\ \E i \in Steps : /\ StepsWith("done", copy[w]) = 1..(i - 1)
                      /\ BodyWrites(w, <<"done", i>>)
  /\ UNCHANGED <<status, cancelReq, lease, snap, flag, beat, undone, bounds>>

StepFails(w) ==
  /\ pc[w] = "invoke"
  /\ \E i \in Fallible : /\ StepsWith("done", copy[w]) = 1..(i - 1)
                         /\ BodyWrites(w, <<"fail", i>>)
  /\ UNCHANGED <<status, cancelReq, lease, snap, flag, beat, undone, bounds>>

\* The journal says that the step failed: StepFailed is raised in the body.
Raises(w) ==
  /\ pc[w] = "body" /\ Failed(w)
  /\ Unwind(w, "failed")
  /\ UNCHANGED <<store, lease, snap, copy, flag, beat, undone, bounds>>

Complete(w) ==
  /\ pc[w] = "body" /\ StepsWith("done", copy[w]) = Steps
  /\ how' = [how EXCEPT ![w] = "completed"]
  /\ IF In(Closing("completed"), copy[w])
     THEN Goto(w, "mark") /\ UNCHANGED <<log, copy>>
     ELSE DriverWrites(w, Closing("completed"), "mark")
  /\ UNCHANGED <<status, cancelReq, lease, snap, flag, beat, undone, bounds>>

-----------------------------------------------------------------------------
(***************************************************************************)
(* After the body                                                          *)
(***************************************************************************)

\* The compensation of a finished step is executed, then journaled.
Undo(w) ==
  /\ pc[w] = "undo"
  /\ \E i \in Steps : Latest(i, copy[w]) /\ undone' = undone \cup {i}
  /\ Goto(w, "undoing")
  /\ UNCHANGED <<store, lease, memory, bounds>>

UndoReturns(w) ==
  /\ pc[w] = "undoing"
  /\ \E i \in Steps : Latest(i, copy[w]) /\ DriverWrites(w, <<"undone", i>>, "undo")
  /\ UNCHANGED <<status, cancelReq, lease, snap, flag, how, beat, undone, bounds>>

\* Mutant: the status is written although the closing event was refused.
CloseDespiteRefusal(w) ==
  /\ pc[w] = "undo" /\ Finished(copy[w]) = {}
  /\ Goto(w, "mark")
  /\ IF In(Closing(how[w]), copy[w]) \/ Refused(w)
     THEN UNCHANGED <<log, copy>>
     ELSE Write(w, Closing(how[w]))
  /\ UNCHANGED <<status, cancelReq, lease, snap, flag, how, beat, undone, bounds>>

Close(w) ==
  /\ pc[w] = "undo" /\ Finished(copy[w]) = {}
  /\ IF In(Closing(how[w]), copy[w])
     THEN Goto(w, "mark") /\ UNCHANGED <<log, copy>>
     ELSE DriverWrites(w, Closing(how[w]), "mark")
  /\ UNCHANGED <<status, cancelReq, lease, snap, flag, how, beat, undone, bounds>>

MarkStatus(w) ==
  /\ pc[w] = "mark"
  /\ status' = CASE how[w] = "completed" -> "COMPLETED"
                 [] how[w] = "failed"    -> "FAILED"
                 [] how[w] = "cancelled" -> "CANCELLED"
  /\ Goto(w, "leaving")
  /\ UNCHANGED <<log, cancelReq, lease, memory, undone, bounds>>

\* release_lease deletes the lease only if the driver still owns it.
Leave(w) ==
  /\ pc[w] = "leaving"
  /\ IF owner = w THEN owner' = Nobody /\ expired' = FALSE ELSE UNCHANGED lease
  /\ Goto(w, "down") /\ Forget(w)
  /\ UNCHANGED <<store, undone, bounds>>

-----------------------------------------------------------------------------
(***************************************************************************)
(* The heartbeat                                                           *)
(***************************************************************************)

Renew(w) ==
  /\ pc[w] \in Driving /\ beat[w] = "on" /\ owner = w
  /\ expired' = FALSE
  /\ flag' = [flag EXCEPT ![w] = @ \/ cancelReq]
  /\ UNCHANGED <<store, owner, pc, snap, copy, how, beat, undone, bounds>>

\* Renewal fails: the driver task is cancelled.  A driver in the body whose
\* cancel flag is set takes that for the cancellation of the run.
Lose(w) ==
  /\ pc[w] \in Driving /\ beat[w] = "on" /\ owner # w
  /\ beat' = [beat EXCEPT ![w] = "lost"]
  /\ IF flag[w] /\ pc[w] \in {"body", "invoke"}
     THEN Unwind(w, "cancelled")
     ELSE Goto(w, "leaving") /\ UNCHANGED how
  /\ UNCHANGED <<store, lease, snap, copy, flag, undone, bounds>>

\* A store call of the heartbeat raises: its task ends, the driver goes on.
HeartbeatError(w) ==
  /\ pc[w] \in Driving /\ beat[w] = "on"
  /\ heartbeatErrors < MaxHeartbeatErrors
  /\ heartbeatErrors' = heartbeatErrors + 1
  /\ beat' = [beat EXCEPT ![w] = "dead"]
  /\ UNCHANGED <<store, lease, pc, snap, copy, flag, how, undone, lapses, crashes>>

\* A cancel in the driver's own process, or the push channel of the store.
Notified(w) ==
  /\ pc[w] \in Driving /\ cancelReq /\ ~flag[w]
  /\ flag' = [flag EXCEPT ![w] = TRUE]
  /\ UNCHANGED <<store, lease, pc, snap, copy, how, beat, undone, bounds>>

-----------------------------------------------------------------------------
(***************************************************************************)
(* Clients, time, crashes                                                  *)
(***************************************************************************)

\* Runtime.cancel writes the request; it read the status before.
Cancel ==
  /\ CanCancel /\ ~cancelReq
  /\ cancelReq' = TRUE
  /\ UNCHANGED <<log, status, lease, pc, memory, undone, bounds>>

\* The lease of a worker that no longer drives the run runs out.
Expire ==
  /\ \A w \in Workers : pc[w] \in Holding => owner # w
  /\ owner # Nobody /\ ~expired
  /\ expired' = TRUE
  /\ UNCHANGED <<store, owner, pc, memory, undone, bounds>>

\* The lease runs out under a driver that fails to renew it in time.
Lapse ==
  /\ \E w \in Workers : owner = w /\ pc[w] \in Holding
  /\ ~expired /\ lapses < MaxLapses
  /\ expired' = TRUE
  /\ lapses' = lapses + 1
  /\ UNCHANGED <<store, owner, pc, memory, undone, heartbeatErrors, crashes>>

\* A worker dies for good: a restarted process has a new worker id.
Crash(w) ==
  /\ pc[w] \in Holding /\ crashes < MaxCrashes
  /\ crashes' = crashes + 1
  /\ Goto(w, "dead") /\ Forget(w)
  /\ UNCHANGED <<store, lease, undone, lapses, heartbeatErrors>>

-----------------------------------------------------------------------------

Init ==
  /\ log = <<>> /\ status = "RUNNING" /\ cancelReq = FALSE
  /\ owner = Nobody /\ expired = FALSE
  /\ pc = [w \in Workers |-> "down"]
  /\ snap = [w \in Workers |-> FALSE]
  /\ copy = [w \in Workers |-> <<>>]
  /\ flag = [w \in Workers |-> FALSE]
  /\ how  = [w \in Workers |-> "none"]
  /\ beat = [w \in Workers |-> "dead"]
  /\ undone = {} /\ lapses = 0 /\ heartbeatErrors = 0 /\ crashes = 0

Ensure(w) == Read(w) \/ Acquire(w) \/ Load(w)

Drive(w) == \/ Begin(w) \/ ObserveCancel(w) \/ Schedule(w) \/ Attempt(w)
            \/ StepReturns(w) \/ StepFails(w) \/ Raises(w) \/ Complete(w)
            \/ Undo(w) \/ UndoReturns(w) \/ Close(w) \/ MarkStatus(w)
            \/ Leave(w)

Heartbeat(w) == Renew(w) \/ Lose(w) \/ HeartbeatError(w) \/ Notified(w)

Next == \/ \E w \in Workers : Ensure(w) \/ Drive(w) \/ Heartbeat(w) \/ Crash(w)
        \/ Cancel \/ Expire \/ Lapse

Spec == Init /\ [][Next]_vars

\* Workers recover runs periodically, event loops run their tasks, and the
\* clock goes on.
FairSpec == /\ Spec
            /\ WF_vars(Expire)
            /\ \A w \in Workers : WF_vars(Ensure(w)) /\ WF_vars(Drive(w))

-----------------------------------------------------------------------------
(***************************************************************************)
(* Properties                                                              *)
(***************************************************************************)

Statuses == {"RUNNING", "COMPLETED", "FAILED", "CANCELLED"}

\* Every variable stays in its domain: what reaches the journal is an event of
\* this body, whoever writes it and for whatever reason.
TypeOK ==
  /\ log \in Seq(Events) /\ status \in Statuses /\ cancelReq \in BOOLEAN
  /\ owner \in Workers \cup {Nobody} /\ expired \in BOOLEAN
  /\ pc \in [Workers -> Places]
  /\ snap \in [Workers -> BOOLEAN] /\ flag \in [Workers -> BOOLEAN]
  /\ copy \in [Workers -> Seq(Events)]
  /\ how \in [Workers -> {"none", "completed", "failed", "cancelled"}]
  /\ beat \in [Workers -> {"on", "lost", "dead"}]
  /\ undone \subseteq Steps
  /\ lapses \in Nat /\ heartbeatErrors \in Nat /\ crashes \in Nat

\* However many workers believe they drive the run, each acts on a prefix of
\* the one journal: no two of them ever disagree about what has happened.
JournalAgreement ==
  \A w \in Workers :
    pc[w] \in Driving =>
      /\ Len(copy[w]) <= Len(log)
      /\ \A i \in 1..Len(copy[w]) : copy[w][i] = log[i]

\* "A lease grants one worker the exclusive right to drive a run"
\* (store.py:251): as long as no lease has expired under a live driver there
\* is at most one driver, whatever crashes and takeovers there were.
SoleDriver ==
  lapses = 0 =>
    \A v, w \in Workers : pc[v] \in Driving /\ pc[w] \in Driving => v = w

\* As long as nobody cancels, the journal that several workers write under
\* lapsing leases and crashes is that of one sequential execution: every step
\* is one of RunLog or leaves its variables alone.
Log == INSTANCE RunLog
OneExecution == Log!Init /\ [][cancelReq \/ Log!Next]_<<log, status>>

\* The run ends although workers die and leases lapse under live drivers.
RunEnds == <>(status # "RUNNING")

=============================================================================
