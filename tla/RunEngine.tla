----------------------------- MODULE RunEngine -----------------------------
(***************************************************************************)
(* One durable run of sicim and the driver that executes it.               *)
(*                                                                         *)
(* The workflow body is a fixed sequence of context operations 1..NOps.    *)
(* Each operation journals what it did before it returns; after a crash a  *)
(* new driver evaluates the body again from operation 1 and every          *)
(* operation answers from the journal until one is not settled there.      *)
(* A failing or cancelled body is followed by the registered compensations *)
(* in reverse order (saga), then by a closing event and a final status.    *)
(*                                                                         *)
(* The store keeps the run record (status, cancel_requested), the journal  *)
(* and the signal inbox; they survive a crash.  Everything else belongs to *)
(* the driver task and is lost with it.                                    *)
(*                                                                         *)
(* Journal abstraction: the engine asks the journal only for the first     *)
(* event of a kind, the last one and their number, so the journal is kept  *)
(* per operation: the set of kinds present and two attempt counters.       *)
(*                                                                         *)
(* Time abstraction: `due' holds the operations whose journaled deadline   *)
(* (retry_at, fire_at, deadline) has passed; TimePasses moves the clock    *)
(* whether or not a driver is alive.                                       *)
(***************************************************************************)
EXTENDS Integers, Sequences, FiniteSets

CONSTANTS
  NOps,           \* number of context operations the body performs
  OpType,         \* OpType[o]: "step", "sleep", "wait", "value" or "register"
  Compensable,    \* steps that pass compensate=
  Timed,          \* wait_event operations that pass timeout=
  Caught,         \* operations whose StepFailed / WaitTimeout the body catches
  Raises,         \* TRUE when the body raises after its last operation
  MaxAttempts,    \* RetryPolicy.max_attempts, of steps and compensations
  MaxSignals,     \* bound: signals sent to the run
  MaxCrashes,     \* bound: hard crashes and shutdowns of the worker
  MaxStoreErrors, \* bound: store calls of the driver that raise
  MaxStaleStarts  \* bound: drivers started from a record read earlier

Ops == 1..NOps

ASSUME ConstantsOK ==
  /\ NOps \in Nat
  /\ OpType \in [Ops -> {"step", "sleep", "wait", "value", "register"}]
  /\ Compensable \subseteq {o \in Ops : OpType[o] = "step"}
  /\ Timed \subseteq {o \in Ops : OpType[o] = "wait"}
  /\ Caught \subseteq Ops
  /\ Raises \in BOOLEAN
  /\ MaxAttempts \in Nat \ {0}
  /\ MaxSignals \in Nat
  /\ MaxCrashes \in Nat
  /\ MaxStoreErrors \in Nat
  /\ MaxStaleStarts \in Nat

VARIABLES
  \* --- the store ---
  status,        \* RunRecord.status
  cancelReq,     \* RunRecord.cancel_requested
  journal,       \* journal[o]: the kinds journaled for operation o
  runJournal,    \* the kinds journaled for the run itself (op_id -1)
  tries,         \* tries[o]: number of STEP_ATTEMPT_FAILED events
  compTries,     \* compTries[o]: number of COMP_ATTEMPT_FAILED events
  sent,          \* number of signals appended to the inbox
  \* --- the clock ---
  due,           \* operations whose journaled deadline has passed
  \* --- the driver task ---
  pc,            \* where the driver stands; "down" when there is none
  op,            \* the operation being evaluated (op_id + 1)
  attempt,       \* local attempt number of _step / _run_compensations
  stack,         \* WorkflowContext._comp_stack
  flag,          \* Runtime._cancel_flags[run]
  event,         \* Runtime._cancel_events[run] is set
  outcome,       \* how the body ended
  k,             \* compensations of `stack' not visited yet
  compFailed,    \* _run_compensations has collected a failure
  closing,       \* Runtime._closing
  \* --- history ---
  reopened,      \* a driver has been started after the run had ended
  \* --- bounds ---
  crashes, storeErrors, staleStarts

store  == <<status, cancelReq, journal, runJournal, tries, compTries, sent>>
driver == <<pc, op, attempt, stack, flag, event, outcome, k, compFailed, closing>>
bounds == <<reopened, crashes, storeErrors, staleStarts>>
vars   == <<store, due, driver, bounds>>

Statuses == {"RUNNING", "COMPLETED", "FAILED", "CANCELLED",
             "COMPENSATION_FAILED"}
Terminal == Statuses \ {"RUNNING"}
Outcomes == {"none", "return", "fail", "cancel"}

OpKinds  == {"STEP_SCHEDULED", "STEP_COMPLETED", "STEP_FAILED",
             "TIMER_CREATED", "TIMER_FIRED",
             "WAIT_CREATED", "EVENT_CONSUMED", "WAIT_TIMED_OUT",
             "VALUE_RECORDED",
             "COMP_REGISTERED", "COMP_COMPLETED", "COMP_FAILED"}
RunKinds == {"RUN_STARTED", "RUN_COMPLETED", "RUN_FAILED", "RUN_CANCELLED"}

\* Places where the driver is inside the workflow body.
BodyPCs == {"body", "append", "attempt", "invoke", "backoff", "timer",
            "scan", "check", "waiting"}
\* Places where it runs compensations.
UndoPCs == {"undo", "undoInvoke", "undoBackoff"}
PCs     == BodyPCs \cup UndoPCs \cup {"down", "start", "close", "mark"}

-----------------------------------------------------------------------------
(***************************************************************************)
(* Questions the engine asks the journal                                   *)
(***************************************************************************)

Has(kind, o) == kind \in journal[o]

\* The event that defines what operation o is, per type.
DefiningKind(o) ==
  CASE OpType[o] = "step"     -> "STEP_SCHEDULED"
    [] OpType[o] = "sleep"    -> "TIMER_CREATED"
    [] OpType[o] = "wait"     -> "WAIT_CREATED"
    [] OpType[o] = "value"    -> "VALUE_RECORDED"
    [] OpType[o] = "register" -> "COMP_REGISTERED"

Recorded(o) == Has(DefiningKind(o), o)

\* The operation raised in the body (StepFailed, WaitTimeout).
Errored(o) == Has("STEP_FAILED", o) \/ Has("WAIT_TIMED_OUT", o)

\* The operation returned a value to the body.
Returned(o) == \/ Has("STEP_COMPLETED", o)
               \/ Has("TIMER_FIRED", o)
               \/ Has("EVENT_CONSUMED", o)
               \/ Has("VALUE_RECORDED", o)
               \/ Has("COMP_REGISTERED", o)

\* Mutant: replay forgets that a journaled error settles the operation.
SettledByResultOnly(o) == Returned(o)

Settled(o) == Returned(o) \/ Errored(o)

\* The body goes on after operation o without executing anything.
Passed(o) == Returned(o) \/ (Errored(o) /\ o \in Caught)

\* Operation o has registered a compensation.
Owed(o) == \/ o \in Compensable /\ Has("STEP_COMPLETED", o)
           \/ Has("COMP_REGISTERED", o)

\* Mutant: replay forgets the compensations that gave up.
UndoneByResultOnly(o) == Has("COMP_COMPLETED", o)

\* The compensation of operation o has been attempted to its end.
Undone(o) == Has("COMP_COMPLETED", o) \/ Has("COMP_FAILED", o)

\* Runtime._next_unconsumed_signal finds one.
Pending == sent > Cardinality({o \in Ops : Has("EVENT_CONSUMED", o)})

\* step, sleep and wait_event check for cancellation before they journal
\* their defining event; value and register operations do not.
Boundary(o) == OpType[o] \in {"step", "sleep", "wait"}

-----------------------------------------------------------------------------
(***************************************************************************)
(* Building blocks of the driver's steps                                   *)
(***************************************************************************)

\* Journal.append(kind, op)
Append1(kind, o) == journal' = [journal EXCEPT ![o] = @ \cup {kind}]

\* The operation returned: journal it, register its compensation, go on.
Settle(kind) ==
  /\ Append1(kind, op)
  /\ stack' = IF (kind = "STEP_COMPLETED" /\ op \in Compensable)
                 \/ kind = "COMP_REGISTERED"
              THEN Append(stack, op) ELSE stack
  /\ op' = op + 1
  /\ pc' = "body"
  /\ attempt' = 0
  /\ UNCHANGED <<flag, event, outcome, k, compFailed, closing>>

\* The body ended without returning: the compensations run next.
Raise(how) ==
  /\ pc' = "undo"
  /\ outcome' = how
  /\ k' = Len(stack)
  /\ compFailed' = FALSE
  /\ attempt' = 0
  /\ UNCHANGED <<op, stack, flag, event>>

\* The operation raised an exception in the body, which may catch it.
Throw ==
  IF op \in Caught
  THEN /\ pc' = "body"
       /\ op' = op + 1
       /\ attempt' = 0
       /\ UNCHANGED <<stack, flag, event, outcome, k, compFailed>>
  ELSE Raise("fail")

\* The driver only moves to another place.
Goto(p) == /\ pc' = p
           /\ UNCHANGED <<op, attempt, stack, flag, event, outcome, k, compFailed,
                          closing>>

\* The driver task is gone and with it all it held in memory.
Vanish ==
  /\ pc' = "down"
  /\ op' = 1 /\ attempt' = 0 /\ stack' = <<>> /\ flag' = FALSE /\ event' = FALSE
  /\ outcome' = "none" /\ k' = 0 /\ compFailed' = FALSE

-----------------------------------------------------------------------------
(***************************************************************************)
(* The driver: Runtime._ensure, the body, the compensations, the end       *)
(***************************************************************************)

\* _ensure spawns a driver with the request found in a record.  The local event
\* may be set already, by a cancel call that found no driver.
Spawn(request) ==
  /\ pc = "down" /\ ~closing
  /\ pc' = "start"
  /\ flag' = request
  /\ event' \in {request, cancelReq}
  /\ UNCHANGED <<store, due, op, attempt, stack, outcome, k, compFailed, closing, crashes,
                 storeErrors>>

\* start / resume / recover / signal / cancel with the record as it is.
Ensure ==
  /\ status = "RUNNING"
  /\ Spawn(cancelReq)
  /\ UNCHANGED <<reopened, staleStarts>>

\* The same callers with a record they read earlier: they test its status and
\* copy its request without reading either again, so that the run may have
\* been cancelled or have ended meanwhile.
EnsureStale ==
  /\ staleStarts < MaxStaleStarts
  /\ \E request \in {FALSE, cancelReq} :
       /\ <<"RUNNING", request>> # <<status, cancelReq>>
       /\ Spawn(request)
  /\ staleStarts' = staleStarts + 1
  /\ reopened' = (reopened \/ status # "RUNNING")

JournalStart ==
  /\ pc = "start"
  /\ runJournal' = runJournal \cup {"RUN_STARTED"}
  /\ Goto("body")
  /\ UNCHANGED <<status, cancelReq, journal, tries, compTries, sent, due, bounds>>

\* Mutant: the flag is looked at during replay, too.
CancelDuringReplay ==
  /\ flag
  /\ \/ pc \in {"attempt", "check"}
     \/ pc = "body" /\ op <= NOps /\ Boundary(op)
  /\ Raise("cancel")
  /\ UNCHANGED <<store, due, closing, bounds>>

\* The flag is seen before a live operation is begun, before an attempt and
\* after an inbox scan that found nothing (_check_cancel): CancelledError
\* leaves the body.
ObserveCancel ==
  /\ flag
  /\ \/ pc \in {"attempt", "check"}
     \/ pc = "body" /\ op <= NOps /\ Boundary(op) /\ ~Recorded(op)
  /\ Raise("cancel")
  /\ UNCHANGED <<store, due, closing, bounds>>

\* A timer and a backoff are woken by the event (_wait_or_cancel); what their
\* CancelledError means is again decided by the flag, and without it the
\* driver ends as in a shutdown.
WaitIsCancelled ==
  /\ event /\ pc \in {"backoff", "timer"}
  /\ IF flag THEN Raise("cancel") ELSE Vanish
  /\ UNCHANGED <<store, due, closing, bounds>>

\* An operation not in the journal yet is begun: the flag is looked at ...
Schedule ==
  /\ pc = "body" /\ op <= NOps
  /\ Boundary(op) /\ ~Recorded(op) /\ ~flag
  /\ Goto("append")
  /\ UNCHANGED <<store, due, bounds>>

\* ... and its defining event is appended, which is awaited.
Scheduled ==
  /\ pc = "append"
  /\ Append1(DefiningKind(op), op)
  /\ Goto("body")
  /\ UNCHANGED <<status, cancelReq, runJournal, tries, compTries, sent, due, bounds>>

\* now / random / uuid4 and add_compensation: recorded and settled at once.
RecordValue ==
  /\ pc = "body" /\ op <= NOps
  /\ ~Boundary(op) /\ ~Recorded(op)
  /\ Settle(DefiningKind(op))
  /\ UNCHANGED <<status, cancelReq, runJournal, tries, compTries, sent, due, bounds>>

\* Mutant: only live steps register compensations.
NotReregistered == stack

\* A replayed operation registers the compensation it registered when live.
Reregistered == IF Owed(op) THEN Append(stack, op) ELSE stack

\* Replay: the journal already holds the operation's result.
ReplayReturn ==
  /\ pc = "body" /\ op <= NOps /\ Returned(op)
  /\ stack' = Reregistered
  /\ op' = op + 1
  /\ UNCHANGED <<store, due, pc, attempt, flag, event, outcome, k, compFailed, closing, bounds>>

\* Replay: the journal already holds StepFailed or WaitTimeout.
ReplayError ==
  /\ pc = "body" /\ op <= NOps /\ Errored(op)
  /\ Throw
  /\ UNCHANGED <<store, due, closing, bounds>>

\* A recorded operation that is not settled continues where it stood.
Unsettled(type) ==
  /\ pc = "body" /\ op <= NOps /\ OpType[op] = type
  /\ Recorded(op) /\ ~Settled(op)

\* RetryPolicy.should_retry of a retryable exception.
ShouldRetry == attempt < MaxAttempts

\* Mutant: the attempt count starts over in every driver.
StepAttemptsForgotten(o) == 0

\* Attempts used up before this driver.
StepAttempts(o) == tries[o]

\* A step resumes its attempt count and what is left of its backoff.
EnterStep ==
  /\ Unsettled("step")
  /\ attempt' = StepAttempts(op)
  /\ pc' = IF tries[op] > 0 /\ op \notin due THEN "backoff" ELSE "attempt"
  /\ UNCHANGED <<store, due, op, stack, flag, event, outcome, k, compFailed, closing, bounds>>

BackoffOver ==
  /\ pc = "backoff" /\ op \in due /\ ~event
  /\ Goto("attempt")
  /\ UNCHANGED <<store, due, bounds>>

\* The next attempt starts: the step function runs while pc = "invoke".
Attempt ==
  /\ pc = "attempt" /\ ~flag
  /\ attempt' = attempt + 1
  /\ pc' = "invoke"
  /\ UNCHANGED <<store, due, op, stack, flag, event, outcome, k, compFailed, closing, bounds>>

StepReturns ==
  /\ pc = "invoke"
  /\ Settle("STEP_COMPLETED")
  /\ UNCHANGED <<status, cancelReq, runJournal, tries, compTries, sent, due, bounds>>

\* A retryable exception with attempts left (RetryPolicy.should_retry).
StepRetries ==
  /\ pc = "invoke" /\ ShouldRetry
  /\ tries' = [tries EXCEPT ![op] = @ + 1]
  /\ due' = due \ {op}
  /\ Goto("backoff")
  /\ UNCHANGED <<status, cancelReq, journal, runJournal, compTries, sent, bounds>>

\* The last attempt failed, or the exception is not retryable.
StepFails ==
  /\ pc = "invoke"
  /\ Append1("STEP_FAILED", op)
  /\ Throw
  /\ UNCHANGED <<status, cancelReq, runJournal, tries, compTries, sent, due, closing, bounds>>

\* A timer still running is waited for.
EnterTimer ==
  /\ Unsettled("sleep") /\ op \notin due
  /\ Goto("timer")
  /\ UNCHANGED <<store, due, bounds>>

\* An elapsed timer fires: after the wait, where a cancel request wins, or
\* without waiting when the body reaches it late, where none is looked for.
TimerFires ==
  /\ op \in due
  /\ \/ Unsettled("sleep")
     \/ pc = "timer" /\ ~event
  /\ Settle("TIMER_FIRED")
  /\ UNCHANGED <<status, cancelReq, runJournal, tries, compTries, sent, due, bounds>>

EnterWait ==
  /\ Unsettled("wait")
  /\ Goto("scan")
  /\ UNCHANGED <<store, due, bounds>>

\* The inbox is scanned before the cancel flag and the deadline are read.
Consume ==
  /\ pc = "scan" /\ Pending
  /\ Settle("EVENT_CONSUMED")
  /\ UNCHANGED <<status, cancelReq, runJournal, tries, compTries, sent, due, bounds>>

ScanFindsNothing ==
  /\ pc = "scan" /\ ~Pending
  /\ Goto("check")
  /\ UNCHANGED <<store, due, bounds>>

\* Mutant: a waiting operation does not look for a cancel request.
WaitIgnoresCancel ==
  /\ pc = "check" /\ op \notin due
  /\ Goto("waiting")
  /\ UNCHANGED <<store, due, bounds>>

\* No cancel request; the deadline decides between giving up and waiting.
WaitGoesOn ==
  /\ pc = "check" /\ ~flag /\ op \notin due
  /\ Goto("waiting")
  /\ UNCHANGED <<store, due, bounds>>

\* The waiter wakes (signal, cancel, poll interval, deadline) and scans again.
WaitWakes ==
  /\ pc = "waiting"
  /\ op \in due => Pending
  /\ Goto("scan")
  /\ UNCHANGED <<store, due, bounds>>

\* Mutant: the deadline is only looked at after a wait, not on entry.
TimesOutAfterWaitOnly ==
  /\ op \in due /\ pc = "waiting" /\ ~Pending
  /\ Append1("WAIT_TIMED_OUT", op)
  /\ Throw
  /\ UNCHANGED <<status, cancelReq, runJournal, tries, compTries, sent, due, closing, bounds>>

\* The deadline passed and, after a wait, one last scan found nothing.
WaitTimesOut ==
  /\ op \in due
  /\ \/ pc = "check" /\ ~flag
     \/ pc = "waiting" /\ ~Pending
  /\ Append1("WAIT_TIMED_OUT", op)
  /\ Throw
  /\ UNCHANGED <<status, cancelReq, runJournal, tries, compTries, sent, due, closing, bounds>>

\* The body is past its last operation: it returns or raises.
BodyEnds ==
  /\ pc = "body" /\ op = NOps + 1
  /\ IF Raises THEN Raise("fail")
     ELSE /\ pc' = "close" /\ outcome' = "return"
          /\ UNCHANGED <<op, attempt, stack, flag, event, k, compFailed>>
  /\ UNCHANGED <<store, due, closing, bounds>>

\* Mutant: compensations run in the order they were registered.
EntryFromBottom == stack[Len(stack) + 1 - k]

\* _run_compensations visits the stack from its top.
Entry == stack[k]

UndoSkips ==
  /\ pc = "undo" /\ k > 0 /\ Undone(Entry)
  /\ compFailed' = (compFailed \/ ~Has("COMP_COMPLETED", Entry))
  /\ k' = k - 1
  /\ UNCHANGED <<store, due, pc, op, attempt, stack, flag, event, outcome, closing, bounds>>

EnterUndo ==
  /\ pc = "undo" /\ k > 0 /\ ~Undone(Entry)
  /\ IF compTries[Entry] > 0 /\ Entry \notin due
     THEN pc' = "undoBackoff" /\ attempt' = compTries[Entry]
     ELSE pc' = "undoInvoke" /\ attempt' = compTries[Entry] + 1
  /\ UNCHANGED <<store, due, op, stack, flag, event, outcome, k, compFailed, closing, bounds>>

UndoBackoffOver ==
  /\ pc = "undoBackoff" /\ Entry \in due
  /\ pc' = "undoInvoke" /\ attempt' = attempt + 1
  /\ UNCHANGED <<store, due, op, stack, flag, event, outcome, k, compFailed, closing, bounds>>

UndoReturns ==
  /\ pc = "undoInvoke"
  /\ Append1("COMP_COMPLETED", Entry)
  /\ pc' = "undo" /\ k' = k - 1
  /\ UNCHANGED <<status, cancelReq, runJournal, tries, compTries, sent, due, op,
                 attempt, stack, flag, event, outcome, compFailed, closing, bounds>>

UndoRetries ==
  /\ pc = "undoInvoke" /\ ShouldRetry
  /\ compTries' = [compTries EXCEPT ![Entry] = @ + 1]
  /\ due' = due \ {Entry}
  /\ Goto("undoBackoff")
  /\ UNCHANGED <<status, cancelReq, journal, runJournal, tries, sent, bounds>>

\* The compensation gave up: recorded, and the remaining ones still run.
UndoFails ==
  /\ pc = "undoInvoke"
  /\ Append1("COMP_FAILED", Entry)
  /\ compFailed' = TRUE
  /\ pc' = "undo" /\ k' = k - 1
  /\ UNCHANGED <<status, cancelReq, runJournal, tries, compTries, sent, due, op,
                 attempt, stack, flag, event, outcome, closing, bounds>>

UndoDone ==
  /\ pc = "undo" /\ k = 0
  /\ Goto("close")
  /\ UNCHANGED <<store, due, bounds>>

ClosingKind == CASE outcome = "return" -> "RUN_COMPLETED"
                 [] outcome = "fail"   -> "RUN_FAILED"
                 [] outcome = "cancel" -> "RUN_CANCELLED"

JournalClose ==
  /\ pc = "close"
  /\ runJournal' = runJournal \cup {ClosingKind}
  /\ Goto("mark")
  /\ UNCHANGED <<status, cancelReq, journal, tries, compTries, sent, due, bounds>>

\* The final status, and the driver is gone.
MarkStatus ==
  /\ pc = "mark"
  /\ status' = CASE outcome = "return" -> "COMPLETED"
                 [] outcome # "return" /\ compFailed -> "COMPENSATION_FAILED"
                 [] outcome = "fail"   /\ ~compFailed -> "FAILED"
                 [] outcome = "cancel" /\ ~compFailed -> "CANCELLED"
  /\ Vanish
  /\ UNCHANGED <<closing, cancelReq, journal, runJournal, tries, compTries, sent, due, bounds>>

-----------------------------------------------------------------------------
(***************************************************************************)
(* The environment: clients, the clock, crashes, shutdowns, store errors   *)
(***************************************************************************)

\* Runtime.signal: the record it read, possibly before the run ended, was not
\* terminal, and the append tests nothing.
Signal ==
  /\ sent < MaxSignals
  /\ sent' = sent + 1
  /\ UNCHANGED <<status, cancelReq, journal, runJournal, tries, compTries, due,
                 driver, bounds>>

\* Runtime.cancel writes the request, with a record that was not terminal when
\* it was read (its _ensure is Ensure or EnsureStale).
Cancel ==
  /\ ~cancelReq
  /\ cancelReq' = TRUE
  /\ UNCHANGED <<status, journal, runJournal, tries, compTries, sent, due, driver, bounds>>

\* The driver's process learns of it: cancel goes on in this process, or the
\* heartbeat or a notification finds what another one has written.
Notice ==
  /\ cancelReq /\ pc # "down" /\ ~flag
  /\ flag' = TRUE /\ event' = TRUE
  /\ UNCHANGED <<store, due, pc, op, attempt, stack, outcome, k, compFailed, closing, bounds>>

\* Operations with a journaled deadline: a retry_at, a fire_at, a deadline.
HasDeadline(o) == \/ tries[o] > 0
                  \/ compTries[o] > 0
                  \/ Has("TIMER_CREATED", o)
                  \/ o \in Timed /\ Has("WAIT_CREATED", o)

TimePasses(o) ==
  /\ HasDeadline(o) /\ o \notin due
  /\ due' = due \cup {o}
  /\ UNCHANGED <<store, driver, bounds>>

\* The process dies; what the driver held in memory is gone.
Crash ==
  /\ crashes < MaxCrashes /\ pc # "down"
  /\ crashes' = crashes + 1
  /\ Vanish
  /\ closing' = FALSE
  /\ UNCHANGED <<store, due, reopened, storeErrors, staleStarts>>

\* The driver awaits a store call of the body.
AwaitsStore ==
  \/ pc \in {"append", "invoke", "scan"}
  \/ pc \in {"timer", "check", "waiting"} /\ op \in due
  \/ pc = "body" /\ op <= NOps /\ ~Boundary(op) /\ ~Recorded(op)
  \/ Unsettled("sleep") /\ op \in due

\* The driver task is suspended: a Task.cancel() can reach it.  Replay of
\* settled operations and visits of settled compensations never suspend.
Suspended ==
  \/ AwaitsStore
  \/ pc \in {"start", "backoff", "timer", "waiting",
             "undoInvoke", "undoBackoff", "close", "mark"}

\* Mutant: every cancelled task is a cancelled run.
AlwaysTakenForCancel == pc \in BodyPCs

\* _drive tells a cancelled run from a cancelled task by the cancel flag.
TakenForCancel == flag /\ pc \in BodyPCs

\* Runtime.shutdown cancels the driver task.  In the body the resulting
\* CancelledError is taken for a run cancellation when the flag is set;
\* anywhere else it ends the driver.
Shutdown ==
  /\ crashes < MaxCrashes /\ Suspended /\ ~closing
  /\ crashes' = crashes + 1
  /\ closing' = TRUE
  /\ IF TakenForCancel THEN Raise("cancel") ELSE Vanish
  /\ UNCHANGED <<store, due, reopened, storeErrors, staleStarts>>

\* A new process after a shutdown.
Restart ==
  /\ closing /\ pc = "down"
  /\ closing' = FALSE
  /\ UNCHANGED <<store, due, pc, op, attempt, stack, flag, event, outcome, k, compFailed, bounds>>

\* A store call of the driver raises.  Inside the body the exception is one
\* more failure of the workflow; after the body it ends the driver.
StoreError ==
  /\ storeErrors < MaxStoreErrors
  /\ storeErrors' = storeErrors + 1
  /\ \/ AwaitsStore /\ Raise("fail")
     \/ /\ pc \in {"start", "undoInvoke", "close", "mark"}
        /\ Vanish
  /\ UNCHANGED <<store, due, closing, reopened, crashes, staleStarts>>

-----------------------------------------------------------------------------

Init ==
  /\ status = "RUNNING" /\ cancelReq = FALSE
  /\ journal = [o \in Ops |-> {}] /\ runJournal = {}
  /\ tries = [o \in Ops |-> 0] /\ compTries = [o \in Ops |-> 0]
  /\ sent = 0 /\ due = {}
  /\ pc = "down" /\ op = 1 /\ attempt = 0 /\ stack = <<>>
  /\ flag = FALSE /\ outcome = "none" /\ k = 0 /\ compFailed = FALSE
  /\ event = FALSE /\ closing = FALSE /\ reopened = FALSE
  /\ crashes = 0 /\ storeErrors = 0 /\ staleStarts = 0

Body == \/ ObserveCancel \/ WaitIsCancelled
        \/ Schedule \/ Scheduled \/ RecordValue
        \/ ReplayReturn \/ ReplayError
        \/ EnterStep \/ BackoffOver \/ Attempt
        \/ StepReturns \/ StepRetries \/ StepFails
        \/ EnterTimer \/ TimerFires
        \/ EnterWait \/ Consume \/ ScanFindsNothing
        \/ WaitGoesOn \/ WaitWakes \/ WaitTimesOut
        \/ BodyEnds

Saga == \/ UndoSkips \/ EnterUndo \/ UndoBackoffOver
        \/ UndoReturns \/ UndoRetries \/ UndoFails \/ UndoDone

Drive == JournalStart \/ Body \/ Saga \/ JournalClose \/ MarkStatus

Environment == \/ Signal \/ Cancel \/ Notice \/ Crash \/ Shutdown \/ Restart
               \/ StoreError \/ \E o \in Ops : TimePasses(o)

Next == Ensure \/ EnsureStale \/ Drive \/ Environment

Spec == Init /\ [][Next]_vars

\* The event loop runs a task that can run, a step function returns or
\* raises, the clock advances, a heartbeat reads the record of the run it is
\* for, and a worker restarts and recovers the run.
Fairness == /\ WF_vars(Ensure)
            /\ WF_vars(Drive)
            /\ WF_vars(Notice)
            /\ WF_vars(Restart)
            /\ \A o \in Ops : WF_vars(TimePasses(o))

FairSpec == Spec /\ Fairness

-----------------------------------------------------------------------------
(***************************************************************************)
(* Properties                                                              *)
(***************************************************************************)

\* Every variable stays in its domain; a local attempt number never passes
\* max_attempts.
TypeOK ==
  /\ status \in Statuses /\ cancelReq \in BOOLEAN
  /\ journal \in [Ops -> SUBSET OpKinds] /\ runJournal \subseteq RunKinds
  /\ tries \in [Ops -> Nat] /\ compTries \in [Ops -> Nat] /\ sent \in Nat
  /\ due \subseteq Ops
  /\ pc \in PCs /\ op \in 1..(NOps + 1) /\ attempt \in 0..MaxAttempts
  /\ stack \in Seq(Ops) /\ flag \in BOOLEAN /\ event \in BOOLEAN /\ outcome \in Outcomes
  /\ k \in 0..Len(stack) /\ compFailed \in BOOLEAN /\ closing \in BOOLEAN
  /\ reopened \in BOOLEAN
  /\ crashes \in Nat /\ storeErrors \in Nat /\ staleStarts \in Nat

\* Attempt counts survive crashes (retry.py:15-16): however often the run is
\* resumed, fewer than max_attempts failed attempts are ever retried.
AttemptBudget ==
  \A o \in Ops : tries[o] < MaxAttempts /\ compTries[o] < MaxAttempts

\* What the journal holds as finished is never executed again: a step runs
\* only while it has no outcome and everything before it has one, and a
\* compensation that succeeded or gave up does not run a second time.
FinishedNeverReruns ==
  /\ pc = "invoke" => /\ ~Settled(op)
                      /\ \A p \in 1..(op - 1) : Passed(p)
  /\ pc = "undoInvoke" => /\ ~Has("COMP_COMPLETED", Entry)
                          /\ ~Has("COMP_FAILED", Entry)

\* Sagas unwind in reverse order, also when a crash interrupts them: while a
\* compensation runs, every later operation that owes one is done with it.
UndoneInReverse ==
  pc = "undoInvoke" => \A p \in Ops : p > Entry /\ Owed(p) => Undone(p)

\* Every operation that registered a compensation is compensated in a run
\* that has failed or was cancelled; COMPENSATION_FAILED means each was tried
\* to its end and at least one gave up.
Compensated ==
  /\ status \in {"FAILED", "CANCELLED"} =>
       \A o \in Ops : Owed(o) => Has("COMP_COMPLETED", o)
  /\ status = "COMPENSATION_FAILED" =>
       /\ \A o \in Ops : Owed(o) => Undone(o)
       /\ \E o \in Ops : Has("COMP_FAILED", o)

\* Whichever driver ends the run, also one that a stale record has brought to
\* a run that had ended, leaves it compensated; and it stays so for as long as
\* no such record reopens it.
SagaComplete ==
  [][MarkStatus \/ (Compensated /\ ~reopened') => Compensated']_vars

\* No operation ever has two outcomes in the journal, whatever mixture of
\* drivers wrote them: replay could otherwise answer differently.
OneOutcome ==
  \A o \in Ops :
    /\ ~(Returned(o) /\ Errored(o))
    /\ ~(Has("COMP_COMPLETED", o) /\ Has("COMP_FAILED", o))

\* A crash or a shutdown is never taken for a cancellation nobody asked for.
CancelledOnlyIfAsked == status = "CANCELLED" => cancelReq

\* A run that has completed stays COMPLETED: neither a cancel or a signal that
\* is under way when it ends, nor a driver that a stale record starts
\* afterwards, with or without a shutdown, turns it into anything else.
CompletedIsFinal == [][status = "COMPLETED" => status' = "COMPLETED"]_vars

\* A requested cancellation ends the run, even when it waits for a signal
\* that never comes.
CancelEnds == (cancelReq /\ status = "RUNNING") ~> (status \in Terminal)

\* A run ends, whatever crashes, retries and failures it goes through, unless
\* its body has come to a wait without deadline for a signal nobody sends.
AwaitsSignal == pc \in {"scan", "check", "waiting"} /\ op \notin Timed /\ ~Pending
RunEnds == <>[](status \in Terminal \/ AwaitsSignal)

-----------------------------------------------------------------------------
(***************************************************************************)
(* The inductive invariant                                                 *)
(***************************************************************************)

\* An operation is journaled with the kinds of its type only, its result
\* after its defining event, its compensation after its result, and nothing
\* before everything in front of it has passed.
KindsOf(o) ==
  CASE OpType[o] = "step"  -> {"STEP_SCHEDULED", "STEP_COMPLETED", "STEP_FAILED",
                               "COMP_COMPLETED", "COMP_FAILED"}
    [] OpType[o] = "sleep" -> {"TIMER_CREATED", "TIMER_FIRED"}
    [] OpType[o] = "wait"  -> {"WAIT_CREATED", "EVENT_CONSUMED", "WAIT_TIMED_OUT"}
    [] OpType[o] = "value" -> {"VALUE_RECORDED"}
    [] OpType[o] = "register" -> {"COMP_REGISTERED", "COMP_COMPLETED", "COMP_FAILED"}

JournalInv ==
  /\ OneOutcome
  /\ \A o \in Ops :
       /\ journal[o] \subseteq KindsOf(o)
       /\ Settled(o) => Recorded(o)
       /\ Undone(o) => Owed(o)
  /\ \A o, p \in Ops : p < o /\ Recorded(o) => Passed(p)

\* The driver stands behind operations that have passed, and its stack is
\* what they registered, in order.
StackInv ==
  /\ \A p \in Ops : p < op => Passed(p)
  /\ \A i \in 1..Len(stack) : stack[i] < op /\ Owed(stack[i])
  /\ \A i, j \in 1..Len(stack) : i < j => stack[i] < stack[j]
  /\ \A p \in Ops : p < op /\ Owed(p) => \E i \in 1..Len(stack) : stack[i] = p

\* Where the driver stands tells what it works on.
WorksOn(type) == op <= NOps /\ OpType[op] = type /\ Recorded(op) /\ ~Settled(op)

PlaceInv ==
  /\ pc \in {"down", "start"} => op = 1 /\ stack = <<>>
  /\ pc \in BodyPCs \cup {"down", "start"} => k = 0
  /\ pc \in {"attempt", "invoke", "backoff"} => WorksOn("step")
  /\ pc = "append" => op <= NOps /\ Boundary(op) /\ ~Recorded(op)
  /\ pc = "timer" => WorksOn("sleep")
  /\ pc \in {"scan", "check", "waiting"} => WorksOn("wait")
  /\ pc \in UndoPCs => outcome \in {"fail", "cancel"}
  /\ pc \in {"undoInvoke", "undoBackoff"} => k > 0 /\ ~Undone(Entry)
  /\ pc \in {"close", "mark"} => k = 0 /\ outcome # "none"
  /\ outcome = "return" => ~Raises
  /\ pc \in UndoPCs \cup {"close", "mark"} =>
       IF outcome = "return" THEN op = NOps + 1
       ELSE op <= NOps => ~Passed(op)

AttemptInv ==
  /\ AttemptBudget
  /\ pc \in {"attempt", "backoff"} => attempt = tries[op]
  /\ pc = "invoke"      => attempt = tries[op] + 1
  /\ pc = "undoBackoff" => attempt = compTries[Entry]
  /\ pc = "undoInvoke"  => attempt = compTries[Entry] + 1

\* Above k the stack has been visited, and compFailed says what was found.
UndoInv ==
  pc \in UndoPCs \cup {"close", "mark"} /\ outcome # "return" =>
    /\ \A i \in (k + 1)..Len(stack) : Undone(stack[i])
    /\ compFailed <=> \E i \in (k + 1)..Len(stack) : Has("COMP_FAILED", stack[i])

\* The driver knows of a request only after it is in the store, and one that
\* knows by its flag is also woken.
FlagInv ==
  /\ flag => event
  /\ event => cancelReq /\ pc # "down"
  /\ outcome = "cancel" => cancelReq
  /\ CancelledOnlyIfAsked

\* Nothing happens to a run that has ended before a stale record reopens it,
\* and a completed one is only replayed.
StatusInv ==
  /\ ~reopened => Compensated
  /\ ~reopened /\ status # "RUNNING" => pc = "down"
  /\ status = "COMPLETED" => /\ \A o \in Ops : Passed(o)
                             /\ ~Raises
                             /\ outcome \in {"none", "return"}

IInv == /\ TypeOK /\ JournalInv /\ StackInv /\ PlaceInv /\ AttemptInv
        /\ UndoInv /\ FlagInv /\ StatusInv

-----------------------------------------------------------------------------
(* What the documentation says and the code does not do *)

\* Runtime.cancel (runtime.py:374-377): a cancelled run "runs its
\* compensations, and ends as CANCELLED".  So a run with a finished
\* compensation is not one that completes.
RolledBackNeverCompletes ==
  status = "COMPLETED" => \A o \in Ops : ~Undone(o)

=============================================================================
