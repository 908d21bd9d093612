# A TLA+ model of sicim

sicim is a durable workflow runtime: a workflow is an ordinary coroutine whose
operations (steps, timers, waits for signals, journaled values) go through a
context that writes what happened to a journal before it goes on. After a crash
the coroutine is evaluated again from its beginning and every operation answers
from the journal until one is found that has no outcome yet. Failing and
cancelled runs execute registered compensations in reverse order. Several worker
processes may share one store; a lease says which of them drives a run.

This directory holds TLA+ modules that model that core, TLC configurations that
check them on small instances, and proofs for TLAPS. Line numbers refer to the
files under `sicim/`. `PROJECT.json` maps every definition to its code.

## 1. Inventory

| Component | Code | State it keeps | Operations | What makes it correct |
|---|---|---|---|---|
| Run driver | `runtime.py` 252–402, 856–1016 | handle and task per run, cancel flag and event | start, resume, recover, signal, cancel, shutdown, `_ensure`, `_drive` | every run ends with one status that tells the truth; a crash or shutdown leaves it resumable |
| Workflow context | `context.py` | operation counter, compensation stack | step, sleep, wait_event, values, add_compensation, `_run_compensations`, tag, child, continue_as_new, gather | replay repeats nothing and takes the same path; attempts stay within the policy; sagas unwind completely and in reverse |
| Journal | `journal.py` | events of one run, indexes, a lock | append, append_once, find, last, count, defining | memory and store agree; one outcome per operation |
| Retry policy | `retry.py` | none | should_retry, delay | attempt counts survive crashes |
| Leases, heartbeat | `store.py` 249–266, 541–562; `runtime.py` 1018–1038 | owner and expiry per run; a heartbeat task | acquire, renew, release, takeover | one driver at a time; whatever happens, one history |
| Scheduler | `runtime.py` 632–721, 1089–1154 | schedule records in the store; a polling loop per worker | schedule, pause, resume, unschedule, fire | each tick is fired or skipped by somebody, never lost; no overlap with `overlap="skip"` |
| Schedule specs | `schedule.py` | none | Every, Once, Cron, parsing | the next fire time is the right instant |
| Signal inbox | `runtime.py` 348–371, 1167–1194; `context.py` 628–684 | rows (seq, name, consumed); waiters in memory | append, scan, consume, mark | each signal consumed at most once, none lost to a race with a deadline |
| Chains | `runtime.py` 946–976, 762–805 | `continued_to` on the record | continue, follow, prune | one live end; signals and cancels reach it; pruning spares it |
| Children | `context.py` 454–589; `runtime.py` 845–854 | parent id on the record | start or attach, await, propagate cancel | one child per operation; its outcome reaches the parent |
| Reset | `runtime.py` 404–552, 807–843 | rewrites the journal | reset | a reset run is a run that never reached the dropped operations |
| gather | `context.py` 736–742 | none: one task per operation | gather | operations of one body may overlap, with each other and with a later driver's, and keep one outcome each; a failing branch leaves nothing uncompensated |
| Stores | `store.py`, `pg.py` | all of the above, persistently | one statement per call | primary keys, lease upsert, compare-and-set |
| Tags | `store.py` 47–84, `pg.py` 382–409, `context.py` | tags on the record and an index of them | merge, filter, carry to a successor | no update is lost, the index is in step |
| Monitoring UI | `ui.py`, `ui.html` | streams with queues, what the change poll saw last; in the page: its stream, what it shows, what it fetches | stream, poll, redraw | the page shows the present in the end |
| OpenTelemetry | `otel.py` | open spans, children that wait for theirs | observe | one trace across a tree of runs |
| Registry, serialization, errors, CLI | `workflow.py`, `serde.py`, `errors.py`, `__main__.py` | none that the runtime reads back | pure | – |

**Interaction.** All components meet in the store. The context calls the journal,
which appends to the store and then updates its own indexes. The runtime creates a
context, a journal and a heartbeat task per driven run. Signals and cancellations
are rows in the store plus, inside the driver's process, an in-memory wake-up; across
processes they are found by polling, by the heartbeat, or pushed by PostgreSQL.
The scheduler loop calls the same `_start` that clients call. Whatever a run
journals is also told to observers in its process: the UI's streams and the
OpenTelemetry exporter, which keep state of their own but write nothing back.

**What is hard.** (a) Every `await` is a point where clients, other drivers and the
heartbeat interleave. (b) Crashes, shutdowns and store errors between any two
journal appends. (c) One `CancelledError` that stands for a cancelled run, a lost
lease, a shutdown. (d) Store calls that belong together but are separate: read
record / take lease / load journal, start run / advance schedule, close journal /
write status. The record is never read again under the lease (863, 884), so that a driver may
start for a run that has ended or has been asked to stop meanwhile. (e) Leases that lapse under a live driver. (f) Deadlines that race
signals and cancellations. (g) Blocks of calls that only work as a whole:
continue-as-new, reset, deleting a run. (h) Two runs that cancel, await and outlive
each other. (i) Connections that break after the statement was committed. The `hazards` of `PROJECT.json` list them by line.

## 2. Modules

| Module | Models | Checked by | Proved in |
|---|---|---|---|
| `RunEngine` | one run, its journal, its driver, retries, timers, waits, saga, cancellation, crash, shutdown, store errors | `MCRunEngine` | `RunEngineProofs` |
| `Gather` | concurrent steps and waits of one body, live and on replay, the tasks a body leaves behind, and the drivers that follow | `MCGather` | `GatherProofs` |
| `RunHistory` | a journal as a sequence of events and what may follow it | – | – |
| `RunLog` | **abstract**: the journal of ONE sequential execution | – | – |
| `Ownership` | lease, workers, heartbeat, journal copies, primary key; implements `RunLog` until somebody cancels | `MCOwnership` | `OwnershipProofs` |
| `Lineage` | **abstract**: a chain is one computation with one outcome | – | – |
| `Chain` | continue-as-new call by call, following, pruning, tags, cancel and result by an old id; implements `Lineage` | `MCChain` | `ChainProofs` |
| `Reset` | reset call by call, with drivers, a child and other workers | `MCReset` | `ResetProofs` |
| `ChildTree` | a parent and its child: start or attach, wait, propagate cancel, compensate | `MCChildTree` | `ChildTreeProofs` |
| `Spans` | the OpenTelemetry observer of one process; used by `ChildTree` | `MCChildTree` | `ChildTreeProofs` |
| `Database` | the rows of a run and what a store call makes of them | `MCPgStore` | `PgStoreProofs` |
| `StoreCalls` | **abstract**: store calls as atomic effects, at least once | `MCPgStore` | `PgStoreProofs` |
| `PgStore` | PostgreSQL statements, row lock, lost connections and retries; implements `StoreCalls` | `MCPgStore` | `PgStoreProofs` |
| `Scheduler` | one schedule and the loops that fire it, with the compare-and-set, whatever its timetable | `MCScheduler` | `SchedulerProofs` |
| `Calendar` | cron fields, day matching, the search through a zone with a gap and a fold | `MCScheduler` | `SchedulerProofs` |
| `Timetable` | `Every`, `Once` and `Cron` as functions of time; composes `Scheduler` and `Calendar` | `MCScheduler` | `SchedulerProofs` |
| `Stream` | the UI's live stream: server, change poll, page | `MCStream` | – |

The modules look at the same code from several sides, and each keeps only as much
of the others as it needs. `RunEngine` has all operations, one driver at a time and
a journal reduced to what the engine asks it. `Ownership` has a body of steps only,
many drivers and the journal as the sequence that the primary key protects. `Chain`,
`ChildTree` and `Reset` have fixed bodies of one to three operations, journals that are
sequences of event kinds (in `Reset` sets of numbered events, because it renumbers them),
and leases with drivers of several workers. `Scheduler`
names runs by their tick and reduces a run to whether it is live. Where the other
modules take a store call as one atomic step, `PgStore` says what PostgreSQL makes
of it.

### RunEngine

The body is a sequence of operations `1..NOps` whose kinds are constants; a body
may catch the error of an operation (`Caught`) and may raise at its end (`Raises`).
Store: `status`, `cancelReq`, `journal[o]` (kinds journaled for operation `o`),
`runJournal`, `tries`/`compTries` (number of `STEP_ATTEMPT_FAILED` /
`COMP_ATTEMPT_FAILED`), `sent`. `due` holds operations whose journaled deadline has
passed; time goes on whether or not a driver lives. Driver: `pc`, `op`, `attempt`,
`stack` (`_comp_stack`), `flag` (`_cancel_flags`), `event` (`_cancel_events`), `outcome`, `k`,
`compFailed`; `closing` is the runtime's.

Each action runs from one suspension point of the coroutine to the next. For
example `_step` (context.py 270–364) is `Schedule` (the cancel check) and `Scheduled` (the
awaited append of its defining event, during which a request may arrive),
`ReplayReturn` / `ReplayError` (the two early returns), `EnterStep` (count and
backoff), `BackoffOver`, `Attempt`, and `StepReturns`, `StepRetries`, `StepFails`;
`_wait_event` is `EnterWait`, `Consume`, `ScanFindsNothing`, `WaitGoesOn`,
`WaitWakes`, `WaitTimesOut`, with the scan, the cancel check, the deadline and the
wait as separate steps because the code awaits between them. `Shutdown` cancels the task
only where the coroutine is suspended, and `TakenForCancel` is the test of
`_drive` 926 that decides what the `CancelledError` means.

A cancellation is three steps. `Cancel` writes the request (383) and nothing else. `Notice` is when
the driver's process learns of it, which sets flag and event: the rest of `cancel` in the same process
(384–385), the heartbeat in another one (1033–1037), or a notification. The driver acts on it at
`ObserveCancel`, where `_check_cancel` reads the flag, and at `WaitIsCancelled`, where a timer or a
backoff is woken by the event. `Ensure` starts a driver with the record as it is. `EnsureStale` starts
one with a record that a caller (recover, resume, signal, cancel) read earlier, when the run was
RUNNING and perhaps not yet asked to stop: `_ensure` tests that status (863), copies that
`cancel_requested` (884) and looks at neither again. `reopened` remembers that the run had ended when
such a driver started; no action reads it.

Journal abstraction: the engine calls only `find` (first of a kind), `last`,
`count` and `defining`, so a set of kinds and two counters per operation answer
every question it asks.

### Gather

The body is one `ctx.gather` of the operations `Type`. Every driver of the process is a
"life"; `at[l][o]` is where the task of operation `o` in life `l` is, `mine[l]` that life's
`Journal._events`. A task's actions run from one await to the next: `Replay` and `Begin` are
its first slice, `StepReturns` puts the completion into the store and `StepIsDone` is
the return of that append, which registers the compensation; `Scan` reads the inbox
and `Scanned` acts on the answer, so that other tasks come in between. `Unlocked` is the
journal's lock, `Refused` the primary key. `why` is what gather raises; `Told` says that a
future reaches its awaiter through the loop, after tasks created with it have begun.
`BodyRaises` freezes `stack`, which is what iterating over `reversed(self._comp_stack)` amounts to. A driver
that is stopped while it awaits gather takes its tasks along (`Cut`), one that unwinds does not.

### Ownership

`Read`, `Acquire`, `Load` are the three store calls of recover/`_ensure`; `snap` is
the `cancel_requested` of the record that was read. `copy[w]` is the driver's
`Journal._events`; `Refused(w)` is the primary key `(run_id, seq)`. A refusal in the
body unwinds as a workflow failure (`BodyWrites`), one after it ends the driver
(`DriverWrites`). `undone` records compensations executed in the outside world.
`Lapse` expires the lease under a live driver, `HeartbeatError` is an exception
inside the heartbeat task, which ends it and nothing else.

### Scheduler

A loop is `List` (a copy of the due record), `Check` (previous run, registry),
then `Skip`, or `Start` and `Advance`. `Unmoved` is the compare of the
compare-and-set. `Fail` is a crash or an exception between any two of them.
`Resume` computes the fire time and `ResumeWrites` writes it without comparing.

### Chain and Lineage

Link `i` continues as link `i + 1`. A driver `<<w, i>>` is at one of the places between
the calls of `_drive` 946–976: `"look"` (read the successor's and its own record),
`"create"`, `"link"` (mark CONTINUED), `"prune"` (one predecessor per action, as
`_prune_chain` awaits per predecessor), `"next"` (load the successor's record), `"ensure"` (start it with
that record, whatever it has become by then). `EnsureStale` is recover, signal or cancel with a record
read earlier. `reopened` remembers that a driver started for a link that was CANCELLED, or CONTINUED
with its journal pruned: the only closed links that do not replay to the end that they had. `mine` is its copy of the
journal, `tags` what it read for the successor. A driver that starts again after a
crash replays to the same place and goes through the calls again; that `AppendThen`
refuses a driver whose copy is behind is the primary key. `Ends` are the links where `_follow_chain`, which
loads one record after the other, can come to; `Answers` are those among them that are over. `Lineage` has two
variables, the live end and the outcome; `OneComputation` maps the last existing link
and its status to them (CONTINUED counts as RUNNING until the successor exists).

### Reset

One `reset` at a time goes through `acquire`, `load`, `stop`, `claim`, `replace`,
`marker`, `signals`, `reopen`, `delete`, `resume` (runtime.py 404–552), `refuse` being the
`except` branch. Its arguments, which operation and whether forced, are chosen where
the code looks at them. The journal is a set of rows `[seq, kind, of]`, as the table is:
an append whose number is `Taken` hits the primary key, and `replace` writes the kept rows
back `Renumbered` from 0 on. `torn` becomes true when its process dies between its first
write and its last, when a lease it relies on runs out, or when its own worker drives
the run or the child under it: these are histories no check of the code covers,
and they are not followed any further (see below).

### ChildTree and Spans

`driver[<<w, r>>]` is the driver of run `r` (`"p"` or `"c"`) in worker `w`. What a parent knows of its
child is `news`: the status in the record it loaded (`asked` is the request in it), then `"task"` while it
awaits the child's task in its own process or `"follow"` while it follows the child through the store, and
then how that task ended: with a final status, `"stopped"` by a CancelledError, or with an `"error"` that is no
outcome (a refused append), which `_child` 573–582 raises in the parent (`ChildErred`). `StopWaiting`,
`ChildGone` and `Propagate` are 567–572: the awaited task is cancelled; it is awaited under
`suppress(CancelledError)`, which lets a WorkflowCancelled of the child through, so that the parent
fails; only after that is the child asked to stop. `ChildStopped` is a CancelledError that
comes out of the child's own task. `Shutdown` cancels all tasks of a worker where they
stand and `Restart` is the process that takes its place; `Fenced` is the heartbeat that finds the lease gone, once per
driver (`beats`). `EnsureStale` and the record that `Attach` uses are stale records as above.
Two histories name what the code lets happen: `reopened` has the runs that were driven on, as if nobody had asked,
after RUN_CANCELLED, and `strayed` says that a parent took another interruption for its cancellation,
or an error of its child's driver for its child's. `Spans` is the observer of each process, called with every append.

### Database, StoreCalls and PgStore

`Call` is a fixed list of calls by several workers, `Effects(c, d)` what a call makes of
the rows `d`. `StoreCalls` applies effects at least once between request and answer;
an error says nothing. `PgStore` is the same in statements: `ReadTags`/`WriteTags` under the
row lock, `PickSeq`/`InsertSignal` with `UniqueViolation`, `DeleteNext` table by table,
`Lose` wherever a connection can break, followed by the one retry of `_with_conn`.

### Calendar and Timetable

A clock of few minutes and hours, so that every search can be compared with its
definition. `Wall` and `Stamp` are `fromtimestamp` and `timestamp` in a zone that
skips hour `Gap` and repeats hour `Fold`; `CronAfter` is the search. `Firings` is what it should find, by
the values the fields are written with (`Written`, `FiresOn`) and not by the code's `any_day` shortcut
(`DayMatches`); the two agree on the expressions whose day fields have no step after a star (`Plain`).
`Timetable` has the `next_after` and `first_fire_at` of the three kinds of schedule, `SpecNext`
and `SpecFirst`; its assumption `TimetableFollowed` gives them to `Scheduler`, where the
timetable is a parameter.

### Stream

The server's side: `sub` (the queues), `seenRec`/`seenSeq` (what the change poll saw),
`poll` (it awaits between records and journals). The page's side is the script of
`ui.html`: `busy`, `pending`, `missed`, `live`, the fetch that is under way and what is shown.

## 3. Runs

| Run | Instance | States | Shows |
|---|---|---|---|
| `engine` | value, wait with a caught timeout, step with a compensation, timer, registered compensation, wait without deadline; 2 attempts, 1 signal, 1 cancel, 1 crash or shutdown, 1 store error, 1 stale start; fair | 495 000 | `IInv`, `AttemptBudget`, `FinishedNeverReruns`, `UndoneInReverse`, `SagaComplete`, `CancelledOnlyIfAsked`, `CompletedIsFinal`, `CancelEnds`, `RunEnds` |
| `handover` | 2 workers, 2 steps (one may fail), 1 lapse, 1 heartbeat error, 1 crash, cancellation; fair | 258 000 | `JournalAgreement`, `SoleDriver`, `OneExecution`, `RunEnds` |
| `workers` | 2 loops, one without the code, an interval, 5 times, 2 client calls, 1 failure; fair | 112 000 | `TickNotLost`, `NextMovesForward`, `DueTicksHandled` |
| `single` | 1 loop, 2 failures; a cron expression over 15 times; 72 expressions over 7 days of 4 hours of 2 minutes, one hour skipped, one repeated | 7 600 | `SkipPreventsOverlap`, `CronFindsNext` |
| `oneshot` | 2 loops, one without the code, one tick, 2 failures; fair | 2 300 | `OneShotFires` |
| `calls` | 2 workers, 8 calls (create, two tag updates, two signals, append, acquire, delete), 1 lost connection; fair | 214 000 | `TagsKept`, `SignalsKept`, `Atomically`, `CallsAnswered` |
| `chain` | 2 workers, 3 links, `chain_keep` 1, 1 crash, lapse or stale start, a client that cancels and awaits by the first id; fair | 746 000 | `KeepsNewest`, `TagsCarried`, `IsOneComputation`, `ResultReturns` |
| `reset` | 2 workers, 2 resets, 2 crashes or lapses, body of child, wait, step; fair | 79 000 | `JournalOfOneRun`, `AccountsAgree`, `NoLeaseLeftBehind`, `EndsUnlessTorn` |
| `children` | 2 workers, parent and child, either may raise, 1 crash, shutdown, lapse or stale start, 1 cancel; fair | 478 000 | `OutcomeIsTheChilds`, `NoOrphans`, `OneTrace`, `TreeEnds` |
| `stream` | 2 connections, 1 stream allowed, queues of 1, 2 writes, deeds of the user or failures; fair | 84 000 | `CatchesUp`, `StreamIsTold` |
| `gather` | two waits and a step that may fail, 2 drivers, 1 stop or crash, cancellation, 1 signal | 3 765 000 | `OneOutcome`, `ReplayedIsUndone`, `NotConsumedAgain` |
| `rolled_back` | step and timer, cancelled, 1 crash | – | violates `RolledBackNeverCompletes` |

`rolled_back` is a disagreement between code and documentation: cancelled in a sleep, crashed while
compensating and resumed after the timer elapsed, a run passes the elapsed timer
without a cancel check (`context.py` 611) and completes with its steps undone.

**Bounds.** The hazards need few actors. A saga needs two compensations to
have an order and a body that fails; two attempts distinguish "retry", "last" and
"one too many". One crash, one store error and one stale start leave a run that is driven three times, by drivers
that know of a request or do not; the body returns (`Raises = FALSE`), because only a run that can complete shows
what comes to a completed one, and fails by its step, its store error or its cancellation.
The proofs cover bodies that raise, and any number of crashes and stale starts. Two workers
and one lapse give two concurrent drivers, two steps a copy that is behind by more
than one event. Three links with `chain_keep` 1 are the shortest chain of which a link
may be pruned, and must not be pruned too early; one crash, lapse or stale start makes a second driver repeat any
suffix of the block. In the tree one fault meets every place of parent and child, before and after the request. Two resets let the second find what the first left, a marker
or a child of the second generation. One lost connection hits every call at every
statement; a second one only turns a retry into an error, which the first can be too.
Two workers' tag updates and signals overlap in every order. Three operations are what
gather needs for one to fail and two waits to look for one signal, two drivers for one to leave tasks to the other. A queue of one and one stream are full at once; two events are a
change and a failure, or two changes between which the page looks. The sequence numbers
of signals (`Numbers`) are as many as the calls of the run can use up.

**Deadlock** is not checked (`CHECK_DEADLOCK FALSE`): a terminal run, an exhausted
clock, calls that have all been answered and a page nobody touches any more really stop. That nothing stops
too early is what the liveness properties say.

**Fairness.** Weak fairness only: the event loop runs a task that is ready
(`Drive`, `Fires`, `Serve`, `Rewind`, the steps of `Stream`; `Progress` of `Chain` asks only that some task goes on), a step function returns or raises (part of
`Drive`), a worker that is down is restarted and recovers (`Ensure`, `Restart`;
`recover_interval`), the heartbeat of a live driver reads its record again (`Notice`, `Fenced`;
1027–1037), and the clock goes on (`TimePasses`, `Expire`). In `Stream`, a user who
looks elsewhere or types comes back (`Show`, `Leave`); in `Reset` the signal the body waits for
comes. Cancellations, crashes, shutdowns, lapses, stale starts, lost connections and errors are never fair.
`RunEnds` of `RunEngine` excepts a body that has come to a wait without deadline for a
signal nobody sends.

**What the models showed without a run of its own.** Where code and documentation
were found to differ in a way that needs no model checker to see, or that a property above
had to be stated around, there is no run; these are the places:

* A store error in the body fails and compensates the run (`runtime.py` 982), where
  `pg.py` 11–14 says it is treated "crash-equivalently — the run stays RUNNING".
* A record read before the run was closed is driven again: its status is tested at 863 and its
  `cancel_requested` copied at 884, and neither is read again under the lease. A COMPLETED run only replays
  (`CompletedIsFinal`). A FAILED or CANCELLED run can be changed: the body may take another
  path (a store error does not recur, a CANCELLED run is driven on with the flag FALSE), execute operations that
  were never reached, and end otherwise. In a chain, a
  CANCELLED last link can complete or continue after all, and a pruned link, whose journal is gone, is executed from its
  beginning and can turn from CONTINUED to CANCELLED or write its successor's start again; `IsOneComputation` and
  `ResultReturns` therefore speak of the time before `reopened`. In a tree, a child that has journaled RUN_CANCELLED can
  complete after the parent journaled CHILD_FAILED (`OutcomeIsTheChilds`). The same window lets a
  signal or a cancel request be written to a run that has ended (`runtime.py` 356, 383).
* The event without the flag: a `cancel` whose `_ensure` was refused leaves `_cancel_events` set (385–390) in a process
  that does not drive the run. A later driver there that started from an older record finds the event and not the
  flag: its first timer or backoff ends the driver as a shutdown would (`WaitIsCancelled`, `context.py` 349, 612),
  the run stays RUNNING, and the next driver goes on.
* After a lapse the old driver takes its refused append for a failure of the
  workflow (982) and compensates steps of a run its successor may complete, although
  a lease "grants one worker the exclusive right to drive a run" (`store.py` 250).
* Once the cancel flag is set, a shutdown or a lost lease in the body is taken for
  the cancellation itself (926) and the driver goes on writing, where 724 and
  1021–1023 say that no state is written. `CancelledOnlyIfAsked` is the other face of this test.
* Cancellation is said to be "never mid-step" (374–377); a step is interrupted
  when the heartbeat or a parent cancels the task of its driver.
* With two loops, two runs of an `overlap="skip"` schedule may be live: a stale copy
  starts a tick another loop skipped, and the run is not remembered (1118–1151).
* An interval is counted from the poll, `max(fire_at, now)` (1116), where `schedule.py` 206
  says "aligned to the previous fire time (no drift)".
* A cancel request that is written to a link of a chain between the end of its body and the
  CONTINUED mark stays with that link; signals its body did not consume stay too
  (378 promises that the live run is followed). `ResultReturns` holds all the same.
* Two missed prunes leave an old link with history behind one without:
  "already pruned earlier -> everything older is too" (800) then ends the walk too early.
* A tag given from outside between the successor's creation and the CONTINUED mark is not
  carried; `TagsCarried` speaks of the body's own.
* `PostgresStore`: an `append_event` that was committed before its connection broke is
  run again and answered with a conflict, and a compare-and-set of a schedule with
  False, so that "re-established transparently" (10–12) is not so for these two;
  a signal is delivered twice. `StoreCalls` therefore says "at least once, and the answer
  is that of the last effect". The SQLite backend reads and writes tags in two
  statements without a lock: two processes can lose an update.
* A reset disturbed by its own worker (recover, signal or cancel respawn a driver under the lease the
  reset holds), or whose lease runs out (it renews none), writes over a live
  journal; one whose process dies between its first and its last write leaves a run whose
  dropped signals and children nobody knows any more. These are the `torn` histories.
  `reset(resume=False)`, or a refused reset, releases the lease under a driver that was
  spawned meanwhile; a refused reset of a terminal run keeps the lease until it expires if
  a driver was stopped for it.
* "cancelling the parent while it awaits a child cancels the child too" (`context.py` 473–474) is not so when the cancelled parent is
  interrupted by something else before it reaches `context.py` 571: `cancel` followed by `shutdown`, a lost lease, or
  the end of its child's task delivers a CancelledError at 562 or 570, 926 takes it for the cancellation, and the
  parent is closed CANCELLED while its child runs on unasked. (723–728 call a shutdown "crash-equivalent" and say that it does not touch
  the state of a run.) A parent whose child's driver ends with an error that is no outcome, a refused append for
  instance, becomes FAILED (`runtime.py` 982) with its child still RUNNING, where the comment at 582 has both runs
  stay resumable. `NoOrphans` excepts these as `strayed`.
* A parent that is cancelled together with its child may get the child's WorkflowCancelled out of the awaited task at
  570, which `suppress(CancelledError)` does not catch: the parent is then FAILED and not CANCELLED. A child that completes
  between the parent's cancellation and the request is compensated by nobody.
* A step after the star of a day field is lost: `_parse_field` takes every field that starts with `*` for unrestricted
  (`schedule.py` 112) and `_day_matches` does not look at an unrestricted field (165–177), so that `0 0 */2 * *` fires every day, where
  the docstring promises "steps" (10–14). `CronFindsNext` speaks of the `Plain` expressions and compares with the
  values as they are written.
* A cron time in the repeated hour fires once, at its first showing. Times in the skipped hour fire an
  hour later, except that a search which begins in the hour after the gap does not
  make them up (`FindsNext` says so).
* A journal that a reset has shortened and that has grown back to the number the change
  poll remembers is not noticed (`ui.py` 517: "a reset rewinds it, so any change
  counts"); the page's own interval shows it, so `CatchesUp` holds and `StreamIsTold` excepts it.
* `asyncio.gather` raises with its first failing operation and leaves the others
  running (`context.py` 742). A sibling step that completes after the saga has taken its stack is
  never compensated, where `compensate` "registers a saga compensation that runs (LIFO) if the
  workflow later fails or is cancelled" (248–250): `ReplayedIsUndone` speaks of what earlier drivers
  completed. A cancelled run is closed over a step that is "allowed to finish first"
  (`runtime.py` 376–377), and may begin attempts after it, as the driver's end removes the flag (1009). A driver that
  `reset` stops while its body unwinds goes on writing through the tasks that were left, where 811–814 want it to
  stand still. A wait without deadline that was left keeps polling after the run has ended.
* Two `wait_event` of one name under `gather` that scan at the same time both consume the same
  signal (`context.py` 646: the set is read before the scan is awaited). `NotConsumedAgain`
  therefore speaks of different drivers.

## 4. Proofs

All theorems hold for every value of the constants: any body, policy, number of
workers, links, crashes, lapses, signals and client calls (the bounds are constants
too, and the proofs use only that they are natural numbers).

* `RunEngineProofs`. None of the safety properties is inductive by itself:
  that replay stops at the right operation depends on the journal having no gaps,
  that the saga is complete depends on the stack holding exactly what the passed
  operations registered. `IInv` adds those facts: `JournalInv` (kinds match types,
  results follow definitions, an operation is recorded only when all before it have
  passed), `StackInv` (the stack is, in order, what passed operations owe),
  `PlaceInv` (what the driver's place says about the operation it works on),
  `AttemptInv` (the local count is the journaled count), `UndoInv` (above `k`
  everything has been visited and `compFailed` says what was found), `FlagInv` (a driver knows of a
  request only once it is written; the converse is not so, and nothing rests on it) and `StatusInv` (what holds of a run
  that has ended before a stale record reopens it, and of a completed one for ever: its whole body
  has passed, and a driver can only return from it). `InductiveInvariant` proves `Spec => []IInv` with one lemma for each
  building block (`Settle`, `Raise`, `Throw`, `Goto`) and one case per action;
  eight properties follow from it. `SagaComplete` and `CompletedIsFinal` are properties of steps: whichever driver writes
  the final status has, by `UndoInv`, undone all that the journal owes, also on a run that was over before; and a driver that comes
  to a completed run finds nothing to execute.
* `OwnershipProofs`. `CopiesBegin` (every copy is a prefix of the journal) is kept
  because an append is accepted only from a copy of full length; together with
  `LeaseInv` (without a lapse, who drives holds an unexpired lease) it gives
  `JournalAgreement` and `SoleDriver`.
  It also proves `OneExecution`: `Ownership` implements `RunLog` until somebody
  cancels. `Sane(log)` says that a journal is that of one sequential execution. That a
  driver's next append continues the journal follows from its copy being the whole
  journal when it is accepted; the hard case is the driver that is refused, takes
  the refusal for a failure and unwinds. `DriverSane` says that such a driver has lost
  its copy's race for good: its copy is shorter than the journal, so whatever it still
  tries to write is refused. Every action is then a step of `RunLog` or changes neither
  the journal nor the status.
* `ChainProofs`. `IInv` is `Base /\ (reopened \/ Whole)`. `Base` holds whatever is driven again: the links that exist are
  the first ones (`Reach`), a CONTINUED link has a successor, who has the successor's tags in hand has those of all
  links before, and who prunes has kept as many links as lie between. `KeepsNewest` and
  `TagsCarried` follow from it alone. `Whole` holds until a link is reopened: for every link, how its
  status, its journal and those of its successor go together; for every driver, that inside a link's body it
  holds the lease and knows the whole journal. It gives the refinement `IsOneComputation`: creating the
  successor is `Lineage`'s `Continue`, marking the last link is its `Finish`, and every other
  action is a stutter.
* `SchedulerProofs`. The invariant says what a worker that is about to skip or
  advance knows: the run of its tick, or the previous run, exists. `TickNotLost`
  and `NextMovesForward` are then properties of single steps; the latter rests on
  the compare-and-set and on `NextAfter(t) > t`, an assumption on the timetable.
  `OneLoopNeverOverlaps` proves `SkipPreventsOverlap` for one loop that no client disturbs, the
  case in which it is true: `Alone` says that what is live is the remembered run or
  that of a tick which is started and not yet recorded, and never both.
  `TimetablesMoveForward` shows that the code's three timetables meet that assumption.
  `CronSchedulesFindTheirNext` is `CronFindsNext` for every calendar, expression and placing of the two
  hours: an instant and a wall-clock time are both an hour and a minute (`Clock`), the
  zone moves the hour and never the minute, so `Stamp` takes the candidates of the search onto
  the firings to come and the first candidate to the first of them
  (`FirstCandidateFirst`: a skipped time is shown together with one an hour later, and both
  hours have the same minutes). That the least candidate exists comes from the well-foundedness
  of the natural numbers. That a schedule only stands at firings is an invariant of all steps, `resume_schedule` included.
* `GatherProofs`. None of `Gather`'s three properties is inductive either: what a task may
  journal depends on what its own life knows. `IInv` adds `Copies` (every life's copy is a
  beginning of the journal, and a completion that a task has written but not been told of
  is the next event), `TasksKnow` (an operation whose task is at work has no outcome in
  that copy), `Found` (a signal that was found has been consumed meanwhile at most by
  the same life), `Due` (what an earlier life completed is yet to be replayed, or on
  the stack, or undone) and `Complete`. An append is accepted only from a copy that is
  the whole journal, so what the copy says of an operation, the journal says
  (`Proper`, `JournalGrows`); a task that was left behind and missed an event is refused.

* `PgStoreProofs`. `TagsInv` says who holds the row lock between reading and writing the
  tags: what it read is what is still there. `SignalsInv` is about numbers: below one that was
  picked none is free, so two senders that pick the same one end with one row and one
  `UniqueViolation`, and what was acknowledged stays below. `Standing` ties a call's place to what
  is known of its answer. From these follow `TagsKept` and `SignalsKept`, which like the invariant
  speak of histories in which no deletion has been asked for, and `Atomically`: every statement that
  matters is the one effect of `StoreCalls`, every other is a stutter. It is proved for any calls
  of which none deletes (`NoDeletes`). It is not true of all instances
  with one: with three workers, a deletion between two picks of a signal's number can put a
  number below one that was seen. The run `calls` has a deletion, and holds for its two workers.
* `ChildTreeProofs`. Journals, records, drivers and spans must be known to agree
  before anything can be said of the parent. `Copies` is the primary key again; `ChildInv` says that the child's
  journal and its record go together; `DriversInv` what a driver's place says of its journal, of the request and of
  the news it has; `ParentInv` that the parent journals the child before it exists and its outcome after it has one, which gives
  `OutcomeIsTheChilds` through any lapse, crash, shutdown or stale record until the child is reopened. `Cared` says that
  there is no child, or it is over, or it has been asked to stop; a parent that is past its propagation, or over,
  has cared for its child unless it has `strayed` (`NoOrphans`). `SpanInv` says that an observer that will need the
  parent's span still has it (`OneTrace`).
* `ResetProofs`. `LeaseInv` (a lease of what is to be driven is held by who drives or resets it)
  holds even of torn histories and gives `NoLeaseLeftBehind`. `JournalOfOneRun` and `AccountsAgree` speak of those that are not
  torn, and so does the rest of the invariant: the journal is `Dense` and `Ordered`, a driver and who minds the child
  are alone, and `HoldingInv`, `SplitInv` and `WorldInv` say at every stage of a reset which leases it
  holds, how it has split the journal, and what the signal and the child still owe to what was dropped. That `Renumbered` rows
  have no gap and keep their order is a lemma about cardinalities, of what lies
  below each row. There is one lemma per action.

Assumptions are those of the constants (`ConstantsOK`, `BodyAssumption`,
`OwnershipAssumption`, `ScheduleAssumption`, `TimetableAssumption`, `TimetableFollowed`, `CalendarAssumption`,
`ChainAssumption`, `GatherAssumption`, `CallsAssumption`, `MaxLossesAssumption`,
`ChildTreeAssumption`, `ResetAssumption`); the passing runs
evaluate them. `CalendarAssumption` asks that the days that are looked at contain both changes of
the clock. `IInv` of `RunEngine` is also checked by the run `engine`.

Every safety and action property of a run, and every refinement (`Atomically` with the
restriction above, `SkipPreventsOverlap` with its own), is proved. Only model-checked, because
liveness rests on fairness and `ENABLED`, which are out of reach of the provers here: `CancelEnds`, both
`RunEnds`, `DueTicksHandled`, `OneShotFires`, `ResultReturns`, `CallsAnswered`,
`EndsUnlessTorn`, `TreeEnds`, `CatchesUp`, `StreamIsTold`.

## 5. Not modelled, and what is left

* In `Gather`: retries and deadlines of concurrent operations, children under gather,
  `return_exceptions=True`, a gather inside a gather, other workers. The order of
  compensations under gather: live it is that of completions, on replay that of the
  tasks' first slices, and nothing says which is meant.
* The non-determinism branch of `_drive`: it needs a change of the code between two executions.
* An append that a shutdown interrupts is not written here; in the code the statement may still land after its
  task is gone. (A crash between an append and what follows it is the same history, and is modelled.)
* In `ChildTree`, flag and event are one variable (`RunEngine` has both), and a child that ends in the very turn of the event loop in which
  its parent is cancelled ends a turn later.
* A step's effect before its completion is journaled: effects are outside the state.
* `PostgresStore`'s LISTEN channel (a wake-up, never the only way to learn of a
  change) and the limit of 20 attempts on a signal's number; reading and filtering of lists.
* In `Stream`: HTTP, the JSON handlers, the poll of schedules (the same comparison as that of
  runs), other runs than the one on the page, a run that is not among the newest 200.
* In `Calendar`: months, the seconds field, names and aliases, the refusal of ill-formed
  expressions; durations and their text. In `Spans`: spans of operations, times and attributes.
* Lengths of delays and jitter, which only decide when a deadline passes; versions, which are data on the
  record.
* Serialization, error classes, the command line and decorators: they keep no state
  that the runtime reads back.

Left to prove: what of `Atomically` is true of a store whose runs are deleted (two workers, or
numbers picked after the deletion); how far a reset that is torn can damage a journal; and the
steps that the liveness properties rest on, such as that a run always has a next action until it is over.
