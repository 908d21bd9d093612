----------------------------- MODULE Scheduler -----------------------------
(***************************************************************************)
(* One schedule of sicim and the workers whose scheduler loops fire it.    *)
(*                                                                         *)
(* Every worker polls the store for due schedules, decides for itself      *)
(* whether the tick is to be skipped, starts the tick's run and then       *)
(* advances the schedule with a compare-and-set on the fire time.  No lock *)
(* is held between these store calls: a worker acts on the copy of the     *)
(* record it listed.                                                       *)
(*                                                                         *)
(* A tick is named by its fire time, and so is its run: scheduled_run_id   *)
(* is a function of the schedule and the fire time.                        *)
(***************************************************************************)
EXTENDS Integers

CONSTANTS
  Workers,        \* runtimes that run the scheduler loop
  Registered,     \* those that have the schedule's workflow registered
  SkipOverlap,    \* TRUE for overlap="skip", FALSE for "allow"
  NextAfter(_),   \* Spec.next_after
  FirstFireAt(_), \* Spec.first_fire_at
  NoTick,         \* None: no fire time, no last run
  MaxTime,        \* bound: the clock
  MaxClientCalls, \* bound: schedule, pause, resume and unschedule calls
  MaxFailures     \* bound: crashes and store errors in the loop

Times == 0..MaxTime

ASSUME ScheduleAssumption ==
  /\ Registered \subseteq Workers
  /\ SkipOverlap \in BOOLEAN
  /\ NoTick \notin Nat
  /\ MaxTime \in Nat /\ MaxClientCalls \in Nat /\ MaxFailures \in Nat
  /\ \A t \in Times : FirstFireAt(t) \in Nat \cup {NoTick}
  /\ \A t \in Times : \/ NextAfter(t) = NoTick
                      \/ NextAfter(t) \in Nat /\ NextAfter(t) > t

VARIABLES
  \* --- the store: the schedule record and the runs it started ---
  exists,     \* the record has not been deleted
  paused,     \* ScheduleRecord.paused
  next,       \* ScheduleRecord.next_fire_at
  last,       \* ScheduleRecord.last_run_id, as the tick it names
  started,    \* ticks whose run has been created
  live,       \* those whose run is not terminal
  \* --- the workers ---
  pc,         \* where a worker's loop stands
  tick,       \* the fire time in the record it listed
  previous,   \* the last run in the record it listed
  seen,       \* the time at which it listed
  \* --- a resume_schedule call in progress, the clock, the bounds ---
  resuming,   \* the fire times it is about to write: empty or one
  now, clientCalls, failures

record  == <<exists, paused, next, last>>
runs    == <<started, live>>
workers == <<pc, tick, previous, seen>>
bounds  == <<clientCalls, failures>>
vars    == <<record, runs, workers, resuming, now, bounds>>

Places == {"idle", "check", "skip", "start", "advance"}

-----------------------------------------------------------------------------
(***************************************************************************)
(* Store.update_schedule                                                   *)
(***************************************************************************)

\* Mutant: the update does not compare.
UnmovedUnchecked(w) == exists

\* The compare-and-set succeeds: nobody has moved the fire time.
Unmoved(w) == exists /\ next = tick[w]

\* Missed ticks collapse into the one being fired.
Later(t, s) == IF t > s THEN t ELSE s
NextTick(w) == NextAfter(Later(tick[w], seen[w]))

Done(w) == pc' = [pc EXCEPT ![w] = "idle"]

-----------------------------------------------------------------------------
(***************************************************************************)
(* The scheduler loop of worker w                                          *)
(***************************************************************************)

\* list_due_schedules: the schedule is due and w gets a copy of its record.
List(w) ==
  /\ pc[w] = "idle"
  /\ exists /\ ~paused /\ next # NoTick /\ next <= now
  /\ tick' = [tick EXCEPT ![w] = next]
  /\ previous' = [previous EXCEPT ![w] = last]
  /\ seen' = [seen EXCEPT ![w] = now]
  /\ pc' = [pc EXCEPT ![w] = "check"]
  /\ UNCHANGED <<record, runs, resuming, now, bounds>>

\* The run of the previous tick is looked up.
PreviousIsLive(w) == previous[w] \in live

\* Mutant: a worker without the code advances the schedule all the same.
CheckIgnoresMissingCode(w) ==
  /\ pc[w] = "check"
  /\ pc' = [pc EXCEPT ![w] =
             IF SkipOverlap /\ PreviousIsLive(w) THEN "skip"
             ELSE IF w \in Registered THEN "start" ELSE "advance"]
  /\ UNCHANGED <<record, runs, tick, previous, seen, resuming, now, bounds>>

Check(w) ==
  /\ pc[w] = "check"
  /\ pc' = [pc EXCEPT ![w] =
             IF SkipOverlap /\ PreviousIsLive(w) THEN "skip"
             ELSE IF w \in Registered THEN "start" ELSE "idle"]
  /\ UNCHANGED <<record, runs, tick, previous, seen, resuming, now, bounds>>

\* Mutant: skipping a tick leaves it due.
SkipLeavesDue(w) ==
  /\ pc[w] = "skip"
  /\ Done(w)
  /\ UNCHANGED <<record, runs, tick, previous, seen, resuming, now, bounds>>

\* The tick is skipped: only the fire time moves.
Skip(w) ==
  /\ pc[w] = "skip"
  /\ next' = IF Unmoved(w) THEN NextTick(w) ELSE next
  /\ Done(w)
  /\ UNCHANGED <<exists, paused, last, runs, tick, previous, seen, resuming, now, bounds>>

\* Runtime._start with the tick's run id: the primary key lets one worker
\* create the run, the others attach to it (whatever became of it).
Start(w) ==
  /\ pc[w] = "start"
  /\ started' = started \cup {tick[w]}
  /\ live' = IF tick[w] \in started THEN live ELSE live \cup {tick[w]}
  /\ pc' = [pc EXCEPT ![w] = "advance"]
  /\ UNCHANGED <<record, tick, previous, seen, resuming, now, bounds>>

\* Mutant: the schedule moves on without remembering the run.
AdvanceForgetsRun(w) ==
  /\ pc[w] = "advance"
  /\ next' = IF Unmoved(w) THEN NextTick(w) ELSE next
  /\ Done(w)
  /\ UNCHANGED <<exists, paused, last, runs, tick, previous, seen, resuming, now, bounds>>

\* The schedule moves on and remembers the run it started.
Advance(w) ==
  /\ pc[w] = "advance"
  /\ IF Unmoved(w)
     THEN next' = NextTick(w) /\ last' = tick[w]
     ELSE UNCHANGED <<next, last>>
  /\ Done(w)
  /\ UNCHANGED <<exists, paused, runs, tick, previous, seen, resuming, now, bounds>>

\* The worker dies and comes back, or a store call raises: the loop logs it
\* and lists again.
Fail(w) ==
  /\ pc[w] # "idle" /\ failures < MaxFailures
  /\ failures' = failures + 1
  /\ Done(w)
  /\ UNCHANGED <<record, runs, tick, previous, seen, resuming, now, clientCalls>>

-----------------------------------------------------------------------------
(***************************************************************************)
(* Clients, runs and the clock                                             *)
(***************************************************************************)

ClientCall == /\ clientCalls < MaxClientCalls
              /\ clientCalls' = clientCalls + 1
              /\ UNCHANGED failures

\* Runtime.schedule of an id that is not taken.
Schedule ==
  /\ ~exists /\ ClientCall
  /\ exists' = TRUE /\ paused' = FALSE
  /\ next' = FirstFireAt(now) /\ last' = NoTick
  /\ UNCHANGED <<runs, workers, resuming, now>>

Pause ==
  /\ exists /\ ClientCall
  /\ paused' = TRUE
  /\ UNCHANGED <<exists, next, last, runs, workers, resuming, now>>

\* resume_schedule computes the fire time first and writes it, with no
\* comparison, when the store gets to it.
Resume ==
  /\ exists /\ resuming = {} /\ ClientCall
  /\ resuming' = {NextAfter(now)}
  /\ UNCHANGED <<record, runs, workers, now>>

ResumeWrites ==
  /\ resuming # {}
  /\ IF exists THEN paused' = FALSE /\ next' \in resuming
               ELSE UNCHANGED <<paused, next>>
  /\ resuming' = {}
  /\ UNCHANGED <<exists, last, runs, workers, now, bounds>>

Unschedule ==
  /\ exists /\ ClientCall
  /\ exists' = FALSE
  /\ UNCHANGED <<paused, next, last, runs, workers, resuming, now>>

\* A run reaches a terminal status.
RunEnds(t) ==
  /\ t \in live
  /\ live' = live \ {t}
  /\ UNCHANGED <<record, started, workers, resuming, now, bounds>>

TimePasses ==
  /\ now < MaxTime
  /\ now' = now + 1
  /\ UNCHANGED <<record, runs, workers, resuming, bounds>>

-----------------------------------------------------------------------------

Init ==
  /\ exists = TRUE /\ paused = FALSE
  /\ next = FirstFireAt(0) /\ last = NoTick
  /\ started = {} /\ live = {}
  /\ pc = [w \in Workers |-> "idle"]
  /\ tick = [w \in Workers |-> 0]
  /\ previous = [w \in Workers |-> NoTick]
  /\ seen = [w \in Workers |-> 0]
  /\ resuming = {} /\ now = 0 /\ clientCalls = 0 /\ failures = 0

Fires(w) == List(w) \/ Check(w) \/ Skip(w) \/ Start(w) \/ Advance(w)

Next == \/ \E w \in Workers : Fires(w) \/ Fail(w)
        \/ Schedule \/ Pause \/ Resume \/ ResumeWrites \/ Unschedule
        \/ \E t \in live : RunEnds(t)
        \/ TimePasses

Spec == Init /\ [][Next]_vars

\* The loop of a worker that is up keeps polling, and the clock advances.
FairSpec == /\ Spec
            /\ WF_vars(TimePasses)
            /\ \A w \in Workers : WF_vars(Fires(w))

-----------------------------------------------------------------------------
(***************************************************************************)
(* Properties                                                              *)
(***************************************************************************)

\* Every variable stays in its domain; a worker only holds ticks that were
\* due when it listed them.
TypeOK ==
  /\ exists \in BOOLEAN /\ paused \in BOOLEAN
  /\ next \in Nat \cup {NoTick} /\ last \in Times \cup {NoTick}
  /\ started \subseteq Times /\ live \subseteq started
  /\ pc \in [Workers -> Places]
  /\ tick \in [Workers -> Times] /\ seen \in [Workers -> Times]
  /\ previous \in [Workers -> Times \cup {NoTick}]
  /\ \A w \in Workers : tick[w] <= seen[w]
  /\ resuming \subseteq Nat \cup {NoTick}
  /\ now \in Times /\ clientCalls \in Nat /\ failures \in Nat

\* A worker moves a schedule past a tick only when the tick's run exists or,
\* with overlap="skip", when there is a previous run: no crash, stale copy or
\* worker without the code makes a tick disappear.
TickNotLost ==
  [][\A w \in Workers :
       Advance(w) \/ Skip(w) =>
         \/ next' = next
         \/ next \in started
         \/ SkipOverlap /\ previous[w] \in started]_vars

\* However stale the copy a worker acts on, the fire time of a schedule goes
\* forward (only resume_schedule, which does not compare, can put it back):
\* "exactly one worker records the tick" (runtime.py:1110).
NextMovesForward ==
  [][exists /\ exists' /\ next # NoTick /\ ~ResumeWrites =>
       next' = NoTick \/ next' >= next]_vars

\* A due tick does not stay due: it is fired or skipped by a worker that has
\* the code, unless the schedule is paused or deleted first.
DueTick(t) == exists /\ ~paused /\ next = t /\ t <= now
DueTicksHandled == \A t \in Times : DueTick(t) ~> ~DueTick(t)

\* A schedule that fires once starts its run and is spent: whichever worker
\* crashes in between, the run of its tick exists in the end and no fire time
\* is left.
SpentAfterItsTick(t) == <>[](t \in started /\ next = NoTick)

\* With overlap="skip" a tick is skipped while the previous run is still
\* running (runtime.py:657-658): two runs of the schedule are never live.
SkipPreventsOverlap == SkipOverlap => \A s, t \in live : s = t

=============================================================================
