------------------------------- MODULE Gather -------------------------------
(***************************************************************************)
(* Concurrent operations of one body: return await ctx.gather(op, op, ...). *)
(* Every operation is a task of its own.  When one of them raises, the     *)
(* body is told at once, unwinds and ends while the others go on; they     *)
(* outlive their driver too, unless it is stopped while it waits for them. *)
(*                                                                         *)
(* Drivers of one process, with no other worker, follow one another as     *)
(* "lives"; each has a copy of the journal.  An operation is a step with a *)
(* compensation or a wait, without deadline, for a signal of one name.     *)
(* Retries are left to RunEngine.  RUN_STARTED has been journaled.         *)
(***************************************************************************)
EXTENDS Integers, Sequences, FiniteSets, SequencesExt

CONSTANTS
  Type,        \* the operations: "step" or "wait"
  Fallible,    \* steps that may fail
  CanCancel,   \* clients may ask for cancellation
  NSignals,    \* signals that are sent
  MaxLives,    \* bound: drivers
  MaxStops     \* bound: drivers that are stopped, crashes

Ops     == DOMAIN Type
Lives   == 1..MaxLives
Signals == 1..NSignals

ASSUME GatherAssumption ==
  /\ Type \in Seq({"step", "wait"})
  /\ Fallible \subseteq {o \in Ops : Type[o] = "step"}
  /\ CanCancel \in BOOLEAN
  /\ NSignals \in Nat /\ MaxLives \in Nat /\ MaxStops \in Nat

VARIABLES
  \* --- the store ---
  status, cancelReq,
  journal,   \* events: what happened to which operation, in which life
  sent,      \* signals 1..sent are in the inbox
  consumed,  \* those marked consumed
  \* --- the driver of the last life ---
  life,      \* its number; 0 before the first
  pc,        \* "gather", "finish" (body over), "mark" (journal closed), "over"
  flag,      \* _cancel_flags
  why,       \* how the first operation that did not return ended
  how,       \* how the run ends
  stack,     \* _comp_stack; once the body is over, what is left of it
  \* --- the tasks of every life ---
  mine,      \* Journal._events
  at,        \* where an operation's task is
  sig,       \* the signal it has found
  stops

store  == <<status, cancelReq, sent, consumed>>
driver == <<life, pc, flag, how>>
vars   == <<store, journal, driver, why, stack, mine, at, sig, stops>>

Driving == pc \in {"gather", "finish", "mark"}

\* Places of a task.  "ready": created, not begun; "wrote": its outcome is in
\* the store, the append has not returned; "take", "mark": the signal it has
\* found is to be journaled and marked; "gone": cancelled with its driver.
Places == {"none", "ready", "schedule", "run", "wrote", "scan", "seen",
           "take", "mark", "ok", "error", "cut", "gone"}
Ended  == {"none", "ok", "error", "cut", "gone"}

Raised == {"error", "cut"}

Kinds    == {"scheduled", "completed", "failed", "consumed", "undone", "closed"}
Statuses == {"COMPLETED", "FAILED", "CANCELLED"}

Event(o, kind, l, x) == [op |-> o, kind |-> kind, life |-> l, with |-> x]
Has(s, o, kind) == \E n \in 1..Len(s) : s[n].op = o /\ s[n].kind = kind
Taken(s)        == {s[n].with : n \in {m \in 1..Len(s) : s[m].kind = "consumed"}}

-----------------------------------------------------------------------------
(* Journal.append: the copy gives the number, the lock keeps the tasks of   *)
(* one life apart, the primary key those of different lives.               *)

Unlocked(l) == \A o \in Ops : at[l][o] # "wrote"

\* Mutant: a number that is taken is no obstacle.
NeverRefused(l) == FALSE

Refused(l) == Len(mine[l]) # Len(journal)

Appended(l, e) == /\ Unlocked(l) /\ ~Refused(l)
                  /\ journal' = Append(journal, e)
                  /\ mine' = [mine EXCEPT ![l] = Append(@, e)]

\* The task goes on at p; the first that raises is what gather raises.
Go(l, o, p) ==
  /\ at' = [at EXCEPT ![l][o] = p]
  /\ why' = IF p \in Raised /\ l = life /\ pc = "gather" /\ why = "none" THEN p ELSE why

\* The operation journals an event and goes on, or raises what the store does.
AppendThen(l, o, kind, x, p) ==
  \/ Appended(l, Event(o, kind, l, x)) /\ Go(l, o, p)
  \/ Unlocked(l) /\ Refused(l) /\ Go(l, o, "error") /\ UNCHANGED <<journal, mine>>

Register(l, o) ==
  stack' = IF l = life /\ pc = "gather" THEN Append(stack, o) ELSE stack

-----------------------------------------------------------------------------
(* The tasks.  flag is looked at when the process has one for the run.     *)

Outcome(s, o) == \E kind \in {"completed", "failed", "consumed"} : Has(s, o, kind)

\* The first slice of an operation with an outcome: it answers at once.
Replay(l, o) ==
  /\ at[l][o] = "ready" /\ Outcome(mine[l], o)
  /\ Go(l, o, IF Has(mine[l], o, "failed") THEN "error" ELSE "ok")
  /\ IF Has(mine[l], o, "completed") THEN Register(l, o) ELSE UNCHANGED stack
  /\ UNCHANGED <<store, journal, driver, mine, sig, stops>>

\* That of any other: a cancelled run begins nothing, a wait looks first.
Begin(l, o) ==
  /\ at[l][o] = "ready" /\ ~Outcome(mine[l], o)
  /\ LET known == Has(mine[l], o, "scheduled") IN
       Go(l, o, IF known /\ Type[o] = "wait" THEN "scan"
                ELSE IF flag THEN "cut"
                ELSE IF known THEN "run" ELSE "schedule")
  /\ UNCHANGED <<store, journal, driver, stack, mine, sig, stops>>

\* STEP_SCHEDULED or WAIT_CREATED; an attempt looks for a cancellation.
Schedule(l, o) ==
  /\ at[l][o] = "schedule"
  /\ AppendThen(l, o, "scheduled", 0,
                IF Type[o] = "wait" THEN "scan" ELSE IF flag THEN "cut" ELSE "run")
  /\ UNCHANGED <<store, driver, stack, sig, stops>>

\* The step's function has returned: STEP_COMPLETED is in the store, ...
StepReturns(l, o) ==
  /\ at[l][o] = "run" /\ Unlocked(l)
  /\ IF Refused(l) THEN Go(l, o, "error") /\ UNCHANGED journal
     ELSE journal' = Append(journal, Event(o, "completed", l, 0)) /\ Go(l, o, "wrote")
  /\ UNCHANGED <<store, driver, stack, mine, sig, stops>>

\* ... and when the append is back, its compensation is registered.
StepIsDone(l, o) ==
  /\ at[l][o] = "wrote" /\ Go(l, o, "ok") /\ Register(l, o)
  /\ mine' = [mine EXCEPT ![l] = Append(@, journal[Len(@) + 1])]
  /\ UNCHANGED <<store, journal, driver, sig, stops>>

StepFails(l, o) ==
  /\ at[l][o] = "run" /\ o \in Fallible
  /\ AppendThen(l, o, "failed", 0, "error")
  /\ UNCHANGED <<store, driver, stack, sig, stops>>

\* _inflight_signal_seqs
InFlight(l) == {sig[l][o] : o \in {p \in Ops : at[l][p] \in {"take", "mark"}}}

\* Mutant: what the journal says was consumed is not excluded.
ExcludedInFlight(l) == InFlight(l)

Excluded(l) == Taken(mine[l]) \cup InFlight(l)

\* _next_unconsumed_signal reads the inbox; 0 is None.
Unread(l) == {s \in 1..sent : s \notin consumed /\ s \notin Excluded(l)}
First(l)  == IF Unread(l) = {} THEN 0
             ELSE CHOOSE s \in Unread(l) : \A t \in Unread(l) : s <= t

\* At first, and when it is woken or its poll is due.
Scan(l, o) ==
  /\ at[l][o] = "scan" /\ Go(l, o, "seen")
  /\ sig' = [sig EXCEPT ![l][o] = First(l)]
  /\ UNCHANGED <<store, journal, driver, stack, mine, stops>>

\* The answer is back: another task may have scanned meanwhile.
Scanned(l, o) ==
  /\ at[l][o] = "seen"
  /\ Go(l, o, IF sig[l][o] # 0 THEN "take" ELSE IF flag THEN "cut" ELSE "scan")
  /\ UNCHANGED <<store, journal, driver, stack, mine, sig, stops>>

Consume(l, o) ==
  /\ at[l][o] = "take" /\ AppendThen(l, o, "consumed", sig[l][o], "mark")
  /\ UNCHANGED <<store, driver, stack, sig, stops>>

MarkConsumed(l, o) ==
  /\ at[l][o] = "mark" /\ consumed' = consumed \cup {sig[l][o]} /\ Go(l, o, "ok")
  /\ sig' = [sig EXCEPT ![l][o] = 0]
  /\ UNCHANGED <<status, cancelReq, sent, journal, driver, stack, mine, stops>>

Task(l, o) ==
  \/ Replay(l, o) \/ Begin(l, o) \/ Schedule(l, o)
  \/ StepReturns(l, o) \/ StepIsDone(l, o) \/ StepFails(l, o)
  \/ Scan(l, o) \/ Scanned(l, o) \/ Consume(l, o) \/ MarkConsumed(l, o)

-----------------------------------------------------------------------------
(* The driver.                                                             *)

Tasks(l, place) == {o \in Ops : at[l][o] = place}

AllReturned == \A o \in Ops : at[life][o] = "ok"

\* gather returns, ...
BodyReturns ==
  /\ pc = "gather" /\ AllReturned /\ pc' = "finish"
  /\ how' = "COMPLETED" /\ stack' = <<>>
  /\ UNCHANGED <<store, journal, life, flag, why, mine, at, sig, stops>>

\* Mutant: the body is told before the other tasks have begun.
ToldAtOnce == why # "none"

\* A future tells its task through two callbacks of the loop: tasks that were
\* created together have all begun by then.
Told == why # "none" /\ Tasks(life, "ready") = {}

\* ... or raises; _run_compensations takes the stack as it is.
BodyRaises ==
  /\ pc = "gather" /\ Told /\ pc' = "finish"
  /\ how' = IF why = "cut" THEN "CANCELLED" ELSE "FAILED"
  /\ UNCHANGED <<store, journal, life, flag, why, stack, mine, at, sig, stops>>

\* The driver task ends.
Over == pc' = "over" /\ flag' = FALSE /\ how' = "none" /\ why' = "none" /\ stack' = <<>> /\ UNCHANGED life

Top == Last(stack)

SkipUndone ==
  /\ pc = "finish" /\ stack # <<>> /\ Has(mine[life], Top, "undone")
  /\ stack' = Front(stack)
  /\ UNCHANGED <<store, journal, driver, why, mine, at, sig, stops>>

Undo ==
  /\ pc = "finish" /\ stack # <<>> /\ ~Has(mine[life], Top, "undone")
  /\ \/ /\ Appended(life, Event(Top, "undone", life, 0))
        /\ stack' = Front(stack) /\ UNCHANGED <<driver, why>>
     \/ Unlocked(life) /\ Refused(life) /\ Over /\ UNCHANGED <<journal, mine>>
  /\ UNCHANGED <<store, at, sig, stops>>

Closed(s, as) == \E n \in 1..Len(s) : s[n].kind = "closed" /\ s[n].with = as

\* append_once of RUN_COMPLETED, RUN_FAILED or RUN_CANCELLED, ...
Close ==
  /\ pc = "finish" /\ stack = <<>>
  /\ \/ /\ \/ Closed(mine[life], how) /\ UNCHANGED <<journal, mine>>
           \/ ~Closed(mine[life], how) /\ Appended(life, Event(0, "closed", life, how))
        /\ pc' = "mark" /\ UNCHANGED <<life, flag, how, why, stack>>
     \/ /\ ~Closed(mine[life], how) /\ Unlocked(life) /\ Refused(life)
        /\ Over /\ UNCHANGED <<journal, mine>>
  /\ UNCHANGED <<store, at, sig, stops>>

\* ... and the status.
Mark ==
  /\ pc = "mark" /\ status' = how /\ Over
  /\ UNCHANGED <<cancelReq, journal, sent, consumed, mine, at, sig, stops>>

Drive == BodyReturns \/ BodyRaises \/ SkipUndone \/ Undo \/ Close \/ Mark

\* _ensure: the body is evaluated again and creates its tasks.
Ensure ==
  /\ status = "RUNNING" /\ ~Driving /\ life < MaxLives
  /\ life' = life + 1 /\ pc' = "gather" /\ flag' = cancelReq
  /\ mine' = [mine EXCEPT ![life + 1] = journal]
  /\ at' = [at EXCEPT ![life + 1] = [o \in Ops |-> "ready"]]
  /\ UNCHANGED <<store, journal, how, why, stack, sig, stops>>

\* A driver that waits for gather takes its tasks with it.
Cut(l) == [o \in Ops |-> IF at[l][o] \in Ended THEN at[l][o] ELSE "gone"]

\* _stop_local_driver (for a reset, which here is refused, so that the run is
\* driven again), or a store error while the body unwinds.  A body that has
\* been told, but does not run yet, leaves its tasks behind as well.
Stop ==
  /\ Driving /\ stops < MaxStops /\ stops' = stops + 1 /\ Over
  /\ \/ pc = "gather" /\ at' = [at EXCEPT ![life] = Cut(life)]
     \/ (pc # "gather" \/ Told) /\ UNCHANGED at
  /\ UNCHANGED <<store, journal, mine, sig>>

\* The process dies, and all that has been left running in it.
Crash ==
  /\ Driving /\ stops < MaxStops /\ stops' = stops + 1 /\ Over
  /\ mine' = [l \in Lives |-> <<>>] /\ at' = [l \in Lives |-> [o \in Ops |-> "none"]]
  /\ sig' = [l \in Lives |-> [o \in Ops |-> 0]]
  /\ UNCHANGED <<store, journal>>

Signal ==
  /\ status = "RUNNING" /\ sent < NSignals /\ sent' = sent + 1
  /\ UNCHANGED <<status, cancelReq, consumed, journal, driver, why, stack, mine, at, sig, stops>>

Cancel ==
  /\ CanCancel /\ status = "RUNNING" /\ ~cancelReq
  /\ cancelReq' = TRUE /\ flag' = Driving
  /\ UNCHANGED <<status, sent, consumed, journal, life, pc, how, why, stack, mine, at, sig, stops>>

Init ==
  /\ status = "RUNNING" /\ cancelReq = FALSE /\ journal = <<>> /\ sent = 0 /\ consumed = {}
  /\ life = 0 /\ pc = "over" /\ flag = FALSE /\ why = "none" /\ how = "none" /\ stack = <<>>
  /\ mine = [l \in Lives |-> <<>>] /\ at = [l \in Lives |-> [o \in Ops |-> "none"]]
  /\ sig = [l \in Lives |-> [o \in Ops |-> 0]] /\ stops = 0

Next == \/ \E l \in Lives, o \in Ops : Task(l, o)
        \/ Drive \/ Ensure \/ Stop \/ Crash \/ Signal \/ Cancel

Spec == Init /\ [][Next]_vars

-----------------------------------------------------------------------------

Outcomes == {n \in 1..Len(journal) : journal[n].kind \in {"completed", "failed", "consumed"}}

Succeeded(s, o) == Has(s, o, "completed") \/ Has(s, o, "consumed")

\* An operation has one outcome, although tasks that a driver has left behind
\* run on beside those of the next and do the same work; and in a run that
\* completes every operation has one.
OneOutcome ==
  /\ \A m, n \in Outcomes : journal[m].op = journal[n].op => m = n
  /\ status = "COMPLETED" => \A o \in Ops : Succeeded(journal, o)

Unsuccessful(e) == e.kind = "closed" /\ e.with # "COMPLETED"

\* The operations whose compensation is due when event n is journaled.
Owed(n, m) == m < n /\ journal[m].kind = "completed"

UndoneBefore(n, o) == \E k \in 1..(n - 1) : journal[k].op = o /\ journal[k].kind = "undone"

\* However the tasks of a driver interleave, it undoes everything that earlier
\* drivers had completed before it closes a failed or cancelled run: replayed
\* steps have registered their compensations before the body is told of an
\* error.
ReplayedIsUndone ==
  \A n \in 1..Len(journal) : Unsuccessful(journal[n]) =>
    \A m \in 1..Len(journal) :
      Owed(n, m) /\ journal[m].life < journal[n].life => UndoneBefore(n, journal[m].op)

\* A signal that was consumed before a crash, marked or not, and by a task that
\* was left behind, is not consumed again by a later driver.  (Two waits of
\* one driver that scan at the same time do consume the same signal.)
NotConsumedAgain ==
  \A m, n \in Outcomes :
    /\ journal[m].kind = "consumed" /\ journal[n].kind = "consumed"
    /\ journal[m].with = journal[n].with
    => journal[m].life = journal[n].life

=============================================================================
