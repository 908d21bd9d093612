----------------------------- MODULE Timetable -----------------------------
(***************************************************************************)
(* A schedule of sicim with the timetable it is written with: an interval, *)
(* a single firing or a cron expression (Every, Once and Cron of           *)
(* sicim/schedule.py).  The module puts Scheduler, which fires a schedule  *)
(* whatever its timetable, together with Calendar, which searches for the  *)
(* firings of a cron expression.                                           *)
(***************************************************************************)
EXTENDS Scheduler, Calendar

CONSTANTS
  Kind,        \* what the schedule is: "every", "at" or "cron"
  Seconds,     \* of an interval
  At,          \* the time of a single firing
  Expression,  \* the parsed cron expression
  Expressions  \* those whose search is looked at

-----------------------------------------------------------------------------

\* Every: one interval after a given time.
EveryNext(seconds, ts)  == ts + seconds
EveryFirst(seconds, time) == time + seconds

\* Once: at one time, at once if that is past.
OnceNext(at, ts) == IF at > ts THEN at ELSE NoTick
OnceFirst(at, time) == at

\* Spec.next_after and Spec.first_fire_at.
SpecNext(ts) ==
  CASE Kind = "every" -> EveryNext(Seconds, ts)
    [] Kind = "at"    -> OnceNext(At, ts)
    [] Kind = "cron"  -> CronAfter(Expression, ts)

SpecFirst(time) ==
  CASE Kind = "every" -> EveryFirst(Seconds, time)
    [] Kind = "at"    -> OnceFirst(At, time)
    [] Kind = "cron"  -> CronAfter(Expression, time)

\* build_spec makes one of the three, an interval is positive, and the times
\* of the model are among those at which the search is looked at.
ASSUME TimetableAssumption ==
  /\ Kind \in {"every", "at", "cron"}
  /\ Seconds \in Nat \ {0} /\ At \in Nat
  /\ Never = NoTick
  /\ Times \subseteq Walls

\* The schedule follows its timetable.
ASSUME TimetableFollowed ==
  \A t \in Times : NextAfter(t) = SpecNext(t) /\ FirstFireAt(t) = SpecFirst(t)

-----------------------------------------------------------------------------

SearchIsRight == \A e \in {x \in Expressions : Plain(x)}, ts \in Walls : FindsNext(e, ts)

\* Whatever the expression and the time, across the skipped and the repeated
\* hour, next_after is the next time that the expression is written for, and
\* the fire time of a cron schedule is one of these; except for an expression
\* with a step after the star of a day field.
CronFindsNext ==
  /\ SearchIsRight
  /\ Kind = "cron" /\ Plain(Expression) /\ next # NoTick => next \in Firings(Expression)

\* "A single firing at a fixed time" (schedule.py:223): the run of an at
\* schedule is started and the schedule is spent, whatever its loops fail at.
OneShotFires == SpentAfterItsTick(At)

=============================================================================
