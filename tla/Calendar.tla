------------------------------ MODULE Calendar ------------------------------
(***************************************************************************)
(* Cron expressions (CronExpr of sicim/schedule.py): the fields they are   *)
(* written with, the days they match, and the search for the first firing  *)
(* time after a given one, which goes through local wall-clock time and    *)
(* has to live with a zone where an hour is skipped or repeated.           *)
(*                                                                         *)
(* Time is counted in steps of a clock whose hours have few minutes and    *)
(* whose days have few hours; a wall-clock time is [day, hour, minute].    *)
(* There is no seconds field, and months are left out.                     *)
(***************************************************************************)
EXTENDS Integers, Sequences, FiniteSets, FiniteSetsExt

CONSTANTS
  Minutes, Hours,  \* minutes of an hour, hours of a day
  Days,            \* days that are looked at (for _SEARCH_DAYS)
  MonthDay(_),     \* the day of the month of a day, and ...
  WeekDay(_),      \* ... its day of the week, 0 being Sunday
  Gap, Fold,       \* the hours, counted from the first day, that the zone's
                   \* clock skips and shows twice; Gap is the earlier one
  Never            \* None

ASSUME CalendarAssumption ==
  /\ Minutes \in Nat \ {0} /\ Hours \in Nat \ {0} /\ Days \in Nat \ {0}
  /\ Gap \in Nat /\ Fold \in Nat /\ Gap < Fold /\ Fold < Days * Hours

-----------------------------------------------------------------------------
(* Fields.  A part of a field is "*", "a", "a-b", each with or without a   *)
(* step: [from, to, step], where from = Star, to = Same or step = NoStep   *)
(* stand for what is not written.                                          *)

Star   == -1
Same   == -2
NoStep == 0

Part(from, to, step) == [from |-> from, to |-> to, step |-> step]

\* range(start, end + 1, step)
PartValues(p, low, high) ==
  LET start == IF p.from = Star THEN low ELSE p.from
      end   == IF p.from = Star THEN high
               ELSE IF p.to # Same THEN p.to
               ELSE IF p.step # NoStep THEN high ELSE start
      step  == IF p.step = NoStep THEN 1 ELSE p.step
  IN {n \in start..end : (n - start) % step = 0}

\* _parse_field, for a field that it does not refuse: the values of all
\* parts, and whether the field starts with a star.
FieldValues(parts, low, high) == UNION {PartValues(parts[n], low, high) : n \in 1..Len(parts)}
Unrestricted(parts) == parts[1].from = Star

\* CronExpr.parse; 7 is Sunday too.
Parsed(minute, hour, day, weekday, lastday) ==
  [minutes |-> FieldValues(minute, 0, Minutes - 1), hours |-> FieldValues(hour, 0, Hours - 1),
   days |-> FieldValues(day, 1, lastday), weekdays |-> {d % 7 : d \in FieldValues(weekday, 0, 7)},
   anyDay |-> Unrestricted(day), anyWeekday |-> Unrestricted(weekday)]

-----------------------------------------------------------------------------

\* CronExpr._day_matches: it asks a field with a star for nothing.
DayMatches(e, day) ==
  IF e.anyDay \/ e.anyWeekday
  THEN (e.anyDay \/ MonthDay(day) \in e.days) /\ (e.anyWeekday \/ WeekDay(day) \in e.weekdays)
  ELSE MonthDay(day) \in e.days \/ WeekDay(day) \in e.weekdays

\* The zone.  The clock runs through hour after hour, leaves one out and goes
\* through another one twice.
HourOf(ts) ==
  LET h == ts \div Minutes IN
  IF h < Gap THEN h ELSE IF h < Fold THEN h + 1 ELSE h

\* fromtimestamp: the wall-clock time, counted in minutes ...
Wall(ts) == HourOf(ts) * Minutes + (ts % Minutes)

\* ... and timestamp, of the earlier of two, or, in the gap, as if the clock
\* had not been changed yet.
Stamp(wall) ==
  LET h == wall \div Minutes IN IF Gap < h /\ h <= Fold THEN wall - Minutes ELSE wall

DayOf(wall)    == (wall \div Minutes) \div Hours
HourIn(wall)   == (wall \div Minutes) % Hours
MinuteIn(wall) == wall % Minutes
Walls          == 0..(Days * Hours * Minutes - 1)

Matches(e, wall) == DayMatches(e, DayOf(wall)) /\ HourIn(wall) \in e.hours
                    /\ MinuteIn(wall) \in e.minutes

\* Mutant: a candidate is not compared with the time it shall be after.
AnyCandidate(e, ts) == {w \in Walls : w > Wall(ts) /\ Matches(e, w)}

\* The matching wall-clock times from the next one on whose instant is later:
\* a wall-clock time can be past although the clock has yet to show it again.
Candidates(e, ts) == {w \in Walls : w > Wall(ts) /\ Matches(e, w) /\ Stamp(w) > ts}

\* CronExpr.next_after: day by day, hour by hour, minute by minute, the first.
CronAfter(e, ts) == IF Candidates(e, ts) = {} THEN Never ELSE Stamp(Min(Candidates(e, ts)))

-----------------------------------------------------------------------------

InGap(wall) == wall \div Minutes = Gap

\* The days an expression fires on, by the values that its fields are written
\* with: a field with a star goes with the other field, whatever its step, and
\* one day is enough only when both fields name theirs.
FiresOn(e, day) ==
  LET byMonthDay == MonthDay(day) \in e.days
      byWeekday  == WeekDay(day) \in e.weekdays
  IN  IF e.anyDay \/ e.anyWeekday THEN byMonthDay /\ byWeekday ELSE byMonthDay \/ byWeekday

Written(e, wall) == FiresOn(e, DayOf(wall)) /\ HourIn(wall) \in e.hours /\ MinuteIn(wall) \in e.minutes

\* A day field that starts with a star leaves no day out: it has no step.  (A
\* step after the star, as in "*/2", is parsed and then not looked at.)
Plain(e) ==
  \A wall \in Walls : /\ e.anyDay => MonthDay(DayOf(wall)) \in e.days
                      /\ e.anyWeekday => WeekDay(DayOf(wall)) \in e.weekdays

\* When an expression fires that is never late: whenever the zone's clock
\* first shows a time it is written for, and an hour later for a time that the
\* clock skips.
Firings(e) ==
  {ts \in Walls : Written(e, Wall(ts)) /\ Stamp(Wall(ts)) = ts}
    \cup {Stamp(w) : w \in {v \in Walls : InGap(v) /\ Written(e, v)}}

\* The search finds the next firing, at every change of the clock: none is
\* missed, none comes twice.  Only in the hour after the gap are the times
\* that were skipped not made up for any more.
FindsNext(e, ts) ==
  LET later == {i \in Firings(e) : i > ts}
      after == {i \in later : Written(e, Wall(i))}
      wanted == IF ts \div Minutes = Gap THEN after ELSE later
  IN  CronAfter(e, ts) = IF wanted = {} THEN Never ELSE Min(wanted)

=============================================================================
