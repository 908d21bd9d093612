---------------------------- MODULE MCScheduler ----------------------------
(* Instances of Timetable for TLC: an interval, a single firing, and cron  *)
(* expressions in a zone whose clock is changed twice. *)
EXTENDS Timetable

\* A week, the last two of a month and the first of the next.
MCMonthDay(day) == IF day < 2 THEN 27 + day ELSE day - 1
MCWeekDay(day)  == (day + 5) % 7

Every    == <<Part(Star, Same, NoStep)>>
EveryTwo == <<Part(Star, Same, 2)>>

\* Every other minute of the second and third hour, on every day.
Night == Parsed(EveryTwo, <<Part(1, 2, NoStep)>>, Every, Every, 28)

\* Expressions with stars, numbers, lists, ranges and steps in every field.
MCExpressions ==
  {Parsed(m, h, d, w, 28) :
     m \in {Every, <<Part(1, Same, NoStep)>>},
     h \in {Every, <<Part(0, Same, NoStep)>>, <<Part(1, Same, 2)>>,
            <<Part(1, Same, NoStep), Part(2, 3, NoStep)>>},
     d \in {Every, <<Part(2, 28, 2)>>, <<Part(1, Same, NoStep), Part(28, Same, NoStep)>>},
     w \in {Every, <<Part(7, Same, NoStep)>>, <<Part(0, 5, 2)>>}}

=============================================================================
