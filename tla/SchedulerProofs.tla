-------------------------- MODULE SchedulerProofs --------------------------
(***************************************************************************)
(* What Scheduler guarantees for every number of workers, every timetable  *)
(* and every bound: proofs of its type invariant, of the two action        *)
(* properties of the compare-and-set and, for one loop that is left alone, *)
(* of the absence of overlapping runs.                                     *)
(***************************************************************************)
EXTENDS Timetable, WellFoundedInduction, TLAPS

USE ScheduleAssumption DEF ScheduleAssumption, Times

\* What a worker about to advance the schedule knows: it has seen to it that
\* the run exists, or that there was a previous run to wait for.
Prepared ==
  \A w \in Workers :
    /\ pc[w] = "advance" => tick[w] \in started
    /\ pc[w] = "skip" => SkipOverlap /\ previous[w] \in started

Inv == TypeOK /\ Prepared

\* The next fire time is later than the tick being fired.
LEMMA NextTickIsLater ==
  ASSUME TypeOK, NEW w \in Workers
  PROVE  NextTick(w) \in Nat \cup {NoTick} /\ (NextTick(w) = NoTick \/ NextTick(w) > tick[w])
<1>1. tick[w] \in Times /\ seen[w] \in Times
  BY DEF TypeOK
<1>2. Later(tick[w], seen[w]) \in Times /\ Later(tick[w], seen[w]) >= tick[w]
  BY <1>1 DEF Later
<1>3. \/ NextTick(w) = NoTick
      \/ NextTick(w) \in Nat /\ NextTick(w) > Later(tick[w], seen[w])
  BY <1>2 DEF NextTick
<1> QED BY <1>1, <1>2, <1>3

\* Only a worker's own step moves its place, and it moves to a known place.
LEMMA WorkerStep ==
  ASSUME Inv, NEW w \in Workers, Fires(w) \/ Fail(w)
  PROVE  Inv'
<1> USE DEF Inv, record, runs, workers, bounds
<1>1. CASE List(w)
  BY <1>1 DEF List, TypeOK, Prepared, Places
<1>2. CASE Check(w)
  <2>1. PreviousIsLive(w) => previous[w] \in started
    BY DEF PreviousIsLive, TypeOK
  <2>2. TypeOK'
    BY <1>2 DEF Check, TypeOK, Places
  <2>3. Prepared'
    BY <1>2, <2>1 DEF Check, TypeOK, Prepared
  <2> QED BY <2>2, <2>3
<1>3. CASE Skip(w)
  <2>1. next' \in Nat \cup {NoTick}
    BY <1>3, NextTickIsLater DEF Skip, TypeOK
  <2> QED BY <1>3, <2>1 DEF Skip, Done, TypeOK, Prepared, Places
<1>4. CASE Start(w)
  BY <1>4 DEF Start, TypeOK, Prepared, Places
<1>5. CASE Advance(w)
  <2>1. next' \in Nat \cup {NoTick} /\ last' \in Times \cup {NoTick}
    BY <1>5, NextTickIsLater DEF Advance, TypeOK
  <2> QED BY <1>5, <2>1 DEF Advance, Done, TypeOK, Prepared, Places
<1>6. CASE Fail(w)
  BY <1>6 DEF Fail, Done, TypeOK, Prepared, Places
<1> QED BY <1>1, <1>2, <1>3, <1>4, <1>5, <1>6 DEF Fires

\* Clients, runs that end, the clock and stuttering keep the invariant.
LEMMA OtherStep ==
  ASSUME Inv, \/ Schedule \/ Pause \/ Resume \/ ResumeWrites \/ Unschedule
              \/ \E t \in live : RunEnds(t)
              \/ TimePasses \/ UNCHANGED vars
  PROVE  Inv'
<1> USE DEF Inv, record, runs, workers, bounds
<1>1. CASE Schedule
  <2>1. exists' \in BOOLEAN /\ paused' \in BOOLEAN
    BY <1>1 DEF Schedule
  <2>2. next' \in Nat \cup {NoTick} /\ last' \in Times \cup {NoTick}
    BY <1>1 DEF Schedule, TypeOK
  <2>3. clientCalls' \in Nat /\ UNCHANGED <<runs, workers, resuming, now, failures>>
    BY <1>1 DEF Schedule, ClientCall, TypeOK
  <2> QED BY <2>1, <2>2, <2>3 DEF TypeOK, Prepared
<1>2. CASE Pause
  BY <1>2 DEF Pause, ClientCall, TypeOK, Prepared
<1>3. CASE Resume
  BY <1>3 DEF Resume, ClientCall, TypeOK, Prepared
<1>4. CASE ResumeWrites
  BY <1>4 DEF ResumeWrites, TypeOK, Prepared
<1>5. CASE Unschedule
  <2>1. exists' \in BOOLEAN
    BY <1>5 DEF Unschedule
  <2>2. clientCalls' \in Nat /\ UNCHANGED <<paused, next, last, runs, workers, resuming, now, failures>>
    BY <1>5 DEF Unschedule, ClientCall, TypeOK
  <2> QED BY <2>1, <2>2 DEF TypeOK, Prepared
<1>6. CASE \E t \in live : RunEnds(t)
  BY <1>6 DEF RunEnds, TypeOK, Prepared
<1>7. CASE TimePasses
  BY <1>7 DEF TimePasses, TypeOK, Prepared
<1>8. CASE UNCHANGED vars
  BY <1>8 DEF vars, TypeOK, Prepared
<1> QED BY <1>1, <1>2, <1>3, <1>4, <1>5, <1>6, <1>7, <1>8

\* The types, and what a worker holds: the invariant is inductive.
THEOREM SchedulerInvariant == Spec => []Inv
<1>1. Init => Inv
  <2> SUFFICES ASSUME Init PROVE Inv
    OBVIOUS
  <2>1. exists \in BOOLEAN /\ paused \in BOOLEAN
    BY DEF Init
  <2>2. next \in Nat \cup {NoTick} /\ now \in Times
    BY DEF Init
  <2>3. TypeOK
    BY <2>1, <2>2 DEF Init, TypeOK, Places
  <2>4. Prepared
    BY DEF Init, Prepared
  <2> QED BY <2>3, <2>4 DEF Inv
<1>2. Inv /\ [Next]_vars => Inv'
  BY WorkerStep, OtherStep DEF Next
<1> QED BY <1>1, <1>2, PTL DEF Spec

\* Every variable stays in its domain, and no worker ever holds a tick that
\* was not due when it listed it.
THEOREM SchedulerTypes == Spec => []TypeOK
BY SchedulerInvariant, PTL DEF Inv

\* No tick is lost, however workers crash and interleave and whatever clients
\* do to the schedule.
THEOREM NoTickIsLost == Spec => TickNotLost
<1>1. ASSUME Inv, NEW w \in Workers, Advance(w) \/ Skip(w)
      PROVE  \/ next' = next
             \/ next \in started
             \/ SkipOverlap /\ previous[w] \in started
  <2>1. CASE Advance(w)
    BY <1>1, <2>1 DEF Advance, Unmoved, Inv, Prepared
  <2>2. CASE Skip(w)
    BY <1>1, <2>2 DEF Skip, Inv, Prepared
  <2> QED BY <1>1, <2>1, <2>2
<1>2. Inv => [\A w \in Workers :
                Advance(w) \/ Skip(w) =>
                  \/ next' = next
                  \/ next \in started
                  \/ SkipOverlap /\ previous[w] \in started]_vars
  BY <1>1
<1> QED BY <1>2, SchedulerInvariant, PTL DEF TickNotLost

\* The fire time never goes back by a worker's doing: a stale copy loses the
\* compare-and-set.
THEOREM FireTimeMovesForward == Spec => NextMovesForward
<1>1. ASSUME Inv, Next, exists, exists', next # NoTick, ~ResumeWrites
      PROVE  next' = NoTick \/ next' >= next
  <2>1. CASE \E w \in Workers : Advance(w) \/ Skip(w)
    <3>1. PICK w \in Workers : Advance(w) \/ Skip(w)
      BY <2>1
    <3>2. next' = next \/ (next = tick[w] /\ next' = NextTick(w))
      BY <3>1 DEF Advance, Skip, Unmoved
    <3>3. next \in Nat /\ tick[w] \in Nat
      BY <1>1 DEF Inv, TypeOK
    <3> QED BY <3>2, <3>3, <1>1, NextTickIsLater DEF Inv
  <2>2. CASE ~ \E w \in Workers : Advance(w) \/ Skip(w)
    <3>1. next' = next
      BY <1>1, <2>2 DEF Next, Fires, List, Check, Start, Fail, Schedule, Pause, Resume,
           Unschedule, RunEnds, TimePasses, record
    <3>2. next \in Nat
      BY <1>1 DEF Inv, TypeOK
    <3> QED BY <3>1, <3>2
  <2> QED BY <2>1, <2>2
<1>2. Inv /\ [Next]_vars => [exists /\ exists' /\ next # NoTick /\ ~ResumeWrites =>
                              next' = NoTick \/ next' >= next]_vars
  BY <1>1
<1> QED BY <1>2, SchedulerInvariant, PTL DEF NextMovesForward, Spec

-----------------------------------------------------------------------------
(***************************************************************************)
(* No overlap.  One loop alone, with no client meddling, reads a record    *)
(* that nobody else moves.                                                 *)
(***************************************************************************)

\* What is live is the run the schedule remembers or, while the loop has
\* started a tick but not advanced, the run of that tick; and never both.
Alone ==
  /\ exists /\ resuming = {}
  /\ \A s, t \in live : s = t
  /\ live \subseteq {last, next}
  /\ \A w \in Workers :
       /\ pc[w] # "idle" => previous[w] = last /\ tick[w] = next
       /\ pc[w] = "start" => last \notin live
       /\ pc[w] = "skip" => live \subseteq {last}
       /\ pc[w] = "advance" => live \subseteq {tick[w]}

\* The loop's own steps keep it: Check starts a tick only when the remembered
\* run is not live, and Advance remembers the run before the next Check.
LEMMA LoopStaysAlone ==
  ASSUME \A v, w \in Workers : v = w, SkipOverlap, TypeOK, Alone,
         NEW w \in Workers, Fires(w) \/ Fail(w)
  PROVE  Alone'
<1> USE DEF Alone, record, runs, workers, bounds
<1>0. /\ \A v \in Workers : v = w
      /\ pc \in [Workers -> Places] /\ tick \in [Workers -> Times]
      /\ previous \in [Workers -> Times \cup {NoTick}] /\ live \subseteq started
  BY DEF TypeOK
<1>1. CASE List(w)
  BY <1>0, <1>1 DEF List
<1>2. CASE Check(w)
  <2>1. PreviousIsLive(w) => live \subseteq {last}
    BY <1>2 DEF Check, PreviousIsLive
  <2>2. UNCHANGED <<exists, next, last, live, tick, previous, resuming>>
    BY <1>2 DEF Check
  <2>3. /\ pc'[w] = "skip" => PreviousIsLive(w)
        /\ pc'[w] = "start" => ~PreviousIsLive(w)
        /\ pc'[w] # "advance"
    BY <1>0, <1>2 DEF Check
  <2>4. previous[w] = last /\ tick[w] = next
    BY <1>2 DEF Check
  <2> QED BY <1>0, <2>1, <2>2, <2>3, <2>4 DEF PreviousIsLive
<1>3. CASE Skip(w)
  BY <1>0, <1>3 DEF Skip, Done
<1>4. CASE Start(w)
  <2>1. live \subseteq {tick[w]}
    BY <1>4 DEF Start
  <2>2. live' \subseteq {tick[w]}
    BY <1>4, <2>1 DEF Start
  <2>3. pc' = [pc EXCEPT ![w] = "advance"]
        /\ UNCHANGED <<exists, next, last, tick, previous, resuming>>
    BY <1>4 DEF Start
  <2>4. previous[w] = last /\ tick[w] = next
    BY <1>4 DEF Start
  <2> QED BY <1>0, <2>2, <2>3, <2>4
<1>5. CASE Advance(w)
  <2>1. last' = tick[w]
    BY <1>5 DEF Advance, Unmoved
  <2> QED BY <1>0, <1>5, <2>1 DEF Advance, Done
<1>6. CASE Fail(w)
  BY <1>0, <1>6 DEF Fail, Done
<1> QED BY <1>1, <1>2, <1>3, <1>4, <1>5, <1>6 DEF Fires

\* With overlap="skip" and one loop that nobody interferes with, two runs of
\* the schedule are never live at once, wherever the loop crashes: between
\* Start and Advance too, when the run it started is not yet remembered.
THEOREM OneLoopNeverOverlaps ==
  ASSUME \A v, w \in Workers : v = w, MaxClientCalls = 0
  PROVE  Spec => []SkipPreventsOverlap
<1> DEFINE Safe == TypeOK /\ clientCalls = 0 /\ (SkipOverlap => Alone)
<1>1. Init /\ TypeOK => Safe
  BY DEF Init, Alone
<1>2. Safe /\ TypeOK' /\ [Next]_vars => Safe'
  <2> SUFFICES ASSUME Safe, TypeOK', [Next]_vars
               PROVE  clientCalls' = 0 /\ (SkipOverlap => Alone')
    OBVIOUS
  <2>1. CASE \E w \in Workers : Fires(w) \/ Fail(w)
    <3>1. clientCalls' = 0
      BY <2>1 DEF Fires, List, Check, Skip, Start, Advance, Fail, bounds
    <3> QED BY <2>1, <3>1, LoopStaysAlone
  <2>2. CASE Schedule \/ Pause \/ Resume \/ Unschedule
    BY <2>2 DEF Schedule, Pause, Resume, Unschedule, ClientCall, TypeOK
  <2>3. CASE ResumeWrites
    <3>1. ~SkipOverlap
      BY <2>3 DEF ResumeWrites, Alone
    <3> QED BY <2>3, <3>1 DEF ResumeWrites, bounds
  <2>4. CASE \E t \in live : RunEnds(t)
    BY <2>4 DEF RunEnds, Alone, record, workers, bounds
  <2>5. CASE TimePasses \/ UNCHANGED vars
    BY <2>5 DEF TimePasses, Alone, record, runs, workers, bounds, vars
  <2> QED BY <2>1, <2>2, <2>3, <2>4, <2>5 DEF Next
<1>3. Safe => SkipPreventsOverlap
  BY DEF Alone, SkipPreventsOverlap
<1> QED BY <1>1, <1>2, <1>3, SchedulerTypes, PTL DEF Spec

-----------------------------------------------------------------------------
(***************************************************************************)
(* The search for the next firing of a cron expression.  An instant and a  *)
(* wall-clock time are both an hour and a minute; the zone moves the hour  *)
(* and never the minute.                                                   *)
(***************************************************************************)

HIDE ScheduleAssumption DEF ScheduleAssumption
USE CalendarAssumption DEF CalendarAssumption

\* The hour of a time.
Hour(t)   == t \div Minutes
Minute(t) == t % Minutes

\* A set of numbers that is not empty has a least one.
LEMMA LeastExists ==
  ASSUME NEW S \in SUBSET Nat, S # {}
  PROVE  Min(S) \in S /\ \A y \in S : Min(S) <= y
<1> DEFINE R == OpToRel(<, Nat)
<1>1. IsWellFoundedOn(R, Nat)
  BY NatLessThanWellFounded
<1>2. \A i, j \in Nat : <<i, j>> \in R <=> i < j
  BY DEF OpToRel
<1> HIDE DEF R
<1>3. PICK x \in S : \A y \in S : ~(<<y, x>> \in R)
  BY <1>1, WFMin
<1>4. ASSUME NEW y \in S PROVE x <= y
  <2>1. x \in Nat /\ y \in Nat /\ <<y, x>> \notin R
    BY <1>3
  <2>2. ~(y < x)
    BY <1>2, <2>1
  <2> QED BY <2>1, <2>2
<1> QED BY <1>3, <1>4 DEF Min

\* A time is so many hours and a minute of an hour ...
LEMMA Quotient ==
  ASSUME NEW t \in Nat
  PROVE  /\ Hour(t) \in Nat /\ Minute(t) \in 0..(Minutes - 1)
         /\ t = Hour(t) * Minutes + Minute(t)
BY DEF Hour, Minute

\* ... in one way only.
LEMMA Unique ==
  ASSUME NEW h \in Nat, NEW m \in 0..(Minutes - 1)
  PROVE  Hour(h * Minutes + m) = h /\ Minute(h * Minutes + m) = m
BY Z3 DEF Hour, Minute

\* The hour and the minute say which time it is, and the hour counts first.
LEMMA Clock ==
  ASSUME NEW t \in Nat, NEW u \in Nat
  PROVE  /\ Hour(t) \in Nat /\ Minute(t) \in 0..(Minutes - 1)
         /\ Hour(t) < Hour(u) => t < u
         /\ Hour(t) = Hour(u) => (t < u <=> Minute(t) < Minute(u))
         /\ t = u <=> Hour(t) = Hour(u) /\ Minute(t) = Minute(u)
<1> DEFINE h == Hour(t)
           g == Hour(u)
           d == g - h - 1
<1>1. /\ h \in Nat /\ Minute(t) \in 0..(Minutes - 1) /\ t = h * Minutes + Minute(t)
      /\ g \in Nat /\ Minute(u) \in 0..(Minutes - 1) /\ u = g * Minutes + Minute(u)
  BY Quotient
<1> HIDE DEF h, g
<1>2. ASSUME h < g PROVE t < u
  <2>1. d \in Nat /\ g = h + 1 + d
    BY <1>1, <1>2
  <2> HIDE DEF d
  <2>2. g * Minutes = h * Minutes + Minutes + d * Minutes
    BY <1>1, <2>1, Z3
  <2>3. d * Minutes \in Nat /\ h * Minutes \in Nat /\ g * Minutes \in Nat
    BY <1>1, <2>1
  <2> DEFINE x == d * Minutes
             y == h * Minutes
             z == g * Minutes
  <2> HIDE DEF x, y, z
  <2>4. x \in Nat /\ y \in Nat /\ z = y + Minutes + x /\ t = y + Minute(t) /\ u = z + Minute(u)
    BY <1>1, <2>2, <2>3 DEF x, y, z
  <2> QED BY <1>1, <2>4
<1>3. ASSUME h = g PROVE t < u <=> Minute(t) < Minute(u)
  <2> DEFINE y == h * Minutes
  <2>1. y \in Nat /\ t = y + Minute(t) /\ u = y + Minute(u)
    BY <1>1, <1>3
  <2> HIDE DEF y
  <2> QED BY <1>1, <2>1
<1> QED BY <1>1, <1>2, <1>3 DEF h, g

\* An hour earlier it is the same minute.
LEMMA HourBefore ==
  ASSUME NEW t \in Nat, Hour(t) > 0
  PROVE  t - Minutes \in Nat /\ Hour(t - Minutes) = Hour(t) - 1 /\ Minute(t - Minutes) = Minute(t)
<1> DEFINE h == Hour(t) - 1
<1>0. Hour(t) \in Nat /\ Minute(t) \in 0..(Minutes - 1) /\ t = Hour(t) * Minutes + Minute(t)
  BY Quotient
<1>6. h \in Nat /\ Hour(t) = h + 1
  BY <1>0
<1> HIDE DEF h
<1>1. h \in Nat /\ Minute(t) \in 0..(Minutes - 1) /\ t = (h + 1) * Minutes + Minute(t)
  BY <1>0, <1>6
<1>2. t - Minutes = h * Minutes + Minute(t)
  BY <1>1, Z3
<1>3. Hour(t - Minutes) = h /\ Minute(t - Minutes) = Minute(t)
  BY <1>1, <1>2, Unique
<1>4. t - Minutes \in Nat
  <2>1. h * Minutes \in Nat
    BY <1>1
  <2> DEFINE y == h * Minutes
  <2> HIDE DEF y
  <2>2. y \in Nat /\ t - Minutes = y + Minute(t)
    BY <1>2, <2>1 DEF y
  <2> QED BY <1>1, <2>2
<1> QED BY <1>3, <1>4 DEF h

\* The days that are looked at are so many hours.
LEMMA Window ==
  ASSUME NEW t \in Nat
  PROVE  Walls \subseteq Nat /\ (t \in Walls <=> Hour(t) < Days * Hours)
<1> DEFINE d == Days * Hours
           u == d * Minutes
<1>1. d \in Nat /\ u \in Nat /\ u = d * Minutes + 0
  OBVIOUS
<1>2. Walls = 0..(u - 1)
  BY DEF Walls
<1> HIDE DEF d
<1>3. Hour(u) = d /\ Minute(u) = 0
  <2>1. 0 \in 0..(Minutes - 1)
    OBVIOUS
  <2>2. Hour(d * Minutes + 0) = d /\ Minute(d * Minutes + 0) = 0
    BY <1>1, <2>1, Unique
  <2> QED BY <1>1, <2>2
<1> HIDE DEF u
<1>4. Hour(t) \in Nat /\ Minute(t) >= 0 /\ Minute(t) \in Nat
  BY Clock
<1>5. t < u <=> Hour(t) < d
  BY <1>1, <1>3, <1>4, Clock
<1> QED BY <1>1, <1>2, <1>5 DEF d

\* What the clock shows, ...
LEMMA WallTime ==
  ASSUME NEW ts \in Nat
  PROVE  /\ Wall(ts) \in Nat /\ Minute(Wall(ts)) = Minute(ts)
         /\ Hour(Wall(ts)) = IF Gap <= Hour(ts) /\ Hour(ts) < Fold THEN Hour(ts) + 1 ELSE Hour(ts)
<1>1. Hour(ts) \in Nat /\ Minute(ts) \in 0..(Minutes - 1)
  BY Clock
<1>2. HourOf(ts) = IF Gap <= Hour(ts) /\ Hour(ts) < Fold THEN Hour(ts) + 1 ELSE Hour(ts)
  BY <1>1 DEF HourOf, Hour
<1>3. HourOf(ts) \in Nat /\ Wall(ts) = HourOf(ts) * Minutes + Minute(ts)
  BY <1>1, <1>2 DEF Wall, Minute
<1>4. Hour(Wall(ts)) = HourOf(ts) /\ Minute(Wall(ts)) = Minute(ts)
  BY <1>1, <1>3, Unique
<1>5. HourOf(ts) * Minutes \in Nat
  BY <1>3
<1> DEFINE y == HourOf(ts) * Minutes
<1> HIDE DEF y
<1>6. y \in Nat /\ Wall(ts) = y + Minute(ts)
  BY <1>3, <1>5 DEF y
<1> QED BY <1>1, <1>2, <1>4, <1>6

\* ... and when it does.
LEMMA StampTime ==
  ASSUME NEW w \in Nat
  PROVE  /\ Stamp(w) \in Nat /\ Minute(Stamp(w)) = Minute(w)
         /\ Hour(Stamp(w)) = IF Gap < Hour(w) /\ Hour(w) <= Fold THEN Hour(w) - 1 ELSE Hour(w)
<1>1. Stamp(w) = IF Gap < Hour(w) /\ Hour(w) <= Fold THEN w - Minutes ELSE w
  BY DEF Stamp, Hour
<1>2. Hour(w) \in Nat
  BY Clock
<1> QED BY <1>1, <1>2, HourBefore

\* Whether an expression matches is a matter of the hour and of the minute.
MatchesHour(e, h) == DayMatches(e, h \div Hours) /\ h % Hours \in e.hours

\* (The days that match are those of the hour.)
LEMMA MatchesBoth ==
  ASSUME NEW e, NEW w
  PROVE  Matches(e, w) <=> MatchesHour(e, Hour(w)) /\ Minute(w) \in e.minutes
BY DEF Matches, MatchesHour, DayOf, HourIn, MinuteIn, Hour, Minute

\* Where no day field has a star and a step, the times that match are those
\* that the expression is written for.
LEMMA PlainMatches ==
  ASSUME NEW e, Plain(e), NEW w \in Walls
  PROVE  Matches(e, w) <=> Written(e, w)
BY DEF Plain, Matches, DayMatches, Written, FiresOn

\* A candidate is shown, first, at a firing that is still to come.
LEMMA CandidatesFire ==
  ASSUME NEW e, Plain(e), NEW ts \in Walls, NEW w \in Candidates(e, ts)
  PROVE  /\ Stamp(w) \in Firings(e) /\ Stamp(w) > ts
         /\ Hour(ts) = Gap => Written(e, Wall(Stamp(w)))
<1> DEFINE i == Stamp(w)
<1>1. /\ w \in Walls /\ w \in Nat /\ ts \in Nat /\ w > Wall(ts) /\ Written(e, w) /\ i > ts
  BY Window, PlainMatches DEF Candidates
<1>2. /\ i \in Nat /\ Minute(i) = Minute(w) /\ Hour(w) \in Nat /\ Hour(w) < Days * Hours
      /\ Hour(i) = IF Gap < Hour(w) /\ Hour(w) <= Fold THEN Hour(w) - 1 ELSE Hour(w)
  BY <1>1, Clock, StampTime, Window
<1> HIDE DEF i
<1>3. Hour(i) < Days * Hours
  <2>1. Days * Hours \in Nat
    OBVIOUS
  <2> DEFINE d == Days * Hours
  <2> HIDE DEF d
  <2>2. Hour(w) < d /\ d \in Nat
    BY <1>2, <2>1 DEF d
  <2>3. Hour(i) < d
    BY <1>2, <2>2
  <2> QED BY <2>3 DEF d
<1>4. i \in Walls
  BY <1>2, <1>3, Window
<1>5. ASSUME Hour(w) # Gap PROVE Wall(i) = w
  <2>1. /\ Wall(i) \in Nat /\ Minute(Wall(i)) = Minute(i)
        /\ Hour(Wall(i)) = IF Gap <= Hour(i) /\ Hour(i) < Fold THEN Hour(i) + 1 ELSE Hour(i)
    BY <1>2, WallTime
  <2>2. Hour(Wall(i)) = Hour(w)
    BY <1>2, <1>5, <2>1
  <2> QED BY <1>1, <1>2, <2>1, <2>2, Clock
<1>6. CASE Hour(w) = Gap
  <2>1. InGap(w)
    BY <1>6 DEF InGap, Hour
  <2>2. i \in Firings(e)
    BY <1>1, <2>1 DEF Firings, i
  <2>3. Hour(ts) # Gap
    <3>1. Hour(ts) = Gap => Hour(Wall(ts)) = Gap + 1 /\ Wall(ts) \in Nat
      BY <1>1, WallTime
    <3>2. Hour(ts) = Gap => w < Wall(ts)
      BY <1>1, <1>6, <3>1, Clock
    <3> QED BY <1>1, <3>1, <3>2
  <2> QED BY <1>1, <2>2, <2>3 DEF i
<1>7. CASE Hour(w) # Gap
  <2>1. Wall(i) = w /\ Stamp(Wall(i)) = i
    BY <1>5, <1>7 DEF i
  <2>2. i \in Firings(e)
    BY <1>1, <1>4, <2>1 DEF Firings
  <2> QED BY <1>1, <2>1, <2>2 DEF i
<1> QED BY <1>6, <1>7

\* Every firing to come is when a candidate is shown; in the hour after the
\* gap, every firing that the clock shows.
LEMMA FiringsAreFound ==
  ASSUME NEW e, Plain(e), NEW ts \in Walls, NEW i \in Firings(e), i > ts,
         Hour(ts) = Gap => Written(e, Wall(i))
  PROVE  \E w \in Candidates(e, ts) : Stamp(w) = i
<1> DEFINE d == Days * Hours
<1>1. /\ ts \in Nat /\ Walls \subseteq Nat /\ d \in Nat /\ Fold < d
      /\ Hour(ts) \in Nat /\ Hour(ts) < d
  BY Window, Clock
<1>2. /\ Wall(ts) \in Nat /\ Minute(Wall(ts)) = Minute(ts)
      /\ Hour(Wall(ts)) = IF Gap <= Hour(ts) /\ Hour(ts) < Fold THEN Hour(ts) + 1 ELSE Hour(ts)
  BY <1>1, WallTime
<1>3. i \in Nat
  BY <1>1, StampTime DEF Firings
<1>4. /\ Hour(i) \in Nat /\ Hour(ts) <= Hour(i)
      /\ Hour(ts) = Hour(i) => Minute(ts) < Minute(i)
  BY <1>1, <1>3, Clock
<1>5. CASE i \in Walls /\ Written(e, Wall(i)) /\ Stamp(Wall(i)) = i
  <2>1. /\ Wall(i) \in Nat /\ Minute(Wall(i)) = Minute(i)
        /\ Hour(Wall(i)) = IF Gap <= Hour(i) /\ Hour(i) < Fold THEN Hour(i) + 1 ELSE Hour(i)
    BY <1>3, WallTime
  <2>2. Hour(i) < d /\ Hour(i) # Fold
    <3>1. Hour(i) < d
      BY <1>3, <1>5, Window
    <3>2. Hour(Stamp(Wall(i))) = IF Gap < Hour(Wall(i)) /\ Hour(Wall(i)) <= Fold
                                 THEN Hour(Wall(i)) - 1 ELSE Hour(Wall(i))
      BY <2>1, StampTime
    <3> HIDE DEF d
    <3> QED BY <1>4, <1>5, <2>1, <3>1, <3>2
  <2> HIDE DEF d
  <2>3. Hour(Wall(i)) < d
    BY <1>1, <1>4, <2>1, <2>2
  <2>4. Wall(i) \in Walls
    BY <2>1, <2>3, Window DEF d
  <2>5. Wall(ts) < Wall(i)
    <3>1. Hour(Wall(ts)) <= Hour(Wall(i)) /\ (Hour(Wall(ts)) = Hour(Wall(i)) => Hour(ts) = Hour(i))
      BY <1>1, <1>2, <1>4, <2>1, <2>2
    <3> QED BY <1>2, <1>4, <2>1, <3>1, Clock
  <2> QED BY <1>5, <2>4, <2>5, PlainMatches DEF Candidates
<1>6. ASSUME NEW w \in Walls, InGap(w), Written(e, w), i = Stamp(w),
             ~(i \in Walls /\ Written(e, Wall(i)) /\ Stamp(Wall(i)) = i)
      PROVE  \E v \in Candidates(e, ts) : Stamp(v) = i
  <2>1. w \in Nat /\ Hour(w) = Gap /\ i = w
    BY <1>1, <1>6 DEF InGap, Hour, Stamp
  <2>2. Hour(ts) # Gap
    <3>1. /\ Wall(i) \in Nat /\ Hour(Wall(i)) = Gap + 1 /\ Minute(Wall(i)) = Minute(i)
      BY <2>1, WallTime
    <3>2. Stamp(Wall(i)) \in Nat /\ Hour(Stamp(Wall(i))) = Gap /\ Minute(Stamp(Wall(i))) = Minute(i)
      BY <3>1, StampTime
    <3>3. Stamp(Wall(i)) = i
      BY <1>3, <2>1, <3>2, Clock
    <3> QED BY <1>6, <2>1, <3>3
  <2>3. Hour(ts) < Gap
    BY <1>1, <1>4, <2>1, <2>2
  <2>4. Wall(ts) = ts
    BY <1>1, <1>2, <2>3, Clock
  <2> QED BY <1>6, <2>1, <2>4, PlainMatches DEF Candidates
<1> QED BY <1>5, <1>6 DEF Firings

\* The first candidate is shown before all others: although a time that was
\* skipped is shown with the one an hour later, both hours have the same minutes.
LEMMA FirstCandidateFirst ==
  ASSUME NEW e, NEW ts \in Walls, NEW first \in Candidates(e, ts), NEW w \in Candidates(e, ts),
         \A v \in Candidates(e, ts) : first <= v
  PROVE  Stamp(first) <= Stamp(w)
<1>1. /\ ts \in Nat /\ first \in Walls /\ first \in Nat /\ w \in Walls /\ w \in Nat /\ first <= w
      /\ first > Wall(ts) /\ Matches(e, first) /\ Matches(e, w) /\ Stamp(w) > ts
  BY Window DEF Candidates
<1>2. /\ Hour(first) \in Nat /\ Hour(w) \in Nat /\ Hour(first) <= Hour(w)
      /\ Minute(first) \in Nat /\ Minute(w) \in Nat
      /\ Hour(first) = Hour(w) => Minute(first) <= Minute(w)
  BY <1>1, Clock
<1>3. /\ Stamp(first) \in Nat /\ Stamp(w) \in Nat
      /\ Minute(Stamp(first)) = Minute(first) /\ Minute(Stamp(w)) = Minute(w)
      /\ Hour(Stamp(first)) = IF Gap < Hour(first) /\ Hour(first) <= Fold
                              THEN Hour(first) - 1 ELSE Hour(first)
      /\ Hour(Stamp(w)) = IF Gap < Hour(w) /\ Hour(w) <= Fold THEN Hour(w) - 1 ELSE Hour(w)
  BY <1>1, StampTime
<1>4. CASE Hour(first) = Gap /\ Hour(w) = Gap + 1
  <2> DEFINE v == Stamp(w)
  <2>1. v \in Nat /\ Hour(v) = Gap /\ Minute(v) = Minute(w)
    BY <1>3, <1>4
  <2>2. v \in Walls /\ Stamp(v) = v
    <3>1. Days * Hours \in Nat /\ Hour(first) < Days * Hours
      BY <1>1, Window
    <3> QED BY <1>4, <2>1, <3>1, Window DEF Stamp, Hour
  <2>3. Matches(e, v)
    BY <1>1, <1>4, <2>1, MatchesBoth
  <2>4. v > Wall(ts)
    <3>1. /\ Wall(ts) \in Nat /\ Minute(Wall(ts)) = Minute(ts) /\ Hour(ts) \in Nat
          /\ Hour(Wall(ts)) = IF Gap <= Hour(ts) /\ Hour(ts) < Fold THEN Hour(ts) + 1 ELSE Hour(ts)
      BY <1>1, WallTime, Clock
    <3>2. Hour(Wall(ts)) <= Gap
      BY <1>1, <1>4, <3>1, Clock
    <3>3. Wall(ts) = ts
      BY <1>1, <3>1, <3>2, Clock
    <3> QED BY <1>1, <3>3
  <2>5. v \in Candidates(e, ts)
    BY <1>1, <2>2, <2>3, <2>4 DEF Candidates
  <2>6. Stamp(first) = first
    BY <1>4 DEF Stamp, Hour
  <2> QED BY <2>5, <2>6
<1>5. CASE ~(Hour(first) = Gap /\ Hour(w) = Gap + 1)
  <2>1. /\ Hour(Stamp(first)) <= Hour(Stamp(w))
        /\ Hour(Stamp(first)) = Hour(Stamp(w)) => Minute(first) <= Minute(w)
    BY <1>2, <1>3, <1>5
  <2>2. Hour(Stamp(first)) \in Nat /\ Hour(Stamp(w)) \in Nat
    BY <1>3, Clock
  <2>3. CASE Hour(Stamp(first)) < Hour(Stamp(w))
    BY <1>3, <2>3, Clock
  <2>4. CASE Hour(Stamp(first)) = Hour(Stamp(w))
    BY <1>2, <1>3, <2>1, <2>4, Clock
  <2> QED BY <2>1, <2>2, <2>3, <2>4
<1> QED BY <1>4, <1>5

\* next_after finds the next time that an expression is written for, from every
\* time on; the expression has no step after the star of a day field.
THEOREM CronSearch ==
  ASSUME NEW e, Plain(e), NEW ts \in Walls
  PROVE  FindsNext(e, ts)
<1> DEFINE later == {i \in Firings(e) : i > ts}
           after == {i \in later : Written(e, Wall(i))}
           wanted == IF ts \div Minutes = Gap THEN after ELSE later
           found == Candidates(e, ts)
           first == Min(found)
<1>1. /\ \A w \in found : Stamp(w) \in wanted
      /\ \A i \in wanted : \E w \in found : Stamp(w) = i
  BY CandidatesFire, FiringsAreFound DEF Hour
<1>2. found \in SUBSET Nat /\ \A w \in found : Stamp(w) \in Nat
  BY Window, StampTime DEF Candidates
<1> SUFFICES CronAfter(e, ts) = IF wanted = {} THEN Never ELSE Min(wanted)
  BY DEF FindsNext
<1> HIDE DEF wanted
<1>3. CASE found = {}
  BY <1>1, <1>3 DEF CronAfter
<1>4. CASE found # {}
  <2>1. first \in found /\ \A w \in found : first <= w
    BY <1>2, <1>4, LeastExists
  <2>2. \A w \in found : Stamp(first) <= Stamp(w)
    BY <2>1, FirstCandidateFirst
  <2>3. Stamp(first) \in wanted /\ \A i \in wanted : Stamp(first) <= i
    BY <1>1, <2>1, <2>2
  <2>4. wanted \in SUBSET Nat /\ wanted # {}
    BY <1>1, <1>2, <2>3
  <2>5. Min(wanted) \in wanted /\ \A i \in wanted : Min(wanted) <= i
    BY <2>4, LeastExists
  <2>6. Min(wanted) = Stamp(first)
    <3> DEFINE least == Min(wanted)
               fires == Stamp(first)
    <3> HIDE DEF least, fires
    <3>1. /\ least \in wanted /\ \A i \in wanted : least <= i
          /\ fires \in wanted /\ \A i \in wanted : fires <= i
      BY <2>3, <2>5 DEF least, fires
    <3>2. least \in Nat /\ fires \in Nat /\ least <= fires /\ fires <= least
      BY <2>4, <3>1
    <3>3. least = fires
      BY <3>2
    <3> QED BY <3>3 DEF least, fires
  <2> QED BY <1>4, <2>4, <2>6 DEF CronAfter
<1> QED BY <1>3, <1>4

-----------------------------------------------------------------------------
(***************************************************************************)
(* The timetables that the code has                                        *)
(***************************************************************************)

\* The search returns a time that is still to come, one of the firings unless a
\* day field has a star and a step, or nothing.
LEMMA SearchResult ==
  ASSUME NEW e, NEW ts \in Walls
  PROVE  \/ CronAfter(e, ts) = Never
         \/ /\ CronAfter(e, ts) \in Nat /\ CronAfter(e, ts) > ts
            /\ Plain(e) => CronAfter(e, ts) \in Firings(e)
<1>1. Candidates(e, ts) \in SUBSET Nat
  BY Window DEF Candidates
<1>2. CASE Candidates(e, ts) = {}
  BY <1>2 DEF CronAfter
<1>3. CASE Candidates(e, ts) # {}
  <2>1. Min(Candidates(e, ts)) \in Candidates(e, ts)
    BY <1>1, <1>3, LeastExists
  <2>2. CronAfter(e, ts) = Stamp(Min(Candidates(e, ts)))
    BY <1>3 DEF CronAfter
  <2>3. CronAfter(e, ts) \in Nat /\ CronAfter(e, ts) > ts
    BY <1>1, <2>1, <2>2, StampTime DEF Candidates
  <2> QED BY <2>1, <2>2, <2>3, CandidatesFire
<1> QED BY <1>2, <1>3

\* What ScheduleAssumption asks of a timetable is true of the three that the
\* code has: each moves forward or ends.  (The proof does not use that
\* assumption, nor that a schedule follows its timetable.)
THEOREM TimetablesMoveForward ==
  ASSUME NEW t \in Times
  PROVE  /\ SpecFirst(t) \in Nat \cup {NoTick}
         /\ \/ SpecNext(t) = NoTick
            \/ SpecNext(t) \in Nat /\ SpecNext(t) > t
<1> USE TimetableAssumption DEF TimetableAssumption
<1>1. t \in Nat /\ t \in Walls
  OBVIOUS
<1>2. CASE Kind = "every"
  <2>1. SpecNext(t) = t + Seconds /\ SpecFirst(t) = t + Seconds
    BY <1>2 DEF SpecNext, SpecFirst, EveryNext, EveryFirst
  <2> QED BY <1>1, <2>1
<1>3. CASE Kind = "at"
  <2>1. SpecNext(t) = (IF At > t THEN At ELSE NoTick) /\ SpecFirst(t) = At
    BY <1>3 DEF SpecNext, SpecFirst, OnceNext, OnceFirst
  <2> QED BY <1>1, <2>1
<1>4. CASE Kind = "cron"
  <2>1. SpecNext(t) = CronAfter(Expression, t) /\ SpecFirst(t) = CronAfter(Expression, t)
    BY <1>4 DEF SpecNext, SpecFirst
  <2> QED BY <1>1, <2>1, SearchResult
<1> QED BY <1>2, <1>3, <1>4

\* The fire times of a cron schedule, in the record and in a resume_schedule
\* call that has not written its own yet.
AtFirings ==
  Kind = "cron" /\ Plain(Expression) =>
     /\ next \in Firings(Expression) \cup {NoTick}
     /\ resuming \subseteq Firings(Expression) \cup {NoTick}

\* Whatever time a cron schedule is advanced from, it is to one of its firings.
LEMMA CronTimes ==
  ASSUME Kind = "cron", Plain(Expression), NEW t \in Times
  PROVE  /\ NextAfter(t) \in Firings(Expression) \cup {NoTick}
         /\ FirstFireAt(t) \in Firings(Expression) \cup {NoTick}
<1>1. /\ NextAfter(t) = CronAfter(Expression, t) /\ FirstFireAt(t) = CronAfter(Expression, t)
      /\ t \in Walls /\ Never = NoTick
  <2>1. NextAfter(t) = SpecNext(t) /\ FirstFireAt(t) = SpecFirst(t) /\ Never = NoTick /\ t \in Walls
    BY TimetableAssumption, TimetableFollowed DEF TimetableAssumption
  <2> QED BY <2>1 DEF SpecNext, SpecFirst
<1> QED BY <1>1, SearchResult

\* No step writes a fire time that the expression does not have.
LEMMA FiringsStep ==
  ASSUME TypeOK, AtFirings, [Next]_vars
  PROVE  AtFirings'
<1> DEFINE fires == Firings(Expression) \cup {NoTick}
<1> SUFFICES ASSUME Kind = "cron", Plain(Expression)
             PROVE  next' \in fires /\ resuming' \subseteq fires
  BY DEF AtFirings
<1>1. next \in fires /\ resuming \subseteq fires /\ now \in Times
  BY DEF AtFirings, TypeOK
<1>2. \A t \in Times : NextAfter(t) \in fires /\ FirstFireAt(t) \in fires
  BY CronTimes
<1>3. ASSUME NEW w \in Workers PROVE NextTick(w) \in fires
  <2>1. tick[w] \in Times /\ seen[w] \in Times
    BY DEF TypeOK
  <2> QED BY <1>2, <2>1 DEF NextTick, Later
<1> HIDE DEF fires
<1> USE DEF record, workers
<1>4. ASSUME NEW w \in Workers, Fires(w) \/ Fail(w) PROVE next' \in fires /\ resuming' \subseteq fires
  BY <1>1, <1>3, <1>4 DEF Fires, List, Check, Skip, Start, Advance, Fail
<1>5. CASE Schedule
  BY <1>1, <1>2, <1>5 DEF Schedule
<1>6. CASE Resume
  BY <1>1, <1>2, <1>6 DEF Resume
<1>7. CASE ResumeWrites
  BY <1>1, <1>7 DEF ResumeWrites
<1>8. CASE Pause \/ Unschedule \/ TimePasses \/ \E t \in live : RunEnds(t)
  BY <1>1, <1>8 DEF Pause, Unschedule, TimePasses, RunEnds
<1>9. CASE UNCHANGED vars
  BY <1>1, <1>9 DEF vars
<1> QED BY <1>4, <1>5, <1>6, <1>7, <1>8, <1>9 DEF Next

\* next_after finds the next time that an expression is written for, across both
\* changes of the clock, and the fire time of a cron schedule is always one of
\* these; the expression has no step after the star of a day field.
THEOREM CronSchedulesFindTheirNext == Spec => []CronFindsNext
<1>1. SearchIsRight
  BY CronSearch DEF SearchIsRight
<1>2. Init => AtFirings
  <2> SUFFICES ASSUME Init PROVE AtFirings
    OBVIOUS
  <2>1. 0 \in Times /\ next = FirstFireAt(0) /\ resuming = {}
    BY ScheduleAssumption DEF Init, ScheduleAssumption
  <2> QED BY <2>1, CronTimes DEF AtFirings
<1>3. TypeOK /\ AtFirings /\ [Next]_vars => AtFirings'
  BY FiringsStep
<1>4. AtFirings => CronFindsNext
  BY <1>1 DEF AtFirings, CronFindsNext
<1> QED BY <1>2, <1>3, <1>4, SchedulerTypes, PTL DEF Spec

=============================================================================
