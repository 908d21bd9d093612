---------------------------- MODULE GatherProofs ----------------------------
(***************************************************************************)
(* What concurrent operations and the tasks that drivers leave behind can  *)
(* never do, for every body and every number of drivers and signals.       *)
(***************************************************************************)
EXTENDS Gather, SequenceTheorems, WellFoundedInduction, TLAPS

USE GatherAssumption DEF GatherAssumption

-----------------------------------------------------------------------------
(* The inductive invariant *)

Work     == [op : Ops, kind : Kinds \ {"closed"}, life : Lives, with : Signals \cup {0}]
Closings == [op : {0}, kind : {"closed"}, life : Lives, with : Statuses]
Events   == Work \cup Closings

Types ==
  /\ status \in Statuses \cup {"RUNNING"}
  /\ how \in Statuses \cup {"none"}
  /\ pc \in {"gather", "finish", "mark", "over"}
  /\ pc \in {"finish", "mark"} => how # "none"
  /\ life \in 0..MaxLives /\ (Driving => life \in Lives)
  /\ why \in Raised \cup {"none"}
  /\ sent \in 0..NSignals
  /\ journal \in Seq(Events) /\ stack \in Seq(Ops)
  /\ mine \in [Lives -> Seq(Events)]
  /\ at \in [Lives -> [Ops -> Places]]
  /\ sig \in [Lives -> [Ops -> Signals \cup {0}]]

\* s is the beginning of t.
Begins(s, t) == Len(s) <= Len(t) /\ \A i \in 1..Len(s) : s[i] = t[i]

\* Every copy is a beginning of the journal, and what a task has written but
\* not yet been told of is the next event.
Copies ==
  \A l \in Lives :
    /\ Begins(mine[l], journal)
    /\ \A o \in Ops : at[l][o] = "wrote" =>
         /\ Len(mine[l]) < Len(journal)
         /\ journal[Len(mine[l]) + 1] = Event(o, "completed", l, 0)
         /\ \A p \in Ops : at[l][p] = "wrote" => p = o

Working == {"schedule", "run", "wrote", "scan", "seen", "take"}

\* What the place of a task says about its copy of the journal.
TasksKnow ==
  \A l \in Lives, o \in Ops :
    /\ at[l][o] \in Working => ~Outcome(mine[l], o)
    /\ at[l][o] = "mark" => Has(mine[l], o, "consumed")
    /\ at[l][o] = "ok" => Succeeded(mine[l], o)

\* A signal that has been found may have been consumed meanwhile, but only by
\* a task of the same driver.
Found ==
  \A l \in Lives, o \in Ops :
    /\ at[l][o] = "take" => sig[l][o] # 0
    /\ at[l][o] \in {"seen", "take"} /\ sig[l][o] # 0 =>
         \A n \in 1..Len(mine[l]) :
           mine[l][n].kind = "consumed" /\ mine[l][n].with = sig[l][o] => mine[l][n].life = l

OnStack(o) == \E i \in 1..Len(stack) : stack[i] = o

\* An operation was completed by an earlier driver than l.
Earlier(s, o, l) ==
  \E n \in 1..Len(s) : s[n].op = o /\ s[n].kind = "completed" /\ s[n].life < l

\* The compensation of such an operation is yet to be registered, or it is on
\* the stack, or done.
Due ==
  Driving => \A o \in Ops : Earlier(mine[life], o, life) =>
    /\ pc = "gather" => at[life][o] = "ready" \/ OnStack(o)
    /\ pc = "finish" /\ how # "COMPLETED" => OnStack(o) \/ Has(mine[life], o, "undone")

\* A driver that completes the run has seen every operation succeed.
Complete ==
  pc \in {"finish", "mark"} /\ how = "COMPLETED" => \A o \in Ops : Succeeded(mine[life], o)

IInv == /\ Types /\ Copies /\ TasksKnow /\ Found /\ Due /\ Complete
        /\ OneOutcome /\ NotConsumedAgain /\ ReplayedIsUndone

-----------------------------------------------------------------------------
(* Journals and their copies *)

\* What an event adds to a journal.
LEMMA HasGrows ==
  ASSUME NEW s \in Seq(Events), NEW e \in Events, NEW o, NEW kind
  PROVE  Has(Append(s, e), o, kind) <=> Has(s, o, kind) \/ (e.op = o /\ e.kind = kind)
<1>1. /\ Len(Append(s, e)) = Len(s) + 1 /\ Len(s) \in Nat
      /\ \A i \in 1..Len(s) : Append(s, e)[i] = s[i]
      /\ Append(s, e)[Len(s) + 1] = e
  BY AppendProperties, LenProperties
<1> QED BY <1>1 DEF Has

\* A journal has what its beginnings have.
LEMMA BeginningHas ==
  ASSUME NEW s \in Seq(Events), NEW t \in Seq(Events), Begins(s, t), NEW o, NEW kind, Has(s, o, kind)
  PROVE  Has(t, o, kind)
<1>1. Len(s) \in Nat /\ Len(t) \in Nat
  BY LenProperties
<1> QED BY <1>1 DEF Begins, Has

\* A beginning of full length is the whole.
LEMMA WholeBeginning ==
  ASSUME NEW s \in Seq(Events), NEW t \in Seq(Events), Begins(s, t), Len(s) = Len(t)
  PROVE  s = t
<1>1. s \in [1..Len(s) -> Events] /\ t \in [1..Len(t) -> Events]
  BY LenProperties
<1> QED BY <1>1 DEF Begins

\* A beginning of a journal is one of its extension.
LEMMA BeginningStays ==
  ASSUME NEW s \in Seq(Events), NEW t \in Seq(Events), NEW e \in Events, Begins(s, t)
  PROVE  Begins(s, Append(t, e))
<1>1. Len(Append(t, e)) = Len(t) + 1 /\ \A i \in 1..Len(t) : Append(t, e)[i] = t[i]
  BY AppendProperties
<1>2. Len(s) \in Nat /\ Len(t) \in Nat
  BY LenProperties
<1> QED BY <1>1, <1>2 DEF Begins

\* A beginning that grows by the next event of the journal is one again.
LEMMA BeginningGrows ==
  ASSUME NEW s \in Seq(Events), NEW t \in Seq(Events), Begins(s, t), Len(s) < Len(t)
  PROVE  /\ t[Len(s) + 1] \in Events
         /\ Begins(Append(s, t[Len(s) + 1]), t)
<1> DEFINE e == t[Len(s) + 1]
<1>1. Len(s) \in Nat /\ Len(t) \in Nat
  BY LenProperties
<1>2. e \in Events
  BY <1>1, ElementOfSeq
<1>3. /\ Len(Append(s, e)) = Len(s) + 1
      /\ \A i \in 1..Len(s) : Append(s, e)[i] = s[i]
      /\ Append(s, e)[Len(s) + 1] = e
  BY <1>2, AppendProperties
<1> QED BY <1>1, <1>2, <1>3 DEF Begins

\* Some of the numbers in a set is the smallest.
LEMMA SmallestNumber ==
  ASSUME NEW T, T \subseteq Nat, T # {}
  PROVE  \E s \in T : \A t \in T : s <= t
<1>1. \E s \in T : \A t \in T : ~ (<<t, s>> \in OpToRel(<, Nat))
  BY NatLessThanWellFounded, WFMin, Zenon
<1>2. \A s, t \in Nat : t < s => <<t, s>> \in OpToRel(<, Nat)
  BY Zenon DEF OpToRel
<1>3. \E s \in T : \A t \in T : ~ (t < s)
  BY <1>1, <1>2, Zenon
<1> QED BY <1>3

\* A signal that is found is one that was looked for.
LEMMA FirstIsUnread ==
  ASSUME NEW l, sent \in Nat
  PROVE  /\ First(l) # 0 => First(l) \notin Taken(mine[l])
         /\ First(l) \in (1..sent) \cup {0}
<1>1. Unread(l) \subseteq Nat /\ Unread(l) \subseteq 1..sent
  BY DEF Unread
<1>2. Unread(l) # {} => \E s \in Unread(l) : \A t \in Unread(l) : s <= t
  BY <1>1, SmallestNumber
<1>3. CASE Unread(l) = {}
  BY <1>3 DEF First
<1>4. CASE Unread(l) # {}
  BY <1>1, <1>2, <1>4 DEF First, Unread, Excluded
<1> QED BY <1>3, <1>4

-----------------------------------------------------------------------------
(* Steps *)

\* A task journals an event: its copy was the whole journal, and still is.
LEMMA AppendFacts ==
  ASSUME Types, Copies, NEW l \in Lives, NEW e \in Events, Appended(l, e)
  PROVE  /\ mine[l] = journal
         /\ journal' = Append(journal, e) /\ journal' \in Seq(Events)
         /\ mine' = [mine EXCEPT ![l] = Append(journal, e)]
         /\ mine' \in [Lives -> Seq(Events)]
         /\ \A k \in Lives : Begins(mine'[k], journal')
         /\ \A o \in Ops : at[l][o] # "wrote"
<1>1. journal \in Seq(Events) /\ mine \in [Lives -> Seq(Events)]
  BY DEF Types
<1>2. mine[l] = journal
  BY <1>1, WholeBeginning DEF Appended, Refused, Copies
<1>3. journal' = Append(journal, e) /\ journal' \in Seq(Events)
  BY <1>1, AppendProperties DEF Appended
<1>4. mine' = [mine EXCEPT ![l] = Append(journal, e)] /\ mine' \in [Lives -> Seq(Events)]
  BY <1>1, <1>2, <1>3 DEF Appended
<1>5. ASSUME NEW k \in Lives PROVE Begins(mine'[k], journal')
  <2>1. CASE k = l
    <3>1. mine'[k] = journal'
      BY <1>1, <1>3, <1>4, <2>1
    <3>2. Len(journal') \in Nat
      BY <1>3, LenProperties
    <3> QED BY <3>1, <3>2 DEF Begins
  <2>2. CASE k # l
    BY <1>1, <1>3, <1>4, <2>2, BeginningStays DEF Copies
  <2> QED BY <2>1, <2>2
<1> QED BY <1>2, <1>3, <1>4, <1>5 DEF Appended, Unlocked

\* What the driver and the tasks journal.
LEMMA EventTypes ==
  ASSUME Types
  PROVE  /\ \A l \in Lives, o \in Ops : Event(o, "scheduled", l, 0) \in Events
         /\ \A l \in Lives, o \in Ops : Event(o, "completed", l, 0) \in Events
         /\ \A l \in Lives, o \in Ops : Event(o, "failed", l, 0) \in Events
         /\ \A l \in Lives, o \in Ops : Event(o, "consumed", l, sig[l][o]) \in Events
         /\ \A l \in Lives, o \in Ops : Event(o, "undone", l, 0) \in Events
         /\ \A l \in Lives : how # "none" => Event(0, "closed", l, how) \in Events
BY DEF Types, Events, Work, Closings, Event, Kinds

\* The stack without its top.
LEMMA StackFacts ==
  ASSUME Types, stack # <<>>
  PROVE  /\ Top \in Ops
         /\ Front(stack) \in Seq(Ops)
         /\ \A o : OnStack(o) => o = Top \/ \E i \in 1..Len(Front(stack)) : Front(stack)[i] = o
<1>1. stack \in Seq(Ops) /\ Len(stack) \in Nat /\ Len(stack) >= 1
  BY EmptySeq, LenProperties DEF Types
<1>2. Top \in Ops
  BY <1>1, ElementOfSeq DEF Top, Last
<1>3. /\ Front(stack) \in Seq(Ops)
      /\ Len(Front(stack)) = Len(stack) - 1
      /\ \A i \in 1..(Len(stack) - 1) : Front(stack)[i] = stack[i]
  <2> DEFINE n == Len(stack) - 1
  <2>1. 1 \in Int /\ n \in Int /\ n >= 0 /\ \A i \in 1..n : stack[i] \in Ops
    BY <1>1, ElementOfSeq
  <2>2. Front(stack) = SubSeq(stack, 1, n)
    BY DEF Front
  <2> HIDE DEF n
  <2>3. /\ SubSeq(stack, 1, n) \in Seq(Ops)
        /\ Len(SubSeq(stack, 1, n)) = IF 1 <= n THEN n - 1 + 1 ELSE 0
        /\ \A i \in 1..n - 1 + 1 : SubSeq(stack, 1, n)[i] = stack[1 + i - 1]
    BY <2>1, <1>1, SMT
  <2>4. /\ Len(SubSeq(stack, 1, n)) = n
        /\ \A i \in 1..n : SubSeq(stack, 1, n)[i] = stack[i]
    BY <2>1, <2>3
  <2> QED BY <2>2, <2>3, <2>4 DEF n
<1> QED BY <1>1, <1>2, <1>3 DEF OnStack, Top, Last

\* Every step keeps the types.
LEMMA TypesStep ==
  ASSUME Types, Copies, Next
  PROVE  Types'
<1> USE DEF Types, Driving, Places, Ended, Raised
<1>1. ASSUME NEW l \in Lives, NEW o \in Ops, NEW p \in Places, Go(l, o, p)
      PROVE  at' \in [Lives -> [Ops -> Places]] /\ why' \in Raised \cup {"none"}
  BY <1>1 DEF Go
<1>2. ASSUME NEW l \in Lives, NEW o \in Ops, Register(l, o)
      PROVE  stack' \in Seq(Ops)
  BY <1>2, AppendProperties DEF Register
<1>3. CASE \E l \in Lives, o \in Ops : Task(l, o)
  <2> SUFFICES ASSUME NEW l \in Lives, NEW o \in Ops, Task(l, o) PROVE Types'
    BY <1>3
  <2>1. CASE Replay(l, o)
    BY <2>1, <1>1, <1>2 DEF Replay, store, driver
  <2>2. CASE Begin(l, o)
    <3>1. at' \in [Lives -> [Ops -> Places]] /\ why' \in Raised \cup {"none"}
      BY <2>2, <1>1 DEF Begin
    <3> QED BY <2>2, <3>1 DEF Begin, store, driver
  <2>9. CASE Scanned(l, o)
    BY <2>9, <1>1 DEF Scanned, store, driver
  <2>10. CASE MarkConsumed(l, o)
    <3>1. sig' \in [Lives -> [Ops -> Signals \cup {0}]]
      BY <2>10 DEF MarkConsumed
    <3> QED BY <2>10, <3>1, <1>1 DEF MarkConsumed, driver
  <2>3. CASE Scan(l, o)
    <3>1. sent \in Nat /\ (1..sent) \cup {0} \subseteq Signals \cup {0}
      BY DEF Signals
    <3>2. First(l) \in Signals \cup {0}
      BY <3>1, FirstIsUnread
    <3> QED BY <2>3, <3>2, <1>1 DEF Scan, store, driver
  <2>4. CASE Schedule(l, o)
    BY <2>4, <1>1, EventTypes, AppendFacts DEF Schedule, AppendThen, store, driver
  <2>5. CASE StepFails(l, o)
    BY <2>5, <1>1, EventTypes, AppendFacts DEF StepFails, AppendThen, store, driver
  <2>6. CASE Consume(l, o)
    BY <2>6, <1>1, EventTypes, AppendFacts DEF Consume, AppendThen, store, driver
  <2>7. CASE StepReturns(l, o)
    <3>1. Event(o, "completed", l, 0) \in Events
      BY EventTypes
    <3>2. journal' \in Seq(Events)
      <4>1. Append(journal, Event(o, "completed", l, 0)) \in Seq(Events)
        BY <3>1, AppendProperties
      <4> QED BY <2>7, <4>1 DEF StepReturns
    <3>3. at' \in [Lives -> [Ops -> Places]] /\ why' \in Raised \cup {"none"}
      BY <2>7, <1>1 DEF StepReturns
    <3> QED BY <2>7, <3>2, <3>3 DEF StepReturns, store, driver
  <2>8. CASE StepIsDone(l, o)
    <3>1. journal[Len(mine[l]) + 1] \in Events
      BY <2>8, BeginningGrows DEF StepIsDone, Copies
    <3> QED BY <2>8, <3>1, <1>1, <1>2, AppendProperties DEF StepIsDone, store, driver
  <2> QED BY <2>1, <2>2, <2>3, <2>4, <2>5, <2>6, <2>7, <2>8, <2>9, <2>10 DEF Task
<1>4. CASE BodyReturns \/ BodyRaises
  BY <1>4, EmptySeq DEF BodyReturns, BodyRaises, Statuses, store, driver
<1>5. CASE SkipUndone
  BY <1>5, StackFacts DEF SkipUndone, store, driver
<1>6. CASE Undo
  <2>1. life \in Lives /\ Top \in Ops /\ Front(stack) \in Seq(Ops)
    BY <1>6, StackFacts DEF Undo
  <2>2. Event(Top, "undone", life, 0) \in Events
    BY <2>1, EventTypes
  <2>3. journal' \in Seq(Events) /\ mine' \in [Lives -> Seq(Events)]
    BY <1>6, <2>1, <2>2, AppendFacts DEF Undo
  <2> QED BY <1>6, <2>1, <2>3, EmptySeq DEF Undo, Over, store, driver
<1>7. CASE Close
  BY <1>7, EventTypes, AppendFacts, EmptySeq DEF Close, Over, store, driver
<1>8. CASE Mark
  BY <1>8, EmptySeq DEF Mark, Over, store, driver
<1>9. CASE Ensure
  <2>1. life + 1 \in Lives
    BY <1>9 DEF Ensure, Lives
  <2>2. /\ mine' \in [Lives -> Seq(Events)]
        /\ at' \in [Lives -> [Ops -> Places]]
    BY <1>9, <2>1 DEF Ensure
  <2> QED BY <1>9, <2>1, <2>2 DEF Ensure, Lives, store, driver
<1>10. CASE Stop
  <2>1. \A l \in Lives : Cut(l) \in [Ops -> Places]
    BY DEF Cut
  <2>2. at' = [at EXCEPT ![life] = Cut(life)] \/ at' = at
    BY <1>10 DEF Stop
  <2>3. at' \in [Lives -> [Ops -> Places]]
    <3>1. life \in Lives /\ Cut(life) \in [Ops -> Places]
      BY <1>10, <2>1 DEF Stop
    <3> QED BY <2>2, <3>1
  <2> QED BY <1>10, <2>3, EmptySeq DEF Stop, Over, store, driver
<1>11. CASE Crash
  BY <1>11, EmptySeq DEF Crash, Over, store, driver
<1>12. CASE Signal \/ Cancel
  BY <1>12 DEF Signal, Cancel, store, driver
<1> QED BY <1>3, <1>4, <1>5, <1>6, <1>7, <1>8, <1>9, <1>10, <1>11, <1>12 DEF Next, Drive

NoneWrites == \A l \in Lives, o \in Ops : at'[l][o] = "wrote" => at[l][o] = "wrote"

\* The ways in which a step changes the journal and its copies.
LEMMA Moves ==
  ASSUME Types, Copies, Next
  PROVE  \/ NoneWrites /\ UNCHANGED <<journal, mine>>
         \/ NoneWrites /\ \E l \in Lives, e \in Events : Appended(l, e)
         \/ \E l \in Lives, o \in Ops : StepReturns(l, o) /\ ~Refused(l)
         \/ \E l \in Lives, o \in Ops : StepIsDone(l, o)
         \/ Ensure
         \/ Crash
<1>1. ASSUME NEW l \in Lives, NEW o \in Ops, NEW p, p # "wrote", Go(l, o, p)
      PROVE  NoneWrites
  BY <1>1 DEF Go, NoneWrites, Types
<1>2. UNCHANGED at => NoneWrites
  BY DEF NoneWrites
<1>3. CASE \E l \in Lives, o \in Ops : Task(l, o)
  <2> PICK l \in Lives, o \in Ops : Task(l, o)
    BY <1>3
  <2>1. CASE Replay(l, o) \/ Begin(l, o) \/ Scan(l, o) \/ Scanned(l, o) \/ MarkConsumed(l, o)
    <3>1. \E p : p # "wrote" /\ Go(l, o, p)
      BY <2>1 DEF Replay, Begin, Scan, Scanned, MarkConsumed
    <3>2. UNCHANGED <<journal, mine>>
      BY <2>1 DEF Replay, Begin, Scan, Scanned, MarkConsumed
    <3> QED BY <1>1, <3>1, <3>2
  <2>2. CASE Schedule(l, o) \/ StepFails(l, o) \/ Consume(l, o)
    <3>1. \E p : p # "wrote" /\ Go(l, o, p)
      BY <2>2 DEF Schedule, StepFails, Consume, AppendThen
    <3>2. \/ UNCHANGED <<journal, mine>>
          \/ \E e \in Events : Appended(l, e)
      BY <2>2, EventTypes DEF Schedule, StepFails, Consume, AppendThen
    <3> QED BY <1>1, <3>1, <3>2
  <2>3. CASE StepReturns(l, o)
    <3>1. CASE Refused(l)
      BY <2>3, <3>1, <1>1 DEF StepReturns
    <3> QED BY <2>3, <3>1
  <2>4. CASE StepIsDone(l, o)
    BY <2>4
  <2> QED BY <2>1, <2>2, <2>3, <2>4 DEF Task
<1>4. CASE BodyReturns \/ BodyRaises \/ SkipUndone \/ Mark \/ Signal \/ Cancel
  BY <1>2, <1>4 DEF BodyReturns, BodyRaises, SkipUndone, Mark, Signal, Cancel
<1>5. CASE Undo
  <2>1. life \in Lives /\ Top \in Ops
    BY <1>5, StackFacts DEF Undo, Types, Driving
  <2> QED BY <1>2, <1>5, <2>1, EventTypes DEF Undo
<1>6. CASE Close
  <2>1. life \in Lives /\ how # "none"
    BY <1>6 DEF Close, Types, Driving
  <2> QED BY <1>2, <1>6, <2>1, EventTypes DEF Close
<1>7. CASE Stop
  <2>1. NoneWrites
    <3>1. \A o \in Ops : Cut(life)[o] # "wrote"
      BY DEF Cut, Ended
    <3>2. at' = [at EXCEPT ![life] = Cut(life)] \/ at' = at
      BY <1>7 DEF Stop
    <3> QED BY <3>1, <3>2 DEF NoneWrites, Types
  <2> QED BY <1>7, <2>1 DEF Stop
<1> QED BY <1>3, <1>4, <1>5, <1>6, <1>7 DEF Next, Drive

\* The copies remain beginnings of the journal.
LEMMA CopiesStep ==
  ASSUME Types, Copies, Next
  PROVE  Copies'
<1> USE DEF Copies
<1>1. journal \in Seq(Events) /\ mine \in [Lives -> Seq(Events)] /\ at \in [Lives -> [Ops -> Places]]
  BY DEF Types
<1>2. \A l \in Lives : Len(mine[l]) \in Nat /\ Len(journal) \in Nat
  BY <1>1, LenProperties
<1>3. CASE NoneWrites /\ UNCHANGED <<journal, mine>>
  BY <1>3 DEF NoneWrites, Begins
<1>4. ASSUME NoneWrites, NEW l \in Lives, NEW e \in Events, Appended(l, e)
      PROVE  Copies'
  <2>1. /\ \A k \in Lives : Begins(mine'[k], journal')
        /\ \A o \in Ops : at[l][o] # "wrote"
        /\ journal' = Append(journal, e) /\ mine' = [mine EXCEPT ![l] = Append(journal, e)]
    BY <1>4, AppendFacts
  <2>2. /\ Len(journal') = Len(journal) + 1
        /\ \A i \in 1..Len(journal) : journal'[i] = journal[i]
    BY <1>1, <2>1, AppendProperties
  <2>3. ASSUME NEW k \in Lives, NEW o \in Ops, at'[k][o] = "wrote"
        PROVE  /\ Len(mine'[k]) < Len(journal')
               /\ journal'[Len(mine'[k]) + 1] = Event(o, "completed", k, 0)
               /\ \A p \in Ops : at'[k][p] = "wrote" => p = o
    <3>1. at[k][o] = "wrote" /\ k # l
      BY <1>4, <2>1, <2>3 DEF NoneWrites
    <3>2. mine'[k] = mine[k]
      BY <1>1, <2>1, <3>1
    <3> QED BY <1>2, <1>4, <2>2, <3>1, <3>2 DEF NoneWrites
  <2> QED BY <2>1, <2>3
<1>5. ASSUME NEW l \in Lives, NEW o \in Ops, StepReturns(l, o), ~Refused(l)
      PROVE  Copies'
  <2> DEFINE e == Event(o, "completed", l, 0)
  <2>1. /\ journal' = Append(journal, e) /\ UNCHANGED mine
        /\ at' = [at EXCEPT ![l][o] = "wrote"]
        /\ \A p \in Ops : at[l][p] # "wrote"
        /\ Len(mine[l]) = Len(journal)
    BY <1>5 DEF StepReturns, Go, Unlocked, Refused
  <2>2. e \in Events
    BY <1>5, EventTypes
  <2>3. /\ Len(journal') = Len(journal) + 1
        /\ \A i \in 1..Len(journal) : journal'[i] = journal[i]
        /\ journal'[Len(journal) + 1] = e
    BY <1>1, <2>1, <2>2, AppendProperties
  <2>4. \A k \in Lives : Begins(mine'[k], journal')
    BY <1>1, <2>1, <2>2, BeginningStays
  <2>5. ASSUME NEW k \in Lives, NEW p \in Ops, at'[k][p] = "wrote"
        PROVE  /\ Len(mine'[k]) < Len(journal')
               /\ journal'[Len(mine'[k]) + 1] = Event(p, "completed", k, 0)
               /\ \A q \in Ops : at'[k][q] = "wrote" => q = p
    <3>1. CASE k = l
      <4>1. p = o /\ \A q \in Ops : at'[k][q] = "wrote" => q = p
        BY <1>1, <2>1, <2>5, <3>1
      <4> QED BY <1>2, <2>1, <2>3, <3>1, <4>1
    <3>2. CASE k # l
      <4>1. at'[k] = at[k]
        BY <1>1, <2>1, <3>2
      <4> QED BY <1>2, <2>1, <2>3, <2>5, <4>1
    <3> QED BY <3>1, <3>2
  <2> QED BY <2>4, <2>5
<1>6. ASSUME NEW l \in Lives, NEW o \in Ops, StepIsDone(l, o)
      PROVE  Copies'
  <2> DEFINE e == journal[Len(mine[l]) + 1]
  <2>1. /\ at[l][o] = "wrote" /\ at' = [at EXCEPT ![l][o] = "ok"] /\ UNCHANGED journal
        /\ mine' = [mine EXCEPT ![l] = Append(@, journal[Len(@) + 1])]
    BY <1>6 DEF StepIsDone, Go
  <2>2. mine'[l] = Append(mine[l], e)
    BY <1>1, <2>1
  <2>3. Begins(mine'[l], journal')
    BY <1>1, <2>1, <2>2, BeginningGrows
  <2>4. \A k \in Lives : k # l => mine'[k] = mine[k] /\ at'[k] = at[k]
    BY <1>1, <2>1
  <2>5. \A p \in Ops : at'[l][p] # "wrote"
    BY <1>1, <2>1
  <2> QED BY <2>1, <2>3, <2>4, <2>5
<1>7. CASE Ensure
  <2>1. /\ life + 1 \in Lives /\ UNCHANGED journal
        /\ mine' = [mine EXCEPT ![life + 1] = journal]
        /\ at' = [at EXCEPT ![life + 1] = [o \in Ops |-> "ready"]]
    BY <1>7 DEF Ensure, store, Types, Lives
  <2>2. Begins(journal, journal)
    BY DEF Begins
  <2>3. \A k \in Lives : k # life + 1 => mine'[k] = mine[k] /\ at'[k] = at[k]
    BY <1>1, <2>1
  <2>4. mine'[life + 1] = journal /\ \A p \in Ops : at'[life + 1][p] # "wrote"
    BY <1>1, <2>1
  <2> QED BY <1>2, <2>1, <2>2, <2>3, <2>4
<1>8. CASE Crash
  <2>1. \A k \in Lives : mine'[k] = <<>> /\ \A p \in Ops : at'[k][p] # "wrote"
    BY <1>8 DEF Crash
  <2>2. Begins(<<>>, journal) /\ UNCHANGED journal
    BY <1>2, <1>8, EmptySeq DEF Begins, Crash
  <2> QED BY <2>1, <2>2
<1> QED BY <1>3, <1>4, <1>5, <1>6, <1>7, <1>8, Moves

-----------------------------------------------------------------------------
(* What the tasks know *)

\* A step of a task concerns its own operation; what it journals is of its own
\* life.
LEMMA TaskFrame ==
  ASSUME Types, Copies, NEW l \in Lives, NEW o \in Ops, Task(l, o)
  PROVE  /\ \A k \in Lives, p \in Ops : k # l \/ p # o =>
              at'[k][p] = at[k][p] /\ sig'[k][p] = sig[k][p]
         /\ \A k \in Lives : k # l => mine'[k] = mine[k]
         /\ \/ mine'[l] = mine[l]
            \/ \E e \in Events : e.op = o /\ e.life = l /\ mine'[l] = Append(mine[l], e)
         /\ UNCHANGED <<status, driver>>
<1>1. /\ mine \in [Lives -> Seq(Events)] /\ at \in [Lives -> [Ops -> Places]]
      /\ sig \in [Lives -> [Ops -> Signals \cup {0}]]
  BY DEF Types
<1>2. \E p : at' = [at EXCEPT ![l][o] = p]
  BY DEF Task, Replay, Begin, Schedule, StepReturns, StepIsDone, StepFails, Scan, Scanned,
         Consume, MarkConsumed, AppendThen, Go
<1>3. UNCHANGED <<status, driver>>
  BY DEF Task, Replay, Begin, Schedule, StepReturns, StepIsDone, StepFails, Scan, Scanned,
         Consume, MarkConsumed, store
<1>4. sig' = sig \/ \E x : sig' = [sig EXCEPT ![l][o] = x]
  BY DEF Task, Replay, Begin, Schedule, StepReturns, StepIsDone, StepFails, Scan, Scanned,
         Consume, MarkConsumed
<1>5. \/ mine' = mine
      \/ \E e \in Events : e.op = o /\ e.life = l /\ mine' = [mine EXCEPT ![l] = Append(mine[l], e)]
  <2>1. CASE Replay(l, o) \/ Begin(l, o) \/ Scan(l, o) \/ Scanned(l, o) \/ MarkConsumed(l, o)
             \/ StepReturns(l, o)
    BY <2>1 DEF Replay, Begin, Scan, Scanned, MarkConsumed, StepReturns
  <2>2. CASE Schedule(l, o) \/ StepFails(l, o) \/ Consume(l, o)
    <3>1. mine' = mine \/ \E e \in Events : e.op = o /\ e.life = l /\ Appended(l, e)
      BY <2>2, EventTypes DEF Schedule, StepFails, Consume, AppendThen, Event
    <3> QED BY <1>1, <3>1 DEF Appended
  <2>3. CASE StepIsDone(l, o)
    <3>1. journal[Len(mine[l]) + 1] = Event(o, "completed", l, 0)
      BY <2>3 DEF StepIsDone, Copies
    <3>2. mine' = [mine EXCEPT ![l] = Append(mine[l], Event(o, "completed", l, 0))]
      BY <1>1, <2>3, <3>1 DEF StepIsDone
    <3> QED BY <3>2, EventTypes DEF Event
  <2> QED BY <2>1, <2>2, <2>3 DEF Task
<1>6. ASSUME NEW k \in Lives, NEW p \in Ops, k # l \/ p # o
      PROVE  at'[k][p] = at[k][p] /\ sig'[k][p] = sig[k][p]
  BY <1>1, <1>2, <1>4, <1>6
<1>7. /\ \A k \in Lives : k # l => mine'[k] = mine[k]
      /\ \/ mine'[l] = mine[l]
         \/ \E e \in Events : e.op = o /\ e.life = l /\ mine'[l] = Append(mine[l], e)
  BY <1>1, <1>5
<1> QED BY <1>3, <1>6, <1>7

\* An event that is no outcome of an operation changes nothing of what the
\* journal says of its outcome.
LEMMA OutcomeStays ==
  ASSUME NEW s \in Seq(Events), NEW e \in Events, NEW p,
         e.op # p \/ e.kind \notin {"completed", "failed", "consumed"}
  PROVE  /\ Outcome(Append(s, e), p) <=> Outcome(s, p)
         /\ Succeeded(Append(s, e), p) <=> Succeeded(s, p)
         /\ Has(Append(s, e), p, "consumed") <=> Has(s, p, "consumed")
BY HasGrows DEF Outcome, Succeeded

Knows(l, o) ==
  /\ at[l][o] \in Working => ~Outcome(mine[l], o)
  /\ at[l][o] = "mark" => Has(mine[l], o, "consumed")
  /\ at[l][o] = "ok" => Succeeded(mine[l], o)

\* A task's own step.
LEMMA TaskKnows ==
  ASSUME Types, Copies, TasksKnow, NEW l \in Lives, NEW o \in Ops, Task(l, o)
  PROVE  Knows(l, o)'
<1> USE DEF Knows, Working
<1>1. mine \in [Lives -> Seq(Events)] /\ at \in [Lives -> [Ops -> Places]]
  BY DEF Types
<1>2. Knows(l, o)
  BY DEF TasksKnow
<1>3. ASSUME NEW p, Go(l, o, p) PROVE at'[l][o] = p
  BY <1>1, <1>3 DEF Go
<1>4. ASSUME NEW kind, NEW x, NEW p, AppendThen(l, o, kind, x, p), Event(o, kind, l, x) \in Events
      PROVE  \/ at'[l][o] = "error"
             \/ at'[l][o] = p /\ mine'[l] = Append(mine[l], Event(o, kind, l, x))
  BY <1>1, <1>3, <1>4 DEF AppendThen, Appended
<1>5. CASE Replay(l, o) \/ Begin(l, o)
  BY <1>2, <1>3, <1>5 DEF Replay, Begin, Outcome, Succeeded
<1>6. CASE Schedule(l, o)
  <2>1. Event(o, "scheduled", l, 0) \in Events
    BY EventTypes
  <2>2. Outcome(Append(mine[l], Event(o, "scheduled", l, 0)), o) <=> Outcome(mine[l], o)
    BY <1>1, <2>1, OutcomeStays DEF Event
  <2>3. \/ at'[l][o] = "error"
        \/ at'[l][o] \in {"scan", "cut", "run"} /\ mine'[l] = Append(mine[l], Event(o, "scheduled", l, 0))
    BY <1>4, <1>6, <2>1 DEF Schedule
  <2> QED BY <1>2, <1>6, <2>2, <2>3 DEF Schedule
<1>7. CASE StepReturns(l, o)
  BY <1>2, <1>3, <1>7 DEF StepReturns
<1>8. CASE StepIsDone(l, o)
  <2>1. journal[Len(mine[l]) + 1] = Event(o, "completed", l, 0)
    BY <1>8 DEF StepIsDone, Copies
  <2>2. mine'[l] = Append(mine[l], Event(o, "completed", l, 0))
    BY <1>1, <1>8, <2>1 DEF StepIsDone
  <2>3. /\ mine[l] \in Seq(Events) /\ Event(o, "completed", l, 0) \in Events
        /\ Event(o, "completed", l, 0).op = o /\ Event(o, "completed", l, 0).kind = "completed"
    BY <1>1, EventTypes DEF Event
  <2>4. Has(mine'[l], o, "completed")
    BY <2>2, <2>3, HasGrows
  <2> QED BY <1>3, <1>8, <2>4 DEF StepIsDone, Succeeded
<1>9. CASE StepFails(l, o)
  BY <1>4, <1>9, EventTypes DEF StepFails
<1>10. CASE Scan(l, o) \/ Scanned(l, o)
  BY <1>2, <1>3, <1>10 DEF Scan, Scanned
<1>11. CASE Consume(l, o)
  <2>1. Event(o, "consumed", l, sig[l][o]) \in Events
    BY EventTypes
  <2>2. /\ mine[l] \in Seq(Events)
        /\ Event(o, "consumed", l, sig[l][o]).op = o /\ Event(o, "consumed", l, sig[l][o]).kind = "consumed"
    BY <1>1 DEF Event
  <2>3. Has(Append(mine[l], Event(o, "consumed", l, sig[l][o])), o, "consumed")
    BY <2>1, <2>2, HasGrows
  <2>4. \/ at'[l][o] = "error"
        \/ at'[l][o] = "mark" /\ mine'[l] = Append(mine[l], Event(o, "consumed", l, sig[l][o]))
    BY <1>4, <1>11, <2>1 DEF Consume
  <2> QED BY <2>3, <2>4
<1>12. CASE MarkConsumed(l, o)
  BY <1>2, <1>3, <1>12 DEF MarkConsumed, Succeeded
<1> QED BY <1>5, <1>6, <1>7, <1>8, <1>9, <1>10, <1>11, <1>12 DEF Task

\* What the driver does never takes anything from what its tasks know: their
\* places change only when they end, and it journals no outcomes.
LEMMA DriverFrame ==
  ASSUME Types, Copies,
         Drive \/ Ensure \/ Stop \/ Crash \/ Signal \/ Cancel
  PROVE  \A l \in Lives, o \in Ops :
           /\ at'[l][o] = at[l][o] \/ at'[l][o] \in {"none", "ready", "gone"}
           /\ at'[l][o] = at[l][o] /\ at[l][o] \notin {"none", "ready", "gone"} =>
                /\ sig'[l][o] = sig[l][o]
                /\ \/ mine'[l] = mine[l]
                   \/ \E e \in Events : /\ e.kind \in {"undone", "closed"}
                                        /\ mine'[l] = Append(mine[l], e)
<1>1. /\ mine \in [Lives -> Seq(Events)] /\ at \in [Lives -> [Ops -> Places]]
      /\ sig \in [Lives -> [Ops -> Signals \cup {0}]]
  BY DEF Types
<1>2. CASE BodyReturns \/ BodyRaises \/ SkipUndone \/ Mark \/ Signal \/ Cancel
  BY <1>2 DEF BodyReturns, BodyRaises, SkipUndone, Mark, Signal, Cancel
<1>3. CASE Undo
  <2>1. life \in Lives /\ Event(Top, "undone", life, 0) \in Events
    BY <1>3, StackFacts, EventTypes DEF Undo, Types, Driving
  <2>2. mine' = mine \/ mine' = [mine EXCEPT ![life] = Append(mine[life], Event(Top, "undone", life, 0))]
    BY <1>1, <1>3, <2>1 DEF Undo, Appended
  <2>3. UNCHANGED <<at, sig>>
    BY <1>3 DEF Undo
  <2>4. Event(Top, "undone", life, 0).kind = "undone"
    BY DEF Event
  <2>5. ASSUME NEW l \in Lives
        PROVE  mine'[l] = mine[l] \/ mine'[l] = Append(mine[l], Event(Top, "undone", life, 0))
    BY <1>1, <2>1, <2>2
  <2> QED BY <2>1, <2>3, <2>4, <2>5
<1>4. CASE Close
  <2>1. life \in Lives /\ Event(0, "closed", life, how) \in Events
    BY <1>4, EventTypes DEF Close, Types, Driving
  <2>2. mine' = mine \/ mine' = [mine EXCEPT ![life] = Append(mine[life], Event(0, "closed", life, how))]
    BY <1>1, <1>4, <2>1 DEF Close, Appended
  <2>3. UNCHANGED <<at, sig>>
    BY <1>4 DEF Close
  <2>4. Event(0, "closed", life, how).kind = "closed"
    BY DEF Event
  <2>5. ASSUME NEW l \in Lives
        PROVE  mine'[l] = mine[l] \/ mine'[l] = Append(mine[l], Event(0, "closed", life, how))
    BY <1>1, <2>1, <2>2
  <2> QED BY <2>1, <2>3, <2>4, <2>5
<1>5. CASE Ensure
  <2>1. life + 1 \in Lives
    BY <1>5 DEF Ensure, Types, Lives
  <2>2. /\ \A k \in Lives : k # life + 1 => mine'[k] = mine[k] /\ at'[k] = at[k]
        /\ \A o \in Ops : at'[life + 1][o] = "ready"
        /\ UNCHANGED sig
    BY <1>1, <1>5, <2>1 DEF Ensure
  <2> QED BY <2>2
<1>6. CASE Stop
  <2>1. \A l \in Lives, o \in Ops : Cut(l)[o] = at[l][o] \/ Cut(l)[o] = "gone"
    BY DEF Cut
  <2>2. UNCHANGED <<mine, sig>> /\ (at' = [at EXCEPT ![life] = Cut(life)] \/ at' = at)
    BY <1>6 DEF Stop
  <2>3. \A l \in Lives : at'[l] = at[l] \/ at'[l] = Cut(l)
    BY <1>1, <2>2
  <2>4. \A l \in Lives, o \in Ops : at'[l][o] = at[l][o] \/ at'[l][o] = "gone"
    BY <2>1, <2>3
  <2> QED BY <2>2, <2>4
<1>7. CASE Crash
  BY <1>7 DEF Crash
<1> QED BY <1>2, <1>3, <1>4, <1>5, <1>6, <1>7 DEF Drive

\* What the places of the tasks say of the copies stays true: an outcome is
\* journaled by the task of its operation, which then moves on.
LEMMA TasksKnowStep ==
  ASSUME Types, Copies, TasksKnow, Next
  PROVE  TasksKnow'
<1> USE DEF Knows, Working
<1>1. mine \in [Lives -> Seq(Events)]
  BY DEF Types
<1>2. SUFFICES ASSUME NEW k \in Lives, NEW p \in Ops PROVE Knows(k, p)'
  BY DEF TasksKnow
<1>3. Knows(k, p)
  BY DEF TasksKnow
<1>4. CASE \E l \in Lives, o \in Ops : Task(l, o)
  <2> PICK l \in Lives, o \in Ops : Task(l, o)
    BY <1>4
  <2>1. CASE k = l /\ p = o
    BY <2>1, TaskKnows
  <2>2. CASE k # l
    BY <1>3, <2>2, TaskFrame
  <2>3. CASE k = l /\ p # o
    <3>1. at'[k][p] = at[k][p]
      BY <2>3, TaskFrame
    <3>2. CASE mine'[l] = mine[l]
      BY <1>3, <2>3, <3>1, <3>2
    <3>3. CASE \E e \in Events : e.op = o /\ e.life = l /\ mine'[l] = Append(mine[l], e)
      <4> PICK e \in Events : e.op = o /\ mine'[l] = Append(mine[l], e)
        BY <3>3
      <4>1. mine[l] \in Seq(Events) /\ (e.op # p \/ e.kind \notin {"completed", "failed", "consumed"})
        BY <1>1, <2>3
      <4>2. /\ Outcome(mine'[l], p) <=> Outcome(mine[l], p)
            /\ Succeeded(mine'[l], p) <=> Succeeded(mine[l], p)
            /\ Has(mine'[l], p, "consumed") <=> Has(mine[l], p, "consumed")
        BY <4>1, OutcomeStays
      <4> QED BY <1>3, <2>3, <3>1, <4>2
    <3> QED BY <3>2, <3>3, TaskFrame
  <2> QED BY <2>1, <2>2, <2>3
<1>5. CASE Drive \/ Ensure \/ Stop \/ Crash \/ Signal \/ Cancel
  <2>1. CASE at'[k][p] \in {"none", "ready", "gone"}
    BY <2>1
  <2>2. CASE at'[k][p] \notin {"none", "ready", "gone"}
    <3>1. at'[k][p] = at[k][p]
      BY <1>5, <2>2, DriverFrame
    <3>2. CASE mine'[k] = mine[k]
      BY <1>3, <3>1, <3>2
    <3>3. CASE \E e \in Events : e.kind \in {"undone", "closed"} /\ mine'[k] = Append(mine[k], e)
      <4> PICK e \in Events : e.kind \in {"undone", "closed"} /\ mine'[k] = Append(mine[k], e)
        BY <3>3
      <4>1. mine[k] \in Seq(Events) /\ (e.op # p \/ e.kind \notin {"completed", "failed", "consumed"})
        BY <1>1
      <4>2. /\ Outcome(mine'[k], p) <=> Outcome(mine[k], p)
            /\ Succeeded(mine'[k], p) <=> Succeeded(mine[k], p)
            /\ Has(mine'[k], p, "consumed") <=> Has(mine[k], p, "consumed")
        BY <4>1, OutcomeStays
      <4> QED BY <1>3, <3>1, <4>2
    <3> QED BY <1>5, <2>2, <3>1, <3>2, <3>3, DriverFrame
  <2> QED BY <2>1, <2>2
<1> QED BY <1>4, <1>5 DEF Next

\* What a task has found was not consumed by an earlier driver.
FoundNew(l, o) ==
  /\ at[l][o] = "take" => sig[l][o] # 0
  /\ at[l][o] \in {"seen", "take"} /\ sig[l][o] # 0 =>
       \A n \in 1..Len(mine[l]) :
         mine[l][n].kind = "consumed" /\ mine[l][n].with = sig[l][o] => mine[l][n].life = l

\* A signal that was unread when it was found can be taken only by a task of
\* the same life: no other journals into that copy.
LEMMA FoundStep ==
  ASSUME Types, Copies, Found, Next
  PROVE  Found'
<1> USE DEF FoundNew
<1>1. /\ mine \in [Lives -> Seq(Events)] /\ at \in [Lives -> [Ops -> Places]]
      /\ sig \in [Lives -> [Ops -> Signals \cup {0}]]
  BY DEF Types
<1>2. SUFFICES ASSUME NEW k \in Lives, NEW p \in Ops PROVE FoundNew(k, p)'
  BY DEF Found
<1>3. FoundNew(k, p)
  BY DEF Found
<1>4. ASSUME NEW e \in Events, e.life = k \/ e.kind # "consumed", mine'[k] = Append(mine[k], e),
             at'[k][p] = at[k][p], sig'[k][p] = sig[k][p]
      PROVE  FoundNew(k, p)'
  <2>1. /\ Len(mine'[k]) = Len(mine[k]) + 1 /\ Len(mine[k]) \in Nat
        /\ \A i \in 1..Len(mine[k]) : mine'[k][i] = mine[k][i]
        /\ mine'[k][Len(mine[k]) + 1] = e
    BY <1>1, <1>4, AppendProperties, LenProperties
  <2> QED BY <1>3, <1>4, <2>1
<1>5. CASE \E l \in Lives, o \in Ops : Task(l, o)
  <2> PICK l \in Lives, o \in Ops : Task(l, o)
    BY <1>5
  <2>1. CASE k = l /\ p = o
    <3>1. CASE Scan(l, o)
      <4>1. at'[l][o] = "seen" /\ sig'[l][o] = First(l) /\ mine'[l] = mine[l]
        BY <1>1, <3>1 DEF Scan, Go
      <4>2. First(l) # 0 => First(l) \notin Taken(mine[l])
        BY FirstIsUnread DEF Types
      <4> QED BY <2>1, <4>1, <4>2 DEF Taken
    <3>2. CASE Scanned(l, o)
      BY <1>1, <1>3, <2>1, <3>2 DEF Scanned, Go
    <3>3. CASE ~Scan(l, o) /\ ~Scanned(l, o)
      <4>1. at'[l][o] \notin {"seen", "take"}
        BY <1>1, <3>3 DEF Task, Replay, Begin, Schedule, StepReturns, StepIsDone, StepFails,
             Consume, MarkConsumed, AppendThen, Go
      <4> QED BY <2>1, <4>1
    <3> QED BY <3>1, <3>2, <3>3
  <2>2. CASE k # l
    BY <1>3, <2>2, TaskFrame
  <2>3. CASE k = l /\ p # o
    <3>1. at'[k][p] = at[k][p] /\ sig'[k][p] = sig[k][p]
      BY <2>3, TaskFrame
    <3>2. CASE mine'[l] = mine[l]
      BY <1>3, <2>3, <3>1, <3>2
    <3>3. CASE \E e \in Events : e.op = o /\ e.life = l /\ mine'[l] = Append(mine[l], e)
      BY <1>4, <2>3, <3>1, <3>3
    <3> QED BY <3>2, <3>3, TaskFrame
  <2> QED BY <2>1, <2>2, <2>3
<1>6. CASE Drive \/ Ensure \/ Stop \/ Crash \/ Signal \/ Cancel
  <2>1. CASE at'[k][p] \in {"none", "ready", "gone"}
    BY <2>1
  <2>2. CASE at'[k][p] \notin {"none", "ready", "gone"}
    <3>1. /\ at'[k][p] = at[k][p] /\ sig'[k][p] = sig[k][p]
          /\ \/ mine'[k] = mine[k]
             \/ \E e \in Events : /\ e.kind \in {"undone", "closed"}
                                  /\ mine'[k] = Append(mine[k], e)
      BY <1>6, <2>2, DriverFrame
    <3> QED BY <1>3, <1>4, <3>1
  <2> QED BY <2>1, <2>2
<1> QED BY <1>5, <1>6 DEF Next

-----------------------------------------------------------------------------
(* What the driver owes *)

\* What is journaled in a life adds nothing to what earlier ones completed.
LEMMA EarlierStays ==
  ASSUME NEW s \in Seq(Events), NEW e \in Events, NEW p, NEW l \in Lives,
         e.life = l \/ e.kind # "completed"
  PROVE  Earlier(Append(s, e), p, l) <=> Earlier(s, p, l)
<1>1. /\ Len(Append(s, e)) = Len(s) + 1 /\ Len(s) \in Nat
      /\ \A i \in 1..Len(s) : Append(s, e)[i] = s[i]
      /\ Append(s, e)[Len(s) + 1] = e
  BY AppendProperties, LenProperties
<1>2. ~ (e.life < l /\ e.kind = "completed")
  BY DEF Lives
<1> QED BY <1>1, <1>2 DEF Earlier

\* A step of a task changes the stack only to register its compensation, and
\* nothing of what its driver, if it has one, knows of earlier completions.
LEMMA TaskOwes ==
  ASSUME Types, Copies, NEW l \in Lives, NEW o \in Ops, Task(l, o)
  PROVE  /\ stack' = stack \/ (pc = "gather" /\ stack' = Append(stack, o))
         /\ life \in Lives =>
              \A p \in Ops : /\ Earlier(mine'[life], p, life) <=> Earlier(mine[life], p, life)
                             /\ Has(mine[life], p, "undone") => Has(mine'[life], p, "undone")
                             /\ Succeeded(mine[life], p) => Succeeded(mine'[life], p)
<1>1. mine \in [Lives -> Seq(Events)]
  BY DEF Types
<1>2. stack' = stack \/ (pc = "gather" /\ stack' = Append(stack, o))
  BY DEF Task, Replay, Begin, Schedule, StepReturns, StepIsDone, StepFails, Scan, Scanned,
         Consume, MarkConsumed, Register
<1>3. ASSUME life \in Lives, NEW p \in Ops
      PROVE  /\ Earlier(mine'[life], p, life) <=> Earlier(mine[life], p, life)
             /\ Has(mine[life], p, "undone") => Has(mine'[life], p, "undone")
             /\ Succeeded(mine[life], p) => Succeeded(mine'[life], p)
  <2>1. CASE mine'[life] = mine[life]
    BY <2>1
  <2>2. CASE \E e \in Events : e.life = life /\ mine'[life] = Append(mine[life], e)
    <3> PICK e \in Events : e.life = life /\ mine'[life] = Append(mine[life], e)
      BY <2>2
    <3>1. mine[life] \in Seq(Events)
      BY <1>1, <1>3
    <3> QED BY <1>3, <3>1, EarlierStays, HasGrows DEF Succeeded
  <2> QED BY <1>3, <2>1, <2>2, TaskFrame
<1> QED BY <1>2, <1>3

Owes(o) ==
  /\ pc = "gather" => at[life][o] = "ready" \/ OnStack(o)
  /\ pc = "finish" /\ how # "COMPLETED" => OnStack(o) \/ Has(mine[life], o, "undone")

\* No completion by an earlier driver is forgotten: its task is yet to be
\* replayed, or the compensation is on the stack, or done.
LEMMA DueStep ==
  ASSUME Types, Copies, Due, Next
  PROVE  Due'
<1> USE DEF Owes
<1>1. /\ mine \in [Lives -> Seq(Events)] /\ at \in [Lives -> [Ops -> Places]] /\ stack \in Seq(Ops)
  BY DEF Types
<1>2. SUFFICES ASSUME Driving', NEW p \in Ops, Earlier(mine'[life'], p, life') PROVE Owes(p)'
  BY DEF Due
<1>3. CASE \E l \in Lives, o \in Ops : Task(l, o)
  <2> PICK l \in Lives, o \in Ops : Task(l, o)
    BY <1>3
  <2>1. /\ UNCHANGED driver /\ Driving /\ life \in Lives
    BY <1>2, TaskFrame DEF Driving, driver, Types
  <2>2. Owes(p) /\ Earlier(mine[life], p, life)
    BY <1>2, <2>1, TaskOwes DEF Due, driver
  <2>3. OnStack(p) => OnStack(p)'
    <3>1. /\ Len(Append(stack, o)) = Len(stack) + 1 /\ Len(stack) \in Nat
          /\ \A i \in 1..Len(stack) : Append(stack, o)[i] = stack[i]
      BY <1>1, AppendProperties, LenProperties
    <3> QED BY <3>1, TaskOwes DEF OnStack
  <2>4. CASE pc = "gather"
    <3>1. CASE l = life /\ o = p /\ at[life][p] = "ready"
      <4>1. Has(mine[life], p, "completed")
        BY <2>2 DEF Earlier, Has
      <4>2. Replay(l, o)
        BY <3>1, <4>1 DEF Task, Begin, Schedule, StepReturns, StepIsDone, StepFails, Scan, Scanned,
             Consume, MarkConsumed, Outcome
      <4>3. stack' = Append(stack, p)
        BY <2>4, <3>1, <4>1, <4>2 DEF Replay, Register
      <4>4. OnStack(p)'
        BY <1>1, <4>3, AppendProperties, LenProperties DEF OnStack
      <4> QED BY <2>1, <2>4, <4>4 DEF driver
    <3>2. CASE ~(l = life /\ o = p) /\ at[life][p] = "ready"
      <4>1. at'[life][p] = "ready"
        BY <2>1, <3>2, TaskFrame
      <4> QED BY <2>1, <2>4, <4>1 DEF driver
    <3>3. CASE OnStack(p)
      BY <2>1, <2>3, <2>4, <3>3 DEF driver
    <3> QED BY <2>2, <2>4, <3>1, <3>2, <3>3
  <2>5. CASE pc # "gather"
    BY <2>1, <2>2, <2>3, <2>5, TaskOwes DEF driver
  <2> QED BY <2>4, <2>5
<1>4. CASE BodyReturns
  BY <1>4 DEF BodyReturns
<1>5. CASE BodyRaises
  <2>1. OnStack(p)
    BY <1>2, <1>5 DEF BodyRaises, Told, Tasks, Due, Driving
  <2> QED BY <1>5, <2>1 DEF BodyRaises, OnStack
<1>6. CASE SkipUndone
  <2>1. Owes(p) /\ UNCHANGED <<pc, how, life, mine>> /\ stack' = Front(stack) /\ stack # <<>>
    BY <1>2, <1>6 DEF SkipUndone, Due, Driving, driver
  <2>2. OnStack(p) => OnStack(p)' \/ p = Top
    BY <2>1, StackFacts DEF OnStack
  <2> QED BY <1>6, <2>1, <2>2 DEF SkipUndone
<1>7. CASE Undo
  <2>1. CASE Over
    BY <1>2, <2>1 DEF Over, Driving
  <2>2. CASE ~Over
    <3> DEFINE e == Event(Top, "undone", life, 0)
    <3>1. /\ life \in Lives /\ stack # <<>> /\ Top \in Ops /\ e \in Events
      BY <1>7, StackFacts, EventTypes DEF Undo, Types, Driving
    <3>2. /\ pc = "finish" /\ UNCHANGED <<pc, how, life>> /\ stack' = Front(stack)
          /\ mine'[life] = Append(mine[life], e)
      BY <1>1, <1>7, <2>2, <3>1 DEF Undo, Appended, driver
    <3>3. Earlier(mine[life], p, life)
      BY <1>1, <1>2, <3>1, <3>2, EarlierStays DEF Event
    <3>4. \A o : Has(mine'[life], o, "undone") <=> Has(mine[life], o, "undone") \/ o = Top
      BY <1>1, <3>1, <3>2, HasGrows DEF Event
    <3>5. how # "COMPLETED" => OnStack(p) \/ Has(mine[life], p, "undone")
      BY <3>2, <3>3 DEF Due, Driving
    <3>6. OnStack(p) => OnStack(p)' \/ p = Top
      BY <3>1, <3>2, StackFacts DEF OnStack
    <3> QED BY <3>2, <3>4, <3>5, <3>6
  <2> QED BY <2>1, <2>2
<1>8. CASE Close \/ Mark
  BY <1>2, <1>8 DEF Close, Mark, Over, Driving
<1>9. CASE Ensure
  <2>1. life' = life + 1 /\ life + 1 \in Lives /\ pc' = "gather"
        /\ at' = [at EXCEPT ![life + 1] = [o \in Ops |-> "ready"]]
    BY <1>9 DEF Ensure, Types, Lives
  <2>2. at'[life'][p] = "ready"
    BY <1>1, <2>1
  <2> QED BY <2>1, <2>2
<1>10. CASE Stop \/ Crash
  BY <1>2, <1>10 DEF Stop, Crash, Over, Driving
<1>11. CASE Signal \/ Cancel
  BY <1>2, <1>11 DEF Signal, Cancel, Due, Driving, driver, OnStack
<1> QED BY <1>3, <1>4, <1>5, <1>6, <1>7, <1>8, <1>9, <1>10, <1>11 DEF Next, Drive

\* The driver that is to complete the run has seen every operation succeed.
LEMMA CompleteStep ==
  ASSUME Types, Copies, TasksKnow, Complete, Next
  PROVE  Complete'
<1>1. mine \in [Lives -> Seq(Events)]
  BY DEF Types
<1>2. SUFFICES ASSUME pc' \in {"finish", "mark"}, how' = "COMPLETED", NEW p \in Ops
               PROVE  Succeeded(mine'[life'], p)
  BY DEF Complete
<1>3. CASE \E l \in Lives, o \in Ops : Task(l, o)
  <2> PICK l \in Lives, o \in Ops : Task(l, o)
    BY <1>3
  <2>1. UNCHANGED <<pc, how, life>> /\ life \in Lives
    BY <1>2, TaskFrame DEF driver, Types, Driving
  <2> QED BY <1>2, <2>1, TaskOwes DEF Complete
<1>4. CASE BodyReturns
  BY <1>4 DEF BodyReturns, AllReturned, TasksKnow, Types, Driving
<1>5. CASE SkipUndone \/ Signal \/ Cancel
  BY <1>2, <1>5 DEF SkipUndone, Signal, Cancel, driver, Complete
<1>6. CASE Undo \/ Close
  <2>1. CASE Over
    BY <1>2, <2>1 DEF Over
  <2>2. CASE ~Over
    <3>1. pc = "finish" /\ UNCHANGED <<how, life>> /\ life \in Lives
      BY <1>6, <2>2 DEF Undo, Close, driver, Types, Driving
    <3>2. Succeeded(mine[life], p)
      BY <1>2, <3>1 DEF Complete
    <3>3. /\ stack # <<>> => Event(Top, "undone", life, 0) \in Events
          /\ Event(0, "closed", life, how) \in Events
      BY <1>2, <3>1, StackFacts, EventTypes
    <3>4. mine' = mine \/ \E e \in Events : Appended(life, e)
      BY <1>6, <2>2, <3>3 DEF Undo, Close
    <3>5. mine'[life] = mine[life] \/ \E e \in Events : mine'[life] = Append(mine[life], e)
      BY <1>1, <3>1, <3>4 DEF Appended
    <3>6. mine[life] \in Seq(Events)
      BY <1>1, <3>1
    <3>7. Succeeded(mine'[life], p)
      <4>1. CASE mine'[life] = mine[life]
        BY <3>2, <4>1
      <4>2. CASE \E e \in Events : mine'[life] = Append(mine[life], e)
        <5> PICK e \in Events : mine'[life] = Append(mine[life], e)
          BY <4>2
        <5> QED BY <3>2, <3>6, HasGrows DEF Succeeded
      <4> QED BY <3>5, <4>1, <4>2
    <3> QED BY <3>1, <3>7
  <2> QED BY <2>1, <2>2
<1>7. CASE BodyRaises
  BY <1>2, <1>7 DEF BodyRaises
<1>8. CASE Mark \/ Ensure \/ Stop \/ Crash
  BY <1>2, <1>8 DEF Mark, Ensure, Stop, Crash, Over
<1> QED BY <1>3, <1>4, <1>5, <1>6, <1>7, <1>8 DEF Next, Drive

-----------------------------------------------------------------------------
(* The journal *)

\* What may follow s: a first outcome of its operation, a signal that no
\* earlier driver has consumed, an unsuccessful end with nothing left to undo.
Proper(s, e) ==
  /\ e.kind \in {"completed", "failed", "consumed"} => ~Outcome(s, e.op)
  /\ e.kind = "consumed" =>
       \A n \in 1..Len(s) : s[n].kind = "consumed" /\ s[n].with = e.with => s[n].life = e.life
  /\ Unsuccessful(e) => \A o \in Ops : Earlier(s, o, e.life) => Has(s, o, "undone")

\* A step journals nothing, or an event that may follow.
LEMMA JournalGrows ==
  ASSUME Types, Copies, TasksKnow, Found, Due, Next
  PROVE  \/ journal' = journal
         \/ \E e \in Events : Proper(journal, e) /\ journal' = Append(journal, e)
<1>1. mine \in [Lives -> Seq(Events)] /\ at \in [Lives -> [Ops -> Places]]
  BY DEF Types
<1>2. ASSUME NEW l \in Lives, NEW e \in Events, Appended(l, e), Proper(mine[l], e)
      PROVE  Proper(journal, e) /\ journal' = Append(journal, e)
  BY <1>2, AppendFacts
<1>3. ASSUME NEW l \in Lives, NEW o \in Ops, Task(l, o)
      PROVE  \/ journal' = journal
             \/ \E e \in Events : Proper(journal, e) /\ journal' = Append(journal, e)
  <2>1. CASE Replay(l, o) \/ Begin(l, o) \/ Scan(l, o) \/ Scanned(l, o) \/ MarkConsumed(l, o)
             \/ StepIsDone(l, o)
    BY <2>1 DEF Replay, Begin, Scan, Scanned, MarkConsumed, StepIsDone
  <2>2. CASE Schedule(l, o)
    <3> DEFINE e == Event(o, "scheduled", l, 0)
    <3>1. e \in Events
      BY EventTypes
    <3>2. Proper(mine[l], e)
      BY DEF Proper, Event, Unsuccessful
    <3> QED BY <1>2, <2>2, <3>1, <3>2 DEF Schedule, AppendThen
  <2>3. CASE StepFails(l, o)
    <3> DEFINE e == Event(o, "failed", l, 0)
    <3>1. e \in Events
      BY EventTypes
    <3>2. ~Outcome(mine[l], o)
      BY <2>3 DEF StepFails, TasksKnow, Working
    <3>3. Proper(mine[l], e)
      BY <3>2 DEF Proper, Event, Unsuccessful
    <3> QED BY <1>2, <2>3, <3>1, <3>3 DEF StepFails, AppendThen
  <2>4. CASE Consume(l, o)
    <3> DEFINE e == Event(o, "consumed", l, sig[l][o])
    <3>1. e \in Events
      BY EventTypes
    <3>2. ~Outcome(mine[l], o)
      BY <2>4 DEF Consume, TasksKnow, Working
    <3>3. \A n \in 1..Len(mine[l]) :
            mine[l][n].kind = "consumed" /\ mine[l][n].with = sig[l][o] => mine[l][n].life = l
      BY <2>4 DEF Consume, Found
    <3>4. Proper(mine[l], e)
      BY <3>2, <3>3 DEF Proper, Event, Unsuccessful
    <3> QED BY <1>2, <2>4, <3>1, <3>4 DEF Consume, AppendThen
  <2>5. CASE StepReturns(l, o)
    <3> DEFINE e == Event(o, "completed", l, 0)
    <3>1. e \in Events
      BY EventTypes
    <3>2. ~Outcome(mine[l], o)
      BY <2>5 DEF StepReturns, TasksKnow, Working
    <3>3. Proper(mine[l], e)
      BY <3>2 DEF Proper, Event, Unsuccessful
    <3>4. CASE Refused(l)
      BY <2>5, <3>4 DEF StepReturns
    <3>5. CASE ~Refused(l)
      <4>1. mine[l] = journal
        BY <1>1, <3>5, WholeBeginning DEF Types, Copies, Refused
      <4>2. journal' = Append(journal, e)
        BY <2>5, <3>5 DEF StepReturns
      <4> QED BY <3>1, <3>3, <4>1, <4>2
    <3> QED BY <3>4, <3>5
  <2> QED BY <1>3, <2>1, <2>2, <2>3, <2>4, <2>5 DEF Task
<1>4. CASE Undo
  <2> DEFINE e == Event(Top, "undone", life, 0)
  <2>1. life \in Lives /\ e \in Events
    BY <1>4, StackFacts, EventTypes DEF Undo, Types, Driving
  <2>2. Proper(mine[life], e)
    BY DEF Proper, Event, Unsuccessful
  <2> QED BY <1>2, <1>4, <2>1, <2>2 DEF Undo
<1>5. CASE Close
  <2> DEFINE e == Event(0, "closed", life, how)
  <2>1. life \in Lives /\ e \in Events
    BY <1>5, EventTypes DEF Close, Types, Driving
  <2>2. \A o \in Ops : ~OnStack(o)
    BY <1>5 DEF Close, OnStack
  <2>3. how # "COMPLETED" =>
          \A o \in Ops : Earlier(mine[life], o, life) => Has(mine[life], o, "undone")
    BY <1>5, <2>2 DEF Close, Due, Driving
  <2>4. Proper(mine[life], e)
    BY <2>3 DEF Proper, Event, Unsuccessful
  <2> QED BY <1>2, <1>5, <2>1, <2>4 DEF Close
<1>6. CASE BodyReturns \/ BodyRaises \/ SkipUndone \/ Mark \/ Ensure \/ Stop \/ Crash \/ Signal \/ Cancel
  BY <1>6 DEF BodyReturns, BodyRaises, SkipUndone, Mark, Ensure, Stop, Crash, Signal, Cancel
<1> QED BY <1>3, <1>4, <1>5, <1>6 DEF Next, Drive

\* Every step keeps the outcomes single.
LEMMA OneOutcomeStep ==
  ASSUME Types, Copies, TasksKnow, Found, Due, Complete, OneOutcome, Next
  PROVE  OneOutcome'
<1>1. journal \in Seq(Events) /\ mine \in [Lives -> Seq(Events)]
  BY DEF Types
<1>2. \A o \in Ops : Succeeded(journal, o) => Succeeded(journal', o)
  <2>1. CASE journal' = journal
    BY <2>1
  <2>2. ASSUME NEW e \in Events, journal' = Append(journal, e)
        PROVE  \A o \in Ops : Succeeded(journal, o) => Succeeded(journal', o)
    BY <1>1, <2>2, HasGrows DEF Succeeded
  <2> QED BY <2>1, <2>2, JournalGrows
<1>3. ASSUME NEW m \in Outcomes', NEW n \in Outcomes', journal'[m].op = journal'[n].op
      PROVE  m = n
  <2>1. CASE journal' = journal
    BY <1>3, <2>1 DEF OneOutcome, Outcomes
  <2>2. ASSUME NEW e \in Events, Proper(journal, e), journal' = Append(journal, e)
        PROVE  m = n
    <3>1. /\ Len(journal') = Len(journal) + 1 /\ Len(journal) \in Nat
          /\ \A i \in 1..Len(journal) : journal'[i] = journal[i]
          /\ journal'[Len(journal) + 1] = e
      BY <1>1, <2>2, AppendProperties, LenProperties
    <3>2. ASSUME NEW i \in Outcomes', i \in 1..Len(journal), e.kind \in {"completed", "failed", "consumed"}
          PROVE  journal'[i].op # e.op
      BY <2>2, <3>1, <3>2 DEF Proper, Outcome, Has, Outcomes
    <3>3. CASE m \in 1..Len(journal) /\ n \in 1..Len(journal)
      BY <1>3, <3>1, <3>3 DEF OneOutcome, Outcomes
    <3>4. CASE ~(m \in 1..Len(journal) /\ n \in 1..Len(journal))
      <4>1. \A i \in Outcomes' : \/ i \in 1..Len(journal)
                                 \/ i = Len(journal) + 1 /\ e.kind \in {"completed", "failed", "consumed"}
        BY <3>1 DEF Outcomes
      <4> QED BY <1>3, <3>1, <3>2, <3>4, <4>1
    <3> QED BY <3>3, <3>4
  <2> QED BY <2>1, <2>2, JournalGrows
<1>4. ASSUME status' = "COMPLETED", NEW o \in Ops PROVE Succeeded(journal', o)
  <2>1. CASE status' = status
    BY <1>2, <1>4, <2>1 DEF OneOutcome
  <2>2. CASE status' # status
    <3>1. Mark
      BY <2>2, TaskFrame DEF Next, Drive, BodyReturns, BodyRaises, SkipUndone, Undo, Close, Ensure,
         Stop, Crash, Signal, Cancel, store
    <3>2. life \in Lives /\ Succeeded(mine[life], o)
      BY <1>4, <3>1 DEF Mark, Complete, Types, Driving
    <3>3. Succeeded(journal, o)
      BY <1>1, <3>2, BeginningHas DEF Succeeded, Copies
    <3> QED BY <1>2, <3>3
  <2> QED BY <2>1, <2>2
<1> QED BY <1>3, <1>4 DEF OneOutcome

\* No step consumes a signal that another life has consumed.
LEMMA NotConsumedAgainStep ==
  ASSUME Types, Copies, TasksKnow, Found, Due, NotConsumedAgain, Next
  PROVE  NotConsumedAgain'
<1>1. journal \in Seq(Events)
  BY DEF Types
<1>2. SUFFICES ASSUME NEW m \in Outcomes', NEW n \in Outcomes',
                      journal'[m].kind = "consumed", journal'[n].kind = "consumed",
                      journal'[m].with = journal'[n].with
               PROVE  journal'[m].life = journal'[n].life
  BY DEF NotConsumedAgain
<1>3. CASE journal' = journal
  BY <1>2, <1>3 DEF NotConsumedAgain, Outcomes
<1>4. ASSUME NEW e \in Events, Proper(journal, e), journal' = Append(journal, e)
      PROVE  journal'[m].life = journal'[n].life
  <2>1. /\ Len(journal') = Len(journal) + 1 /\ Len(journal) \in Nat
        /\ \A i \in 1..Len(journal) : journal'[i] = journal[i]
        /\ journal'[Len(journal) + 1] = e
    BY <1>1, <1>4, AppendProperties, LenProperties
  <2>2. \A i \in Outcomes' : \/ i \in Outcomes /\ i \in 1..Len(journal) /\ journal'[i] = journal[i]
                             \/ journal'[i] = e
    BY <2>1 DEF Outcomes
  <2> QED BY <1>2, <1>4, <2>2 DEF NotConsumedAgain, Proper
<1> QED BY <1>3, <1>4, JournalGrows

\* No step closes the run with earlier work left to undo.
LEMMA ReplayedIsUndoneStep ==
  ASSUME Types, Copies, TasksKnow, Found, Due, ReplayedIsUndone, Next
  PROVE  ReplayedIsUndone'
<1>1. journal \in Seq(Events)
  BY DEF Types
<1>2. SUFFICES ASSUME NEW n \in 1..Len(journal'), Unsuccessful(journal'[n]),
                      NEW m \in 1..Len(journal'), m < n, journal'[m].kind = "completed",
                      journal'[m].life < journal'[n].life
               PROVE  \E k \in 1..(n - 1) : journal'[k].op = journal'[m].op /\ journal'[k].kind = "undone"
  BY DEF ReplayedIsUndone, Owed, UndoneBefore
<1>3. CASE journal' = journal
  BY <1>2, <1>3 DEF ReplayedIsUndone, Owed, UndoneBefore
<1>4. ASSUME NEW e \in Events, Proper(journal, e), journal' = Append(journal, e)
      PROVE  \E k \in 1..(n - 1) : journal'[k].op = journal'[m].op /\ journal'[k].kind = "undone"
  <2>1. /\ Len(journal') = Len(journal) + 1 /\ Len(journal) \in Nat
        /\ \A i \in 1..Len(journal) : journal'[i] = journal[i]
        /\ journal'[Len(journal) + 1] = e
    BY <1>1, <1>4, AppendProperties, LenProperties
  <2>2. m \in 1..Len(journal) /\ journal'[m] = journal[m]
    BY <1>2, <2>1
  <2>3. CASE n \in 1..Len(journal)
    <3>1. \E k \in 1..(n - 1) : journal[k].op = journal[m].op /\ journal[k].kind = "undone"
      BY <1>2, <2>1, <2>2, <2>3 DEF ReplayedIsUndone, Owed, UndoneBefore
    <3> QED BY <2>1, <2>2, <2>3, <3>1
  <2>4. CASE n = Len(journal) + 1
    <3> DEFINE o == journal[m].op
    <3>1. o \in Ops
      <4>1. journal[m] \in Events /\ journal[m].kind = "completed"
        BY <1>1, <1>2, <2>2, ElementOfSeq
      <4> QED BY <4>1 DEF Events, Work, Closings
    <3>2. Earlier(journal, o, e.life) /\ Unsuccessful(e)
      BY <1>2, <2>1, <2>2, <2>4 DEF Earlier
    <3>3. Has(journal, o, "undone")
      BY <1>4, <3>1, <3>2 DEF Proper
    <3> QED BY <2>1, <2>2, <2>4, <3>3 DEF Has
  <2> QED BY <1>2, <2>1, <2>3, <2>4
<1> QED BY <1>3, <1>4, JournalGrows

-----------------------------------------------------------------------------
(* Theorems *)

\* The invariant holds before the first driver.
LEMMA IInvInitially == Init => IInv
<1> SUFFICES ASSUME Init PROVE IInv
  OBVIOUS
<1>1. /\ journal = <<>> /\ stack = <<>> /\ pc = "over" /\ status = "RUNNING"
      /\ \A l \in Lives : mine[l] = <<>> /\ \A o \in Ops : at[l][o] = "none"
  BY DEF Init
<1>2. Types
  BY EmptySeq DEF Init, Types, Driving, Places, Signals
<1>3. Len(journal) = 0 /\ \A l \in Lives : Len(mine[l]) = 0
  BY <1>1, EmptySeq
<1>4. Copies
  BY <1>1, <1>3 DEF Copies, Begins
<1>5. TasksKnow /\ Found /\ Due /\ Complete
  BY <1>1 DEF TasksKnow, Found, Due, Complete, Working, Driving
<1>6. OneOutcome /\ NotConsumedAgain /\ ReplayedIsUndone
  BY <1>1, <1>3 DEF OneOutcome, NotConsumedAgain, ReplayedIsUndone, Outcomes
<1> QED BY <1>2, <1>4, <1>5, <1>6 DEF IInv

\* Every step keeps the invariant.
LEMMA IInvStays == IInv /\ [Next]_vars => IInv'
<1>1. ASSUME IInv, Next PROVE IInv'
  BY <1>1, TypesStep, CopiesStep, TasksKnowStep, FoundStep, DueStep, CompleteStep,
     OneOutcomeStep, NotConsumedAgainStep, ReplayedIsUndoneStep DEF IInv
<1>2. ASSUME IInv, UNCHANGED vars PROVE IInv'
  <2>1. UNCHANGED <<status, sent, journal, life, pc, how, why, stack, mine, at, sig>>
    BY <1>2 DEF vars, store, driver
  <2>2. Types' /\ Copies' /\ TasksKnow' /\ Found'
    BY <1>2, <2>1 DEF IInv, Types, Copies, TasksKnow, Found, Driving, Unlocked
  <2>3. Due' /\ Complete'
    BY <1>2, <2>1 DEF IInv, Due, Complete, Driving, OnStack
  <2>4. OneOutcome' /\ NotConsumedAgain' /\ ReplayedIsUndone'
    BY <1>2, <2>1 DEF IInv, OneOutcome, NotConsumedAgain, ReplayedIsUndone, Outcomes, Owed, UndoneBefore
  <2> QED BY <2>2, <2>3, <2>4 DEF IInv
<1> QED BY <1>1, <1>2

\* The inductive invariant: what drivers and tasks know is part of the journal,
\* and the journal is in order.
THEOREM Inductive == Spec => []IInv
BY IInvInitially, IInvStays, PTL DEF Spec

\* Whatever tasks earlier drivers have left behind, no operation gets a second
\* outcome, and a run that completes has seen all of its operations succeed.
THEOREM OutcomesAreFinal == Spec => []OneOutcome
<1>1. IInv => OneOutcome
  BY DEF IInv
<1> QED BY <1>1, Inductive, PTL

\* A signal that the journal has as consumed is not consumed in another life:
\* a driver's copy has every consumption by an earlier one that could still
\* come before its own (_next_unconsumed_signal's exclusion and the primary key
\* of the journal).
THEOREM ConsumptionsAreFinal == Spec => []NotConsumedAgain
<1>1. IInv => NotConsumedAgain
  BY DEF IInv
<1> QED BY <1>1, Inductive, PTL

\* No driver closes a failed or cancelled run before it has undone all that
\* earlier drivers had completed (gather, _run_compensations).
THEOREM EarlierWorkIsUndone == Spec => []ReplayedIsUndone
<1>1. IInv => ReplayedIsUndone
  BY DEF IInv
<1> QED BY <1>1, Inductive, PTL

=============================================================================
