--------------------------- MODULE ChildTreeProofs ---------------------------
(***************************************************************************)
(* What a parent and its child may rely on, for any number of workers,     *)
(* crashes, shutdowns, lapses, stale records and cancellations: the parent *)
(* journals what became of the child, leaves none behind that runs on      *)
(* unasked, and the spans of both make one trace; with the exceptions that *)
(* the properties name.                                                    *)
(***************************************************************************)
EXTENDS ChildTree, SequenceTheorems, TLAPS

USE ChildTreeAssumption DEF ChildTreeAssumption

-----------------------------------------------------------------------------
(* The inductive invariant *)

Terminal == {"RUN_COMPLETED", "RUN_FAILED", "RUN_CANCELLED"}

Kinds == Terminal \cup {"RUN_STARTED", "STEP_COMPLETED", "CHILD_SCHEDULED", "CHILD_COMPLETED",
                        "CHILD_FAILED", "COMP_COMPLETED"}

KindsOf(r) ==
  IF r = "c" THEN Kinds \ {"CHILD_SCHEDULED", "CHILD_COMPLETED", "CHILD_FAILED"}
             ELSE Kinds \ {"STEP_COMPLETED"}

Places(r) ==
  {"down", "start", "body", "cancelled"} \cup Final \cup
  IF r = "c" THEN {"step"} ELSE {"attach", "await", "stopping", "propagate", "failed"}

News == {"none", "RUNNING", "task", "follow", "stopped", "error"} \cup Final

Span == [open : SUBSET Runs, pending : SUBSET Runs, traced : SUBSET Runs, alone : SUBSET Runs,
         known : SUBSET Runs]

AnyPlace == Places("c") \cup Places("p")

States == [pc : AnyPlace, mine : Seq(Kinds), flag : BOOLEAN, beats : BOOLEAN, news : News,
           asked : BOOLEAN]

Statuses == {"absent", "RUNNING"} \cup Final

Types ==
  /\ raises \subseteq Runs
  /\ status \in [Runs -> Statuses]
  /\ cancelReq \in [Runs -> BOOLEAN]
  /\ journal \in [Runs -> Seq(Kinds)]
  /\ lease \in [Runs -> Workers \cup {Nobody}]
  /\ driver \in [Drivers -> States]
  /\ \A d \in Drivers : driver[d].pc \in Places(d[2])
  /\ spans \in [Workers -> Span]
  /\ reopened \subseteq Runs
  /\ strayed \in BOOLEAN

\* What a journal holds, and what a driver's copy of it does.
Known(r) == {journal[r][i] : i \in 1..Len(journal[r])}
Knows(d) == {driver[d].mine[i] : i \in 1..Len(driver[d].mine)}

\* s is the beginning of t.
Begins(s, t) == Len(s) <= Len(t) /\ \A i \in 1..Len(s) : s[i] = t[i]

Copies ==
  /\ \A r \in Runs : Known(r) \subseteq KindsOf(r)
  /\ \A d \in Drivers : /\ Begins(driver[d].mine, journal[d[2]])
                        /\ In(d, "down") => driver[d] = Idle

\* The event that is journaled before a run is given a final status.
Closing(s) == CASE s = "COMPLETED" -> "RUN_COMPLETED"
                [] s = "FAILED"    -> "RUN_FAILED"
                [] s = "CANCELLED" -> "RUN_CANCELLED"

\* The child's journal tells of one outcome, unless the child was reopened, and
\* its record agrees with it.
ChildInv ==
  /\ status["c"] = "absent" => Known("c") = {}
  /\ "RUN_CANCELLED" \in Known("c") => "STEP_COMPLETED" \notin Known("c") \/ "c" \in reopened
  /\ "RUN_COMPLETED" \in Known("c") => "STEP_COMPLETED" \in Known("c") /\ "c" \notin raises
  /\ "RUN_FAILED" \in Known("c") => "STEP_COMPLETED" \in Known("c") /\ "c" \in raises
  /\ Over("c") => "RUN_STARTED" \in Known("c") /\ Closing(status["c"]) \in Known("c")

\* Nobody needs to be told any more that the parent was cancelled: there is no
\* child, nor will there be, or the child knows.
Cared(known) == "CHILD_SCHEDULED" \notin known \/ Over("c") \/ cancelReq["c"]

\* The parent has journaled the child before there is one, and its outcome after;
\* and it is closed when its child needs nothing of it.
ParentInv ==
  /\ status["p"] # "absent"
  /\ status["c"] # "absent" => "CHILD_SCHEDULED" \in Known("p")
  /\ "CHILD_COMPLETED" \in Known("p") => Over("c") /\ (status["c"] = "COMPLETED" \/ "c" \in reopened)
  /\ "CHILD_FAILED" \in Known("p") => Over("c") /\ (status["c"] # "COMPLETED" \/ "c" \in reopened)
  /\ Over("p") => Closing(status["p"]) \in Known("p")
  /\ "RUN_COMPLETED" \in Known("p") => Over("c")
  /\ "RUN_FAILED" \in Known("p") => Over("c") \/ strayed
  /\ "RUN_CANCELLED" \in Known("p") => Cared(Known("p")) \/ strayed \/ "p" \in reopened

\* What the place of a driver says of what it knows.
DriverInv(d) ==
  /\ driver[d].flag => cancelReq[d[2]]
  /\ driver[d].pc \notin {"down", "start"} => "RUN_STARTED" \in Knows(d)
  /\ driver[d].pc \in Final => Closing(driver[d].pc) \in Knows(d)
  /\ driver[d].pc \in {"cancelled", "stopping", "propagate"} => driver[d].flag
  /\ "RUN_CANCELLED" \in Knows(d) => driver[d].flag \/ d[2] \in reopened
  /\ driver[d].asked => cancelReq["c"]
  /\ d[2] = "c" =>
       /\ Busy(d) => status["c"] # "absent"
       /\ driver[d].pc \in {"cancelled", "step"} => "STEP_COMPLETED" \notin Knows(d)
       /\ In(d, "step") /\ "RUN_CANCELLED" \in Knows(d) => "c" \in reopened
       /\ driver[d].news = "none"
  /\ d[2] = "p" =>
       /\ In(d, "attach") => status["c"] # "absent"
       /\ driver[d].news \in Final => Over("c") /\ (driver[d].news = status["c"] \/ "c" \in reopened)
       /\ In(d, "cancelled") => Cared(Knows(d)) \/ strayed
       /\ In(d, "failed") => Over("c") \/ strayed

DriversInv == \A d \in Drivers : DriverInv(d)

\* An observer that will need the parent's span still has it.
SpanInv ==
  \A w \in Workers :
    /\ spans[w].known \subseteq {"c"} /\ spans[w].known \cap spans[w].alone = {}
    /\ "c" \in spans[w].known =>
         /\ "CHILD_SCHEDULED" \in Known("p")
         /\ "RUN_STARTED" \in Known("c") \/ "c" \in spans[w].pending
    /\ "c" \in spans[w].alone => "RUN_STARTED" \in Known("c")

IInv == Types /\ Copies /\ ChildInv /\ ParentInv /\ DriversInv /\ SpanInv

-----------------------------------------------------------------------------
(* Journals and copies *)

\* The questions a driver asks of its copy, in terms of what that holds.
LEMMA DidIsKnows == \A d, kind : Did(d, kind) <=> kind \in Knows(d)
BY DEF Did, Contains, Knows

\* What a sequence holds, and what it holds with one more.
LEMMA AppendHolds ==
  ASSUME NEW s \in Seq(Kinds), NEW kind \in Kinds
  PROVE  /\ Append(s, kind) \in Seq(Kinds)
         /\ {Append(s, kind)[i] : i \in 1..Len(Append(s, kind))} = {s[i] : i \in 1..Len(s)} \cup {kind}
         /\ \A t \in Seq(Kinds) : Begins(t, s) => Begins(t, Append(s, kind))
<1>1. /\ Append(s, kind) \in Seq(Kinds) /\ Len(Append(s, kind)) = Len(s) + 1
      /\ \A i \in 1..Len(s) : Append(s, kind)[i] = s[i]
      /\ Append(s, kind)[Len(s) + 1] = kind
  BY AppendProperties
<1>2. Len(s) \in Nat
  BY LenProperties
<1>3. \A t \in Seq(Kinds) : Len(t) \in Nat
  BY LenProperties
<1>4. 1..(Len(s) + 1) = (1..Len(s)) \cup {Len(s) + 1}
  BY <1>2
<1> HIDE DEF Kinds
<1> QED BY <1>1, <1>2, <1>3, <1>4 DEF Begins

\* Who knows the whole journal has the journal itself.
LEMMA WholeCopy ==
  ASSUME NEW s \in Seq(Kinds), NEW t \in Seq(Kinds), Begins(s, t), Len(s) = Len(t)
  PROVE  s = t
BY SeqEqual DEF Begins

\* Every journal is its own beginning, and begins with nothing.
LEMMA EveryoneBegins ==
  ASSUME NEW t \in Seq(Kinds)
  PROVE  Begins(t, t) /\ Begins(<<>>, t)
<1>1. Len(t) \in Nat
  BY LenProperties
<1> QED BY <1>1 DEF Begins

\* A driver's copy holds nothing that the journal does not.
LEMMA KnowsIsKnown ==
  ASSUME Types, Copies, NEW d \in Drivers
  PROVE  Knows(d) \subseteq Known(d[2]) /\ d[2] \in Runs
<1>1. /\ driver[d].mine \in Seq(Kinds) /\ d[2] \in Runs /\ journal[d[2]] \in Seq(Kinds)
  BY DEF Types, Drivers, States
<1>2. Len(driver[d].mine) \in Nat /\ Len(journal[d[2]]) \in Nat
  BY <1>1, LenProperties
<1> QED BY <1>1, <1>2 DEF Copies, Begins, Knows, Known

\* A driver that goes to another place keeps its journal and its flags.
LEMMA AtFacts ==
  ASSUME Types, NEW d \in Drivers, NEW p \in Places(d[2])
  PROVE  /\ At(d, p) \in States /\ At(d, p).pc = p /\ At(d, p).mine = driver[d].mine
         /\ At(d, p).flag = driver[d].flag /\ At(d, p).news = "none" /\ At(d, p).asked = FALSE
<1>1. driver[d] \in States /\ p \in AnyPlace /\ "none" \in News
  BY DEF Types, AnyPlace, Places, News
<1> HIDE DEF News
<1> QED BY <1>1 DEF At, States

\* An append that succeeds: the driver knew the whole journal, and does.
Wrote(d, kind, p) ==
  /\ Knows(d) = Known(d[2]) /\ Knows(d)' = Known(d[2])'
  /\ Known(d[2])' = Known(d[2]) \cup {kind}
  /\ \A r \in Runs : r # d[2] => journal'[r] = journal[r]
  /\ journal' \in [Runs -> Seq(Kinds)]
  /\ driver'[d] \in States /\ driver'[d].pc = p /\ driver'[d].mine = journal'[d[2]]
  /\ driver'[d].flag = driver[d].flag /\ driver'[d].news = "none" /\ driver'[d].asked = FALSE
  /\ \A e \in Drivers : e # d => driver'[e] = driver[e]
  /\ driver' \in [Drivers -> States]
  /\ spans' = [spans EXCEPT ![d[1]] = Observed(@, d[2], IF d[2] = "c" THEN "p" ELSE "", "c", kind)]
  /\ lease' = lease

\* One that is refused: somebody else has written.
Refused(d) == Leave(d, "error") /\ UNCHANGED <<journal, spans>>

\* An append either writes to a journal that its driver knows, or ends the driver.
LEMMA AppendCases ==
  ASSUME Types, Copies, NEW d \in Drivers, NEW kind \in KindsOf(d[2]), NEW p \in Places(d[2]),
         p # "down", AppendThen(d, kind, p)
  PROVE  (Wrote(d, kind, p) /\ Copies') \/ Refused(d)
<1>1. /\ driver[d].mine \in Seq(Kinds) /\ d[2] \in Runs /\ journal[d[2]] \in Seq(Kinds)
      /\ kind \in Kinds /\ driver \in [Drivers -> States]
  BY DEF Types, Drivers, KindsOf, Kinds, States
<1>2. CASE Len(driver[d].mine) # Len(journal[d[2]])
  BY <1>2 DEF AppendThen, Refused
<1>3. CASE Len(driver[d].mine) = Len(journal[d[2]])
  <2>1. driver[d].mine = journal[d[2]]
    BY <1>1, <1>3, WholeCopy DEF Copies
  <2> DEFINE s == Append(journal[d[2]], kind)
             a == At(d, p)
             x == [a EXCEPT !.mine = s]
  <2>2. /\ a \in States /\ a.pc = p /\ a.mine = journal[d[2]] /\ a.flag = driver[d].flag
        /\ a.news = "none" /\ a.asked = FALSE /\ s \in Seq(Kinds)
    BY <1>1, <2>1, AtFacts, AppendHolds
  <2>3. /\ journal' = [journal EXCEPT ![d[2]] = s] /\ driver' = [driver EXCEPT ![d] = x]
        /\ spans' = [spans EXCEPT ![d[1]] = Observed(@, d[2], IF d[2] = "c" THEN "p" ELSE "", "c", kind)]
        /\ lease' = lease
    BY <1>3, <2>2 DEF AppendThen, Types
  <2>4. /\ x \in States /\ x.pc = p /\ x.mine = s /\ x.flag = driver[d].flag
        /\ x.news = "none" /\ x.asked = FALSE
    <3> HIDE DEF a, s
    <3> QED BY <2>2 DEF States
  <2>5. /\ journal' \in [Runs -> Seq(Kinds)] /\ journal'[d[2]] = s
        /\ \A r \in Runs : r # d[2] => journal'[r] = journal[r]
    BY <1>1, <2>2, <2>3 DEF Types
  <2>6. Known(d[2])' = Known(d[2]) \cup {kind}
    BY <1>1, <2>5, AppendHolds DEF Known
  <2> HIDE DEF x
  <2>7. /\ driver'[d] = x /\ driver' \in [Drivers -> States]
        /\ \A e \in Drivers : e # d => driver'[e] = driver[e]
    BY <1>1, <2>3, <2>4
  <2>8. Knows(d) = Known(d[2]) /\ Knows(d)' = Known(d[2])'
    <3>1. driver'[d].mine = journal'[d[2]] /\ driver[d].mine = journal[d[2]]
      <4> HIDE DEF a, s
      <4> QED BY <2>1, <2>4, <2>5, <2>7
    <3> HIDE DEF a, s
    <3> QED BY <3>1 DEF Knows, Known
  <2>9. Copies'
    <3>1. \A r \in Runs : Known(r)' \subseteq KindsOf(r)
      <4>1. ASSUME NEW r \in Runs, r # d[2] PROVE Known(r)' = Known(r)
        <5>1. journal'[r] = journal[r]
          BY <2>5, <4>1
        <5> HIDE DEF a, s
        <5> QED BY <5>1 DEF Known
      <4> QED BY <2>6, <4>1 DEF Copies
    <3>2. ASSUME NEW e \in Drivers
          PROVE  Begins(driver'[e].mine, journal'[e[2]]) /\ (In(e, "down")' => driver'[e] = Idle)
      <4>1. CASE e = d
        BY <2>2, <2>4, <2>5, <2>7, <4>1, EveryoneBegins DEF In
      <4>2. CASE e # d
        <5>1. /\ driver'[e] = driver[e] /\ driver[e].mine \in Seq(Kinds) /\ e[2] \in Runs
              /\ Begins(driver[e].mine, journal[e[2]])
          BY <2>7, <4>2 DEF Types, Copies, Drivers, States
        <5>2. Begins(driver[e].mine, journal'[e[2]])
          BY <1>1, <2>5, <5>1, AppendHolds
        <5> QED BY <5>1, <5>2 DEF Copies, In
      <4> QED BY <4>1, <4>2
    <3> QED BY <3>1, <3>2 DEF Copies
  <2> HIDE DEF s
  <2> QED BY <2>3, <2>4, <2>5, <2>6, <2>7, <2>8, <2>9 DEF Wrote
<1> QED BY <1>2, <1>3

-----------------------------------------------------------------------------
(* Spans *)

\* What an observer that had s keeps in o after an event.
Keeps(s, run, kind, o) ==
  /\ o \in Span
  /\ kind = "RUN_STARTED" =>
       /\ o.known = s.known /\ o.alone \subseteq s.alone \cup {run}
       /\ run \in s.pending => o.alone = s.alone
       /\ s.pending \ {run} \subseteq o.pending
  /\ kind = "CHILD_SCHEDULED" =>
       /\ o.alone = s.alone /\ s.pending \subseteq o.pending
       /\ o.known = s.known \/ (o.known = s.known \cup {"c"} /\ "c" \in o.pending)
  /\ kind \in {"CHILD_COMPLETED", "CHILD_FAILED"} => o.known = s.known /\ o.alone = s.alone
  /\ kind \notin {"RUN_STARTED", "CHILD_SCHEDULED", "CHILD_COMPLETED", "CHILD_FAILED"} =>
       o.known = s.known /\ o.alone = s.alone /\ o.pending = s.pending

\* Each kind of event changes what an observer knows in one way.
LEMMA ObservedFacts ==
  ASSUME NEW s \in Span, NEW run \in Runs, NEW parent, NEW kind \in Kinds,
         NEW o, o = Observed(s, run, parent, "c", kind)
  PROVE  Keeps(s, run, kind, o)
<1> USE DEF Span, Runs
<1>1. CASE kind = "RUN_STARTED"
  <2> DEFINE under == run \in s.pending \/ parent \in s.open
             started == [s EXCEPT !.open = @ \cup {run}, !.pending = @ \ {run}]
  <2>1. o = Opened(s, run, parent)
    BY <1>1 DEF Observed
  <2>2. /\ started \in Span /\ started.pending = s.pending \ {run} /\ started.known = s.known
        /\ started.alone = s.alone
    OBVIOUS
  <2>3. CASE under
    <3>1. o = [started EXCEPT !.traced = @ \cup {run}]
      BY <2>1, <2>3 DEF Opened
    <3> HIDE DEF started
    <3> QED BY <1>1, <2>2, <3>1 DEF Keeps
  <2>4. CASE ~under
    <3>1. o = [started EXCEPT !.alone = @ \cup {run}]
      BY <2>1, <2>4 DEF Opened
    <3> HIDE DEF started
    <3> QED BY <1>1, <2>2, <2>4, <3>1 DEF Keeps
  <2> QED BY <2>3, <2>4
<1>2. CASE kind = "CHILD_SCHEDULED"
  <2>1. o = Expected(s, run, "c")
    BY <1>2 DEF Observed
  <2>2. CASE run \in s.open
    <3>1. o = [s EXCEPT !.pending = @ \cup {"c"}, !.known = @ \cup {"c"}]
      BY <2>1, <2>2 DEF Expected, Remembered
    <3> QED BY <1>2, <3>1 DEF Keeps
  <2>3. CASE run \notin s.open
    <3>1. o = [s EXCEPT !.pending = @, !.known = @]
      BY <2>1, <2>3 DEF Expected, Remembered
    <3> QED BY <1>2, <3>1 DEF Keeps
  <2> QED BY <2>2, <2>3
<1>3. CASE kind \in {"CHILD_COMPLETED", "CHILD_FAILED"}
  <2>1. o = [s EXCEPT !.pending = @ \ {"c"}]
    BY <1>3 DEF Observed
  <2> QED BY <1>3, <2>1 DEF Keeps
<1>4. CASE kind \notin {"RUN_STARTED", "CHILD_SCHEDULED", "CHILD_COMPLETED", "CHILD_FAILED"}
  <2>1. o = [s EXCEPT !.open = IF kind \in Ends THEN s.open \ {run} ELSE s.open]
    BY <1>4 DEF Observed
  <2> QED BY <1>4, <2>1 DEF Keeps
<1> QED BY <1>1, <1>2, <1>3, <1>4

\* The observer of a process keeps what it needs for one trace, because each
\* of these events is journaled once, in their order.
LEMMA SpanStep ==
  ASSUME IInv, NEW d \in Drivers, NEW kind \in KindsOf(d[2]), NEW p, Wrote(d, kind, p),
         kind = "RUN_STARTED" /\ d[2] = "c" => kind \notin Known("c"),
         kind = "CHILD_SCHEDULED" => kind \notin Known("p"),
         kind \in {"CHILD_COMPLETED", "CHILD_FAILED"} => Over("c")
  PROVE  SpanInv' /\ spans' \in [Workers -> Span]
<1>1. /\ d[1] \in Workers /\ d[2] \in Runs /\ kind \in Kinds
      /\ spans \in [Workers -> Span]
  BY DEF Drivers, IInv, Types, KindsOf, Kinds
<1> DEFINE v == d[1]
           o == Observed(spans[v], d[2], IF d[2] = "c" THEN "p" ELSE "", "c", kind)
<1>2. Keeps(spans[v], d[2], kind, o)
  BY <1>1, ObservedFacts
<1> HIDE DEF o
<1>3. spans' = [spans EXCEPT ![v] = o]
  BY DEF Wrote, o
<1>4. spans' \in [Workers -> Span] /\ spans'[v] = o /\ \A w \in Workers : w # v => spans'[w] = spans[w]
  BY <1>1, <1>2, <1>3 DEF Keeps
<1>5. /\ Known("p") \subseteq Known("p")' /\ Known("c") \subseteq Known("c")'
      /\ kind \in Known(d[2])'
      /\ kind = "CHILD_SCHEDULED" => d[2] = "p"
  <2>0. \A r \in Runs : r # d[2] => journal'[r] = journal[r]
    BY DEF Wrote
  <2>1. \A r \in Runs : r # d[2] => Known(r)' = Known(r)
    BY <2>0 DEF Known
  <2>2. Known(d[2])' = Known(d[2]) \cup {kind}
    BY DEF Wrote
  <2> QED BY <1>1, <2>1, <2>2 DEF KindsOf, Runs
<1>6. Over("c") => "RUN_STARTED" \in Known("c")
  BY DEF IInv, ChildInv
<1>7. SpanInv /\ ("RUN_STARTED" \in Known("c") => "CHILD_SCHEDULED" \in Known("p"))
  BY DEF IInv, ChildInv, ParentInv
<1>8. ASSUME NEW w \in Workers, w # v
      PROVE  /\ spans'[w].known \subseteq {"c"} /\ spans'[w].known \cap spans'[w].alone = {}
             /\ "c" \in spans'[w].known =>
                  /\ "CHILD_SCHEDULED" \in Known("p")'
                  /\ "RUN_STARTED" \in Known("c")' \/ "c" \in spans'[w].pending
             /\ "c" \in spans'[w].alone => "RUN_STARTED" \in Known("c")'
  BY <1>4, <1>5, <1>7, <1>8 DEF SpanInv
<1>9. /\ o.known \subseteq {"c"} /\ o.known \cap o.alone = {}
      /\ "c" \in o.known =>
           /\ "CHILD_SCHEDULED" \in Known("p")'
           /\ "RUN_STARTED" \in Known("c")' \/ "c" \in o.pending
      /\ "c" \in o.alone => "RUN_STARTED" \in Known("c")'
  <2>1. /\ spans[v].known \subseteq {"c"} /\ spans[v].known \cap spans[v].alone = {}
        /\ "c" \in spans[v].known =>
             /\ "CHILD_SCHEDULED" \in Known("p")
             /\ "RUN_STARTED" \in Known("c") \/ "c" \in spans[v].pending
        /\ "c" \in spans[v].alone => "RUN_STARTED" \in Known("c")
    BY <1>1, <1>7 DEF SpanInv
  <2>2. CASE kind = "RUN_STARTED"
    BY <1>1, <1>2, <1>5, <2>1, <2>2 DEF Runs, Keeps
  <2>3. CASE kind = "CHILD_SCHEDULED"
    BY <1>1, <1>2, <1>5, <1>7, <2>1, <2>3 DEF Keeps
  <2>4. CASE kind \in {"CHILD_COMPLETED", "CHILD_FAILED"}
    BY <1>2, <1>5, <1>6, <2>1, <2>4 DEF Keeps
  <2>5. CASE kind \notin {"RUN_STARTED", "CHILD_SCHEDULED", "CHILD_COMPLETED", "CHILD_FAILED"}
    BY <1>2, <1>5, <2>1, <2>5 DEF Keeps
  <2> QED BY <2>2, <2>3, <2>4, <2>5
<1> QED BY <1>4, <1>8, <1>9 DEF SpanInv

-----------------------------------------------------------------------------
(* Kinds of steps *)

\* Requests, and what has happened, are never taken back.
Grows == /\ cancelReq' \in [Runs -> BOOLEAN]
         /\ \A r \in Runs : cancelReq[r] => cancelReq'[r]
         /\ reopened' \subseteq Runs /\ reopened \subseteq reopened'
         /\ strayed' \in BOOLEAN /\ (strayed => strayed')

\* A child that is over stays over, and in the same way unless it is reopened.
Stands == /\ status["c"] # "absent" => status'["c"] # "absent"
          /\ Over("c") => Over("c")' /\ (status'["c"] = status["c"] \/ "c" \in reopened')

\* What is on record only changes where it is written.
LEMMA RecordsKept ==
  ASSUME IInv, UNCHANGED <<raises, status, journal>>, Grows
  PROVE  /\ ChildInv' /\ ParentInv' /\ Stands
         /\ \A r : Known(r)' = Known(r)
         /\ UNCHANGED spans => SpanInv' /\ spans' \in [Workers -> Span]
<1>1. \A r : Known(r)' = Known(r)
  BY DEF Known
<1>2. (Over("c")' <=> Over("c")) /\ (Over("p")' <=> Over("p")) /\ "c" \in Runs
  BY DEF Over, Runs
<1>3. ChildInv'
  BY <1>1, <1>2 DEF IInv, ChildInv, Grows
<1>4. ParentInv'
  <2>1. Cared(Known("p")) => Cared(Known("p"))'
    BY <1>1, <1>2 DEF Cared, Grows
  <2> QED BY <1>1, <1>2, <2>1 DEF IInv, ParentInv, Grows
<1>5. Stands
  BY <1>2 DEF Stands
<1>6. UNCHANGED spans => SpanInv' /\ spans' \in [Workers -> Span]
  BY <1>1 DEF IInv, SpanInv, Types
<1> QED BY <1>1, <1>3, <1>4, <1>5, <1>6

\* A driver that does nothing keeps what it knows.
LEMMA DriverKept ==
  ASSUME NEW d \in Drivers, DriverInv(d), driver'[d] = driver[d], Grows, Stands
  PROVE  DriverInv(d)'
<1>1. Knows(d)' = Knows(d) /\ d[2] \in Runs /\ "c" \in Runs
  BY DEF Knows, Drivers, Runs
<1>2. Cared(Knows(d)) => Cared(Knows(d))'
  BY <1>1 DEF Cared, Grows, Stands
<1> QED BY <1>1, <1>2 DEF DriverInv, Grows, Stands, Busy, In

\* A driver as it may be after a step that writes nothing.
Stays(e) ==
  /\ driver'[e] \in States /\ driver'[e].pc \in Places(e[2])
  /\ \/ driver'[e] = Idle
     \/ driver'[e].mine \in {driver[e].mine, journal[e[2]]} /\ driver'[e].pc # "down"

\* A driver that has ended claims nothing.
LEMMA IdleStays ==
  ASSUME NEW e \in Drivers, driver'[e] = Idle
  PROVE  Stays(e) /\ DriverInv(e)'
<1>1. <<>> \in Seq(Kinds) /\ Knows(e)' = {}
  BY EmptySeq DEF Knows, Idle
<1>2. Idle \in States /\ Idle.pc \in Places(e[2])
  BY <1>1 DEF Idle, States, AnyPlace, Places, News
<1> QED BY <1>1, <1>2 DEF Stays, Idle, Busy, In, DriverInv, Final

\* One that does nothing is as it was.
LEMMA Still ==
  ASSUME IInv, NEW e \in Drivers, driver'[e] = driver[e], Grows, Stands
  PROVE  Stays(e) /\ DriverInv(e)'
<1>1. DriverInv(e)'
  BY DriverKept DEF IInv, DriversInv
<1> QED BY <1>1 DEF IInv, Types, Copies, Stays, In

\* A step that journals nothing.
LEMMA Shifted ==
  ASSUME IInv, UNCHANGED <<raises, journal>>, Grows, status' \in [Runs -> Statuses],
         ChildInv' /\ ParentInv', SpanInv' /\ spans' \in [Workers -> Span],
         driver' = [e \in Drivers |-> driver'[e]], lease' \in [Runs -> Workers \cup {Nobody}],
         \A e \in Drivers : Stays(e) /\ DriverInv(e)'
  PROVE  IInv'
<1>1. \A r : Known(r)' = Known(r)
  BY DEF Known
<1>2. Types'
  <2>1. driver' \in [Drivers -> States]
    BY DEF Stays
  <2> QED BY <2>1 DEF IInv, Types, Grows, Stays
<1>3. Copies'
  <2>1. ASSUME NEW e \in Drivers
        PROVE  Begins(driver'[e].mine, journal[e[2]]) /\ (In(e, "down")' => driver'[e] = Idle)
    <3>1. journal[e[2]] \in Seq(Kinds)
      BY DEF IInv, Types, Drivers
    <3>2. CASE driver'[e] = Idle
      BY <3>1, <3>2, EveryoneBegins DEF Idle
    <3>3. CASE driver'[e] # Idle
      BY <3>1, <3>3, EveryoneBegins DEF Stays, IInv, Copies, In
    <3> QED BY <3>2, <3>3
  <2> QED BY <1>1, <2>1 DEF IInv, Copies
<1> QED BY <1>2, <1>3 DEF IInv, DriversInv

\* A step that writes nothing at all.
LEMMA Steady ==
  ASSUME IInv, UNCHANGED <<raises, status, journal, spans>>, Grows,
         driver' = [e \in Drivers |-> driver'[e]], lease' \in [Runs -> Workers \cup {Nobody}],
         \A e \in Drivers : Stays(e) /\ DriverInv(e)'
  PROVE  IInv'
<1>1. ChildInv' /\ ParentInv' /\ SpanInv' /\ spans' \in [Workers -> Span]
  BY RecordsKept
<1>2. status' \in [Runs -> Statuses]
  BY DEF IInv, Types
<1> QED BY <1>1, <1>2, Shifted

\* A step of no driver.
LEMMA NobodyMoves ==
  ASSUME IInv, UNCHANGED <<raises, status, journal, driver>>, Grows,
         SpanInv' /\ spans' \in [Workers -> Span], lease' \in [Runs -> Workers \cup {Nobody}]
  PROVE  IInv'
<1>1. ChildInv' /\ ParentInv' /\ Stands /\ status' \in [Runs -> Statuses]
  BY RecordsKept DEF IInv, Types
<1>2. driver' = [e \in Drivers |-> driver'[e]]
  BY DEF IInv, Types
<1>3. \A e \in Drivers : Stays(e) /\ DriverInv(e)'
  BY <1>1, Still
<1> QED BY <1>1, <1>2, <1>3, Shifted

\* A step of one driver that writes nothing.
LEMMA Moved ==
  ASSUME IInv, NEW d \in Drivers, NEW x \in States, driver' = [driver EXCEPT ![d] = x],
         x.pc \in Places(d[2]) \ {"down"}, x.mine = driver[d].mine,
         UNCHANGED <<raises, status, journal, spans, lease>>, Grows,
         driver'[d] = x /\ Knows(d)' = Knows(d) => DriverInv(d)'
  PROVE  IInv'
<1>1. /\ driver'[d] = x /\ \A e \in Drivers : e # d => driver'[e] = driver[e]
      /\ driver' = [e \in Drivers |-> driver'[e]] /\ lease' \in [Runs -> Workers \cup {Nobody}]
  BY DEF IInv, Types
<1>2. Stands
  BY RecordsKept
<1>3. ASSUME NEW e \in Drivers PROVE Stays(e) /\ DriverInv(e)'
  <2>1. CASE e = d
    BY <1>1, <2>1 DEF Stays, Knows
  <2>2. CASE e # d
    BY <1>1, <1>2, <2>2, Still
  <2> QED BY <2>1, <2>2
<1> QED BY <1>1, <1>3, Steady

\* A driver that only goes on to another place.
LEMMA Went ==
  ASSUME IInv, NEW d \in Drivers, NEW p \in Places(d[2]), p # "down", Go(d, p),
         UNCHANGED <<raises, status, journal, spans, lease>>, Grows,
         /\ driver'[d].pc = p /\ driver'[d].flag = driver[d].flag /\ driver'[d].news = "none"
         /\ driver'[d].asked = FALSE /\ Knows(d)' = Knows(d)
         => DriverInv(d)'
  PROVE  IInv'
<1> DEFINE x == At(d, p)
<1>1. /\ x \in States /\ x.pc = p /\ x.mine = driver[d].mine /\ x.flag = driver[d].flag
      /\ x.news = "none" /\ x.asked = FALSE
  BY AtFacts DEF IInv
<1>2. driver' = [driver EXCEPT ![d] = x]
  BY DEF Go
<1> HIDE DEF x
<1> QED BY <1>1, <1>2, Moved

-----------------------------------------------------------------------------
(* Drivers that end *)

\* A parent that is told how its child's task has ended believes no more than that.
LEMMA ToldFacts ==
  ASSUME IInv, NEW e \in Drivers, e[2] = "p", Busy(e), NEW how \in News, Grows, Stands,
         driver'[e] = [driver[e] EXCEPT !.news = how],
         how \in Final => Over("c")' /\ (how = status'["c"] \/ "c" \in reopened')
  PROVE  Stays(e) /\ DriverInv(e)'
<1>1. driver[e] \in States /\ driver[e].pc \in Places(e[2]) /\ DriverInv(e)
  BY DEF IInv, Types, DriversInv
<1>2. /\ driver'[e] \in States /\ driver'[e].pc = driver[e].pc /\ driver'[e].mine = driver[e].mine
      /\ driver'[e].flag = driver[e].flag /\ driver'[e].asked = driver[e].asked
      /\ driver'[e].news = how
  BY <1>1 DEF States
<1>3. Knows(e)' = Knows(e) /\ "p" \in Runs /\ "c" \in Runs
  BY <1>2 DEF Knows, Runs
<1>4. Cared(Knows(e)) => Cared(Knows(e))'
  BY <1>3 DEF Cared, Grows, Stands
<1>5. DriverInv(e)'
  BY <1>1, <1>2, <1>3, <1>4 DEF DriverInv, Grows, Stands, Busy, In
<1> QED BY <1>1, <1>2, <1>5 DEF Stays, Busy, In

\* Only a parent that is there awaits a task.
LEMMA WhoIsTold ==
  ASSUME IInv, NEW e \in Drivers, Hears(e, "task")
  PROVE  e[2] = "p" /\ Busy(e) /\ Child(e)[2] = "c"
<1>1. DriverInv(e) /\ (In(e, "down") => driver[e] = Idle) /\ e[2] \in Runs
  BY DEF IInv, DriversInv, Copies, Drivers
<1> QED BY <1>1 DEF DriverInv, Hears, Idle, Busy, Runs, Child

\* When a driver's task ends, so far as it can be seen by others.
LEMMA Left ==
  ASSUME IInv, NEW d \in Drivers, NEW how \in News, Leave(d, how), Grows, Stands,
         d[2] = "c" /\ how \in Final => Over("c")' /\ (how = status'["c"] \/ "c" \in reopened')
  PROVE  /\ driver' = [e \in Drivers |-> driver'[e]] /\ lease' \in [Runs -> Workers \cup {Nobody}]
         /\ \A e \in Drivers : Stays(e) /\ DriverInv(e)'
<1>1. /\ driver' = [e \in Drivers |-> IF e = d THEN Idle ELSE Told(e, {d}, how)]
      /\ lease' = Without({d}) /\ lease \in [Runs -> Workers \cup {Nobody}]
  BY DEF Leave, IInv, Types
<1>2. ASSUME NEW e \in Drivers PROVE Stays(e) /\ DriverInv(e)'
  <2>1. CASE e = d
    BY <1>1, <2>1, IdleStays
  <2>2. CASE e # d /\ Hears(e, "task") /\ Child(e) = d
    <3>1. driver'[e] = [driver[e] EXCEPT !.news = how]
      BY <1>1, <2>2 DEF Told
    <3>2. e[2] = "p" /\ Busy(e) /\ d[2] = "c"
      BY <2>2, WhoIsTold
    <3> QED BY <3>1, <3>2, ToldFacts
  <2>3. CASE e # d /\ ~(Hears(e, "task") /\ Child(e) = d)
    <3>1. driver'[e] = driver[e]
      BY <1>1, <2>3 DEF Told
    <3> QED BY <3>1, Still
  <2> QED BY <2>1, <2>2, <2>3
<1>3. lease' \in [Runs -> Workers \cup {Nobody}]
  BY <1>1 DEF Without
<1> QED BY <1>1, <1>2, <1>3

\* An append: either the driver knew the whole journal and has written, or
\* somebody else has written and it ends.
LEMMA Written ==
  ASSUME IInv, NEW d \in Drivers, NEW kind \in KindsOf(d[2]), NEW p \in Places(d[2]), p # "down",
         AppendThen(d, kind, p), UNCHANGED <<record, history>>,
         kind \in {"RUN_STARTED", "CHILD_SCHEDULED"} => kind \notin Knows(d),
         kind \in {"CHILD_COMPLETED", "CHILD_FAILED"} => Over("c"),
         Wrote(d, kind, p) => /\ DriverInv(d)'
                              /\ d[2] = "c" => ChildInv'
                              /\ d[2] = "p" => ParentInv'
  PROVE  IInv'
<1>1. (Wrote(d, kind, p) /\ Copies') \/ Refused(d)
  BY AppendCases DEF IInv
<1>2. UNCHANGED <<raises, status, cancelReq, reopened, strayed>> /\ Grows /\ Stands
  BY DEF record, history, Grows, Stands, Over, IInv, Types
<1>3. CASE Refused(d)
  <2>1. UNCHANGED <<journal, spans>> /\ Leave(d, "error") /\ "error" \in News /\ "error" \notin Final
    BY <1>3 DEF Refused, News, Final
  <2>2. /\ driver' = [e \in Drivers |-> driver'[e]] /\ lease' \in [Runs -> Workers \cup {Nobody}]
        /\ \A e \in Drivers : Stays(e) /\ DriverInv(e)'
    BY <1>2, <2>1, Left
  <2> QED BY <1>2, <2>1, <2>2, Steady
<1>4. CASE Wrote(d, kind, p) /\ Copies'
  <2>1. d[2] \in Runs /\ p \in AnyPlace
    BY DEF Drivers, AnyPlace, Places, Runs
  <2>2. \A r \in Runs : r # d[2] => Known(r)' = Known(r)
    <3>1. \A r \in Runs : r # d[2] => journal'[r] = journal[r]
      BY <1>4 DEF Wrote
    <3> QED BY <3>1 DEF Known
  <2>3. (\A r : Over(r)' <=> Over(r)) /\ \A known : Cared(known)' <=> Cared(known)
    BY <1>2 DEF Over, Cared
  <2>4. ChildInv'
    BY <1>2, <1>4, <2>1, <2>2, <2>3 DEF IInv, ChildInv, Runs
  <2>5. ParentInv'
    <3>1. CASE d[2] = "p"
      BY <1>4, <3>1
    <3>2. CASE d[2] = "c"
      <4>1. Known("p")' = Known("p")
        BY <2>2, <3>2 DEF Runs
      <4>2. Cared(Known("p"))' <=> Cared(Known("p"))
        BY <2>3, <4>1 DEF Cared
      <4> QED BY <1>2, <2>3, <4>1, <4>2 DEF IInv, ParentInv
    <3> QED BY <2>1, <3>1, <3>2 DEF Runs
  <2>6. SpanInv' /\ spans' \in [Workers -> Span]
    <3>1. Knows(d) = Known(d[2])
      BY <1>4 DEF Wrote
    <3>2. kind = "CHILD_SCHEDULED" => d[2] = "p"
      BY <2>1 DEF KindsOf, Runs
    <3>3. kind = "RUN_STARTED" /\ d[2] = "c" => kind \notin Known("c")
      BY <3>1
    <3>4. kind = "CHILD_SCHEDULED" => kind \notin Known("p")
      BY <3>1, <3>2
    <3> QED BY <1>4, <3>3, <3>4, SpanStep
  <2>7. Types'
    <3>1. \A e \in Drivers : driver'[e].pc \in Places(e[2])
      BY <1>4 DEF IInv, Types, Wrote
    <3>2. journal' \in [Runs -> Seq(Kinds)] /\ driver' \in [Drivers -> States] /\ lease' = lease
      BY <1>4 DEF Wrote
    <3> QED BY <1>2, <2>6, <3>1, <3>2 DEF IInv, Types
  <2>8. DriversInv'
    <3>1. ASSUME NEW e \in Drivers, e # d PROVE DriverInv(e)'
      <4>1. driver'[e] = driver[e]
        BY <1>4, <3>1 DEF Wrote
      <4> QED BY <1>2, <4>1, DriverKept DEF IInv, DriversInv
    <3> QED BY <1>4, <3>1 DEF DriversInv
  <2> QED BY <1>4, <2>4, <2>5, <2>6, <2>7, <2>8 DEF IInv
<1> QED BY <1>1, <1>3, <1>4

-----------------------------------------------------------------------------
(* Writing drivers *)

\* What a driver knows, of its run and the other one.
LEMMA WriterFacts ==
  ASSUME IInv, NEW d \in Drivers
  PROVE  /\ DriverInv(d) /\ d[2] \in Runs /\ driver[d].pc \in Places(d[2])
         /\ Knows(d) \subseteq Known(d[2]) /\ Known(d[2]) \subseteq KindsOf(d[2])
         /\ \A kind : Did(d, kind) <=> kind \in Knows(d)
<1>1. DriverInv(d) /\ d[2] \in Runs /\ driver[d].pc \in Places(d[2])
  BY DEF IInv, Types, DriversInv, Drivers
<1> QED BY <1>1, KnowsIsKnown, DidIsKnows DEF IInv, Copies

\* Nothing of the record or of what has happened changes.
LEMMA Unchanged ==
  ASSUME IInv, UNCHANGED <<record, history>>
  PROVE  /\ UNCHANGED <<raises, status, cancelReq, reopened, strayed>> /\ Grows /\ Stands
         /\ \A r : Over(r)' <=> Over(r)
         /\ \A known : Cared(known)' <=> Cared(known)
BY DEF record, history, Grows, Stands, Over, Cared, IInv, Types

\* A run is started once, by the driver that journals it or by an earlier one.
LEMMA JournalStartStep ==
  ASSUME IInv, NEW d \in Drivers, JournalStart(d)
  PROVE  IInv'
<1>1. d[2] \in Runs /\ In(d, "start") /\ UNCHANGED <<record, history>>
  BY DEF JournalStart, Drivers
<1>2. /\ UNCHANGED <<raises, status, cancelReq, reopened, strayed>> /\ Grows
      /\ \A r : Over(r)' <=> Over(r)
      /\ \A known : Cared(known)' <=> Cared(known)
  BY <1>1, Unchanged
<1>3. "RUN_STARTED" \in KindsOf(d[2]) /\ "body" \in Places(d[2])
  BY DEF KindsOf, Kinds, Places
<1>4. DriverInv(d) /\ \A kind : Did(d, kind) <=> kind \in Knows(d)
  BY WriterFacts
<1>5. CASE Did(d, "RUN_STARTED")
  <2>1. Go(d, "body") /\ UNCHANGED <<raises, status, journal, spans, lease>>
    BY <1>2, <1>5 DEF JournalStart, OnceThen
  <2>2. ASSUME driver'[d].pc = "body", driver'[d].flag = driver[d].flag, Knows(d)' = Knows(d),
               driver'[d].news = "none", driver'[d].asked = FALSE
        PROVE  DriverInv(d)'
    BY <1>1, <1>2, <1>4, <1>5, <2>2 DEF DriverInv, In, Busy, Final
  <2> QED BY <1>2, <1>3, <2>1, <2>2, Went
<1>6. CASE ~Did(d, "RUN_STARTED")
  <2>1. AppendThen(d, "RUN_STARTED", "body")
    BY <1>6 DEF JournalStart, OnceThen
  <2>2. ASSUME Wrote(d, "RUN_STARTED", "body")
        PROVE  /\ DriverInv(d)'
               /\ d[2] = "c" => ChildInv'
               /\ d[2] = "p" => ParentInv'
    <3>1. /\ Knows(d)' = Knows(d) \cup {"RUN_STARTED"} /\ Knows(d) = Known(d[2])
          /\ Known(d[2])' = Known(d[2]) \cup {"RUN_STARTED"}
          /\ driver'[d].pc = "body" /\ driver'[d].flag = driver[d].flag
          /\ driver'[d].news = "none" /\ driver'[d].asked = FALSE
      BY <2>2 DEF Wrote
    <3>2. DriverInv(d)'
      BY <1>1, <1>2, <1>4, <3>1 DEF DriverInv, In, Busy, Final
    <3>3. d[2] = "c" => ChildInv'
      BY <1>1, <1>2, <1>4, <3>1 DEF IInv, ChildInv, DriverInv, In, Busy
    <3>4. d[2] = "p" => ParentInv'
      <4>1. Cared(Known("p")) /\ d[2] = "p" => Cared(Known("p"))'
        BY <1>2, <3>1 DEF Cared
      <4> QED BY <1>2, <3>1, <4>1 DEF IInv, ParentInv
    <3> QED BY <3>2, <3>3, <3>4
  <2> QED BY <1>1, <1>3, <1>4, <1>6, <2>1, <2>2, Written
<1> QED BY <1>5, <1>6

\* The end of the child's step, which nobody has ended before.
LEMMA EndStepStep ==
  ASSUME IInv, NEW d \in Drivers, EndStep(d)
  PROVE  IInv'
<1>1. In(d, "step") /\ UNCHANGED <<record, history>> /\ AppendThen(d, "STEP_COMPLETED", "body")
  BY DEF EndStep
<1>2. d[2] = "c" /\ DriverInv(d)
  BY <1>1, WriterFacts DEF Places, In, Runs, Final
<1>3. "STEP_COMPLETED" \in KindsOf(d[2]) /\ "body" \in Places(d[2])
  BY <1>2 DEF KindsOf, Kinds, Places
<1>4. UNCHANGED <<raises, status, cancelReq, reopened, strayed>> /\ \A r : Over(r)' <=> Over(r)
  BY <1>1, Unchanged
<1>5. ASSUME Wrote(d, "STEP_COMPLETED", "body")
      PROVE  DriverInv(d)' /\ ChildInv'
  <2>1. /\ Knows(d)' = Knows(d) \cup {"STEP_COMPLETED"} /\ Knows(d) = Known("c")
        /\ Known("c")' = Known("c") \cup {"STEP_COMPLETED"}
        /\ driver'[d].pc = "body" /\ driver'[d].flag = driver[d].flag
        /\ driver'[d].news = "none" /\ driver'[d].asked = FALSE
    BY <1>2, <1>5 DEF Wrote
  <2>2. DriverInv(d)'
    BY <1>1, <1>2, <1>4, <2>1 DEF DriverInv, In, Busy, Final
  <2>3. ChildInv'
    BY <1>1, <1>2, <1>4, <2>1 DEF IInv, ChildInv, DriverInv, In, Busy
  <2> QED BY <2>2, <2>3
<1> QED BY <1>1, <1>2, <1>3, <1>5, Written

\* The child is journaled before it is started, and by a driver that has not
\* been asked to stop: if the parent was cancelled before, it was reopened.
LEMMA ScheduleChildStep ==
  ASSUME IInv, NEW d \in Drivers, ScheduleChild(d)
  PROVE  IInv'
<1>1. /\ In(d, "body") /\ UNCHANGED <<record, history>> /\ d[2] = "p" /\ ~driver[d].flag
      /\ AppendThen(d, "CHILD_SCHEDULED", "body") /\ "CHILD_SCHEDULED" \notin Knows(d)
  BY DidIsKnows DEF ScheduleChild, In, Asks
<1>2. "CHILD_SCHEDULED" \in KindsOf(d[2]) /\ "body" \in Places(d[2]) /\ DriverInv(d)
  BY <1>1, WriterFacts DEF KindsOf, Kinds, Places
<1>3. UNCHANGED <<raises, status, cancelReq, reopened, strayed>> /\ \A r : Over(r)' <=> Over(r)
  BY <1>1, Unchanged
<1>4. ASSUME Wrote(d, "CHILD_SCHEDULED", "body")
      PROVE  DriverInv(d)' /\ ParentInv'
  <2>1. /\ Knows(d)' = Knows(d) \cup {"CHILD_SCHEDULED"} /\ Knows(d) = Known("p")
        /\ Known("p")' = Known("p") \cup {"CHILD_SCHEDULED"}
        /\ driver'[d].pc = "body" /\ driver'[d].flag = driver[d].flag
        /\ driver'[d].news = "none" /\ driver'[d].asked = FALSE
    BY <1>1, <1>4 DEF Wrote
  <2>2. DriverInv(d)'
    BY <1>1, <1>2, <1>3, <2>1 DEF DriverInv, In, Busy, Final
  <2>3. ParentInv'
    BY <1>1, <1>2, <1>3, <2>1 DEF IInv, ParentInv, DriverInv
  <2> QED BY <2>2, <2>3
<1> QED BY <1>1, <1>2, <1>4, Written

\* What the parent journals is what the child's record says.
LEMMA TakeOutcomeStep ==
  ASSUME IInv, NEW d \in Drivers, TakeOutcome(d)
  PROVE  IInv'
<1> DEFINE kind == Outcome(d)
<1>1. /\ In(d, "await") /\ UNCHANGED <<record, history>> /\ Answered(d)
      /\ AppendThen(d, kind, "body")
  BY DEF TakeOutcome
<1>2. d[2] = "p" /\ DriverInv(d)
  BY <1>1, WriterFacts DEF Places, In, Runs, Final
<1>3. /\ kind \in {"CHILD_COMPLETED", "CHILD_FAILED"} /\ Over("c")
      /\ kind = "CHILD_COMPLETED" => status["c"] = "COMPLETED" \/ "c" \in reopened
      /\ kind = "CHILD_FAILED" => status["c"] # "COMPLETED" \/ "c" \in reopened
  BY <1>1, <1>2 DEF Outcome, Answered, DriverInv, Hears, Final
<1> HIDE DEF kind
<1>4. kind \in KindsOf(d[2]) /\ "body" \in Places(d[2])
  BY <1>2, <1>3 DEF KindsOf, Kinds, Places
<1>5. UNCHANGED <<raises, status, cancelReq, reopened, strayed>> /\ \A r : Over(r)' <=> Over(r)
  BY <1>1, Unchanged
<1>6. ASSUME Wrote(d, kind, "body")
      PROVE  DriverInv(d)' /\ ParentInv'
  <2>1. /\ Knows(d)' = Knows(d) \cup {kind} /\ Known("p")' = Known("p") \cup {kind}
        /\ driver'[d].pc = "body" /\ driver'[d].flag = driver[d].flag
        /\ driver'[d].news = "none" /\ driver'[d].asked = FALSE
    BY <1>2, <1>6 DEF Wrote
  <2>2. DriverInv(d)'
    BY <1>1, <1>2, <1>3, <1>5, <2>1 DEF DriverInv, In, Busy, Final
  <2>3. ParentInv'
    <3>1. Cared(Known("p"))'
      BY <1>3, <1>5 DEF Cared
    <3> QED BY <1>3, <1>5, <2>1, <3>1 DEF IInv, ParentInv
  <2> QED BY <2>2, <2>3
<1> QED BY <1>1, <1>2, <1>3, <1>4, <1>6, Written

\* A compensation tells nothing of the outcome.
LEMMA CompensateStep ==
  ASSUME IInv, NEW d \in Drivers, Compensate(d)
  PROVE  IInv'
<1> DEFINE p == driver[d].pc
<1>1. /\ UNCHANGED <<record, history>> /\ AppendThen(d, "COMP_COMPLETED", p)
      /\ p \in {"cancelled", "failed", "body"}
  BY DEF Compensate, Failing, Settled, In
<1>2. d[2] \in Runs /\ DriverInv(d) /\ p \in Places(d[2]) /\ p # "down"
  BY <1>1, WriterFacts
<1>3. "COMP_COMPLETED" \in KindsOf(d[2])
  BY DEF KindsOf, Kinds, Terminal
<1>4. /\ UNCHANGED <<raises, status, cancelReq, reopened, strayed>>
      /\ \A r : Over(r)' <=> Over(r)
  BY <1>1, Unchanged
<1>5. ASSUME Wrote(d, "COMP_COMPLETED", p)
      PROVE  /\ DriverInv(d)'
             /\ d[2] = "c" => ChildInv'
             /\ d[2] = "p" => ParentInv'
  <2>1. /\ Knows(d)' = Knows(d) \cup {"COMP_COMPLETED"} /\ Knows(d) = Known(d[2])
        /\ Known(d[2])' = Known(d[2]) \cup {"COMP_COMPLETED"}
        /\ driver'[d].pc = driver[d].pc /\ driver'[d].flag = driver[d].flag
        /\ driver'[d].news = "none" /\ driver'[d].asked = FALSE
    BY <1>5 DEF Wrote
  <2>2. Cared(Knows(d)) => Cared(Knows(d))'
    BY <1>4, <2>1 DEF Cared
  <2>3. DriverInv(d)'
    BY <1>1, <1>2, <1>4, <2>1, <2>2 DEF DriverInv, In, Busy, Final
  <2>4. d[2] = "c" => ChildInv'
    BY <1>1, <1>2, <1>4, <2>1 DEF IInv, ChildInv, DriverInv, In, Busy
  <2>5. d[2] = "p" => ParentInv'
    <3>1. d[2] = "p" /\ Cared(Known("p")) => Cared(Known("p"))'
      BY <1>4, <2>1 DEF Cared
    <3> QED BY <1>1, <1>4, <2>1, <3>1 DEF IInv, ParentInv
  <2> QED BY <2>3, <2>4, <2>5
<1> HIDE DEF p
<1> QED BY <1>1, <1>2, <1>3, <1>5, Written

\* Who closes a journal knows whether the child was completed, or needs to be told.
LEMMA EndRunStep ==
  ASSUME IInv, NEW d \in Drivers, End(d)
  PROVE  IInv'
<1>1. UNCHANGED <<record, history>> /\ driver[d].pc \in {"cancelled", "failed", "body"}
  BY DEF End, Failing, Settled, In
<1>2. /\ d[2] \in Runs /\ DriverInv(d) /\ driver[d].pc \in Places(d[2])
      /\ Knows(d) \subseteq Known(d[2]) /\ Known(d[2]) \subseteq KindsOf(d[2])
      /\ \A kind : Did(d, kind) <=> kind \in Knows(d)
  BY WriterFacts
<1>3. /\ UNCHANGED <<raises, status, cancelReq, reopened, strayed>> /\ Grows
      /\ \A r : Over(r)' <=> Over(r)
      /\ \A known : Cared(known)' <=> Cared(known)
  BY <1>1, Unchanged
\* What is known when a run is closed with this event.
<1> DEFINE Ready(kind) ==
      /\ kind = "RUN_CANCELLED" => driver[d].flag
      /\ d[2] = "c" /\ kind = "RUN_CANCELLED" => "STEP_COMPLETED" \notin Knows(d)
      /\ d[2] = "c" /\ kind = "RUN_FAILED" => "STEP_COMPLETED" \in Knows(d) /\ "c" \in raises
      /\ d[2] = "c" /\ kind = "RUN_COMPLETED" => "STEP_COMPLETED" \in Knows(d) /\ "c" \notin raises
      /\ d[2] = "p" /\ kind = "RUN_CANCELLED" => Cared(Knows(d)) \/ strayed
      /\ d[2] = "p" /\ kind = "RUN_FAILED" => Over("c") \/ strayed
      /\ d[2] = "p" /\ kind = "RUN_COMPLETED" => Over("c")
<1>4. PICK p \in Final : OnceThen(d, Closing(p), p) /\ Ready(Closing(p))
  <2>1. Settled(d) => /\ d[2] = "p" => Over("c")
                      /\ d[2] = "c" => "STEP_COMPLETED" \in Knows(d) /\ ~Did(d, "CHILD_FAILED")
    BY <1>2 DEF KindsOf, Kinds, IInv, ParentInv, Settled
  <2>2. CASE In(d, "cancelled") /\ Undone(d) /\ OnceThen(d, "RUN_CANCELLED", "CANCELLED")
    <3>1. Ready("RUN_CANCELLED") /\ Closing("CANCELLED") = "RUN_CANCELLED" /\ "CANCELLED" \in Final
      BY <1>2, <2>2 DEF DriverInv, In, Closing, Final
    <3> QED BY <2>2, <3>1
  <2>3. CASE Failing(d) /\ Undone(d) /\ OnceThen(d, "RUN_FAILED", "FAILED")
    <3>1. Ready("RUN_FAILED") /\ Closing("FAILED") = "RUN_FAILED" /\ "FAILED" \in Final
      <4>1. CASE In(d, "failed")
        BY <1>2, <4>1 DEF DriverInv, In, Closing, Final, Places
      <4>2. CASE Settled(d) /\ Fails(d)
        BY <1>2, <2>1, <4>2 DEF Fails, Closing, Final
      <4> QED BY <2>3, <4>1, <4>2 DEF Failing
    <3> QED BY <2>3, <3>1
  <2>4. CASE Settled(d) /\ ~Fails(d) /\ OnceThen(d, "RUN_COMPLETED", "COMPLETED")
    <3>1. Ready("RUN_COMPLETED") /\ Closing("COMPLETED") = "RUN_COMPLETED" /\ "COMPLETED" \in Final
      BY <1>2, <2>1, <2>4 DEF Fails, Closing, Final
    <3> QED BY <2>4, <3>1
  <2> QED BY <2>2, <2>3, <2>4 DEF End
<1> DEFINE kind == Closing(p)
<1>5. kind \in Terminal /\ p \in Places(d[2]) /\ p # "down" /\ p \notin {"start", "attach", "step"}
      /\ p \notin {"cancelled", "stopping", "propagate", "failed"}
  BY DEF Places, Terminal, Final, Closing
<1>6. kind \in KindsOf(d[2])
  BY <1>5 DEF KindsOf, Kinds, Terminal
<1>7. "RUN_STARTED" \in Knows(d)
  BY <1>1, <1>2 DEF DriverInv
<1>8. CASE Did(d, kind)
  <2>1. Go(d, p) /\ UNCHANGED <<journal, lease, spans>>
    BY <1>4, <1>8 DEF OnceThen
  <2>2. ASSUME driver'[d].pc = p, driver'[d].flag = driver[d].flag, Knows(d)' = Knows(d),
               driver'[d].news = "none", driver'[d].asked = FALSE
        PROVE  DriverInv(d)'
    <3> HIDE DEF Ready
    <3>1. Closing(driver'[d].pc) \in Knows(d)'
      BY <1>2, <1>8, <2>2
    <3> HIDE DEF kind
    <3> QED BY <1>1, <1>2, <1>3, <1>5, <1>7, <2>2, <3>1 DEF DriverInv, In, Busy, Final
  <2> HIDE DEF Ready, kind
  <2> QED BY <1>3, <1>5, <2>1, <2>2, Went
<1>9. CASE ~Did(d, kind)
  <2>1. AppendThen(d, kind, p)
    BY <1>4, <1>9 DEF OnceThen
  <2>2. ASSUME Wrote(d, kind, p)
        PROVE  /\ DriverInv(d)'
               /\ d[2] = "c" => ChildInv'
               /\ d[2] = "p" => ParentInv'
    <3>1. /\ Knows(d) = Known(d[2]) /\ Knows(d)' = Knows(d) \cup {kind}
          /\ Known(d[2])' = Known(d[2]) \cup {kind}
          /\ driver'[d].pc = p /\ driver'[d].flag = driver[d].flag
          /\ driver'[d].news = "none" /\ driver'[d].asked = FALSE
      BY <2>2 DEF Wrote
    <3>2. Closing(driver'[d].pc) \in Knows(d)'
      BY <3>1
    <3>3. Ready(kind)
      BY <1>4
    <3> HIDE DEF kind
    <3>4. DriverInv(d)'
      BY <1>1, <1>2, <1>3, <1>5, <1>7, <3>1, <3>2, <3>3 DEF DriverInv, In, Busy, Final, Terminal
    <3>5. d[2] = "c" => ChildInv'
      <4>1. d[2] = "c" => status["c"] # "absent"
        BY <1>1, <1>2 DEF DriverInv, Busy, In
      <4> QED BY <1>3, <1>5, <1>7, <3>1, <3>3, <4>1 DEF IInv, ChildInv, Terminal
    <3>6. d[2] = "p" => ParentInv'
      <4>1. d[2] = "p" /\ Cared(Known("p")) => Cared(Known("p"))'
        BY <1>3, <1>5, <3>1 DEF Cared, Terminal
      <4> QED BY <1>3, <1>5, <3>1, <3>3, <4>1 DEF IInv, ParentInv, Terminal
    <3> QED BY <3>4, <3>5, <3>6
  <2>3. kind \notin {"RUN_STARTED", "CHILD_SCHEDULED", "CHILD_COMPLETED", "CHILD_FAILED"}
    BY <1>5 DEF Terminal
  <2> HIDE DEF Ready, kind
  <2> QED BY <1>1, <1>5, <1>6, <2>1, <2>2, <2>3, Written
<1> QED BY <1>8, <1>9

-----------------------------------------------------------------------------
(* Moving drivers *)

\* A driver that heeds a cancellation has not completed its step.
LEMMA HeedsFacts ==
  ASSUME IInv, NEW d \in Drivers, Heeds(d)
  PROVE  /\ Busy(d) /\ driver[d].flag /\ "RUN_STARTED" \in Knows(d) /\ ~In(d, "stopping")
         /\ d[2] = "c" => "STEP_COMPLETED" \notin Knows(d)
<1>1. Busy(d) /\ driver[d].pc \in {"body", "step", "attach", "await", "propagate"}
  BY DEF Heeds, Busy, In
<1>2. /\ DriverInv(d) /\ driver[d].pc \in Places(d[2])
      /\ \A kind : Did(d, kind) <=> kind \in Knows(d)
  BY WriterFacts
<1> QED BY <1>1, <1>2 DEF Heeds, Settled, In, DriverInv, Places, Final

\* Who sees the request for cancellation sees one that was made.
LEMMA SeeCancelStep ==
  ASSUME IInv, NEW d \in Drivers, SeeCancel(d)
  PROVE  IInv'
<1> DEFINE x == [driver[d] EXCEPT !.flag = TRUE]
<1>1. driver[d] \in States /\ driver[d].pc \in Places(d[2]) /\ DriverInv(d) /\ d[2] \in Runs
  BY WriterFacts DEF IInv, Types
<1>2. /\ x.pc = driver[d].pc /\ x.flag = TRUE /\ x.mine = driver[d].mine /\ x \in States
      /\ x.news = driver[d].news /\ x.asked = driver[d].asked
  BY <1>1 DEF States
<1>3. /\ driver' = [driver EXCEPT ![d] = x] /\ Busy(d) /\ cancelReq[d[2]]
      /\ UNCHANGED <<record, history, journal, spans, lease>>
  BY DEF SeeCancel
<1>4. /\ UNCHANGED <<raises, status, cancelReq, reopened, strayed>> /\ Grows
      /\ \A r : Over(r)' <=> Over(r)
      /\ \A known : Cared(known)' <=> Cared(known)
  BY <1>3, Unchanged
<1> HIDE DEF x
<1>5. ASSUME driver'[d] = x, Knows(d)' = Knows(d) PROVE DriverInv(d)'
  <2>1. Cared(Knows(d))' <=> Cared(Knows(d))
    BY <1>4, <1>5 DEF Cared
  <2> QED BY <1>1, <1>2, <1>3, <1>4, <1>5, <2>1 DEF DriverInv, Busy, In
<1> QED BY <1>1, <1>2, <1>3, <1>4, <1>5, Moved DEF Busy, In

\* A cancelled parent that has not scheduled its child has none.
LEMMA CheckCancelStep ==
  ASSUME IInv, NEW d \in Drivers, CheckCancel(d)
  PROVE  IInv'
<1>1. /\ In(d, "body") /\ Asks(d) /\ driver[d].flag /\ Go(d, "cancelled")
      /\ UNCHANGED <<record, history, journal, spans, lease>>
  BY DEF CheckCancel, Asks, In
<1>2. /\ d[2] \in Runs /\ DriverInv(d) /\ \A kind : Did(d, kind) <=> kind \in Knows(d)
  BY WriterFacts
<1>3. UNCHANGED <<raises, status, cancelReq, reopened, strayed>> /\ Grows
  BY <1>1, Unchanged
<1>4. ASSUME driver'[d].pc = "cancelled", driver'[d].flag = driver[d].flag, Knows(d)' = Knows(d),
             driver'[d].news = "none", driver'[d].asked = FALSE
      PROVE  DriverInv(d)'
  <2>1. d[2] = "p" => Cared(Knows(d))'
    BY <1>1, <1>2, <1>4 DEF Asks, Cared
  <2> QED BY <1>1, <1>2, <1>3, <1>4, <2>1, RecordsKept DEF DriverInv, Asks, Busy, In, Final, Stands
<1>5. "cancelled" \in Places(d[2])
  BY DEF Places
<1> QED BY <1>1, <1>3, <1>4, <1>5, Went

\* A child that is not cancelled begins the step it has not completed.
LEMMA BeginStepStep ==
  ASSUME IInv, NEW d \in Drivers, BeginStep(d)
  PROVE  IInv'
<1>1. /\ In(d, "body") /\ Asks(d) /\ ~driver[d].flag /\ Go(d, "step") /\ d[2] = "c"
      /\ UNCHANGED <<record, history, journal, spans, lease>>
  BY DEF BeginStep, Asks, In
<1>2. DriverInv(d) /\ \A kind : Did(d, kind) <=> kind \in Knows(d)
  BY WriterFacts
<1>3. UNCHANGED <<raises, status, cancelReq, reopened, strayed>> /\ Grows /\ "step" \in Places(d[2])
  BY <1>1, Unchanged DEF Places
<1>4. ASSUME driver'[d].pc = "step", driver'[d].flag = driver[d].flag, Knows(d)' = Knows(d),
             driver'[d].news = "none", driver'[d].asked = FALSE
      PROVE  DriverInv(d)'
  BY <1>1, <1>2, <1>3, <1>4 DEF DriverInv, Asks, Busy, In, Final
<1> QED BY <1>1, <1>3, <1>4, Went

\* Whatever a cancelled parent leaves behind is asked to stop.
LEMMA PropagateStep ==
  ASSUME IInv, NEW d \in Drivers, Propagate(d)
  PROVE  IInv'
<1>1. /\ In(d, "propagate") /\ Go(d, "cancelled") /\ cancelReq' = Requested
      /\ UNCHANGED <<raises, status, journal, spans, lease, reopened, strayed>>
  BY DEF Propagate, history
<1>2. DriverInv(d) /\ d[2] = "p" /\ "cancelled" \in Places(d[2])
  BY <1>1, WriterFacts DEF Places, In, Runs, Final
<1>3. Grows /\ \A known : Cared(known)'
  BY <1>1 DEF Grows, IInv, Types, Requested, Cared, Over, Runs
<1>4. ASSUME driver'[d].pc = "cancelled", driver'[d].flag = driver[d].flag, Knows(d)' = Knows(d),
             driver'[d].news = "none", driver'[d].asked = FALSE
      PROVE  DriverInv(d)'
  <2>1. "p" \in Runs /\ (driver'[d].flag => cancelReq'[d[2]])
    BY <1>2, <1>3, <1>4 DEF DriverInv, Grows, Runs
  <2>2. Cared(Knows(d))'
    BY <1>3 DEF Cared
  <2> QED BY <1>1, <1>2, <1>4, <2>1, <2>2 DEF DriverInv, Busy, In, Final
<1> QED BY <1>1, <1>2, <1>3, <1>4, Went

\* An error of the child's driver fails the parent, which has not seen it over.
LEMMA ChildErredStep ==
  ASSUME IInv, NEW d \in Drivers, ChildErred(d)
  PROVE  IInv'
<1>1. /\ In(d, "await") /\ Go(d, "failed") /\ strayed'
      /\ strayed' \in BOOLEAN /\ UNCHANGED <<raises, status, cancelReq, journal, spans, lease, reopened>>
  BY DEF ChildErred, record
<1>2. DriverInv(d) /\ d[2] = "p" /\ "failed" \in Places(d[2])
  BY <1>1, WriterFacts DEF Places, In, Runs, Final
<1>3. Grows
  BY <1>1 DEF Grows, IInv, Types
<1>4. ASSUME driver'[d].pc = "failed", driver'[d].flag = driver[d].flag, Knows(d)' = Knows(d),
             driver'[d].news = "none", driver'[d].asked = FALSE
      PROVE  DriverInv(d)'
  BY <1>1, <1>2, <1>4 DEF DriverInv, Busy, In, Final
<1> QED BY <1>1, <1>2, <1>3, <1>4, Went

\* A parent that has stopped its child's task goes on to ask the child, unless
\* that raises something else.
LEMMA ChildGoneStep ==
  ASSUME IInv, NEW d \in Drivers, ChildGone(d)
  PROVE  IInv'
<1>1. /\ In(d, "stopping")
      /\ UNCHANGED <<raises, status, cancelReq, journal, spans, lease, reopened>>
  BY DEF ChildGone, record
<1>2. DriverInv(d) /\ d[2] = "p" /\ "failed" \in Places(d[2]) /\ "propagate" \in Places(d[2])
  BY <1>1, WriterFacts DEF Places, In, Runs, Final
<1>3. CASE Go(d, "propagate") /\ UNCHANGED strayed
  <2>1. Grows
    BY <1>1, <1>3 DEF Grows, IInv, Types
  <2>2. ASSUME driver'[d].pc = "propagate", driver'[d].flag = driver[d].flag, Knows(d)' = Knows(d),
               driver'[d].news = "none", driver'[d].asked = FALSE
        PROVE  DriverInv(d)'
    BY <1>1, <1>2, <2>2 DEF DriverInv, Busy, In, Final
  <2> QED BY <1>1, <1>2, <1>3, <2>1, <2>2, Went
<1>4. CASE /\ driver[d].news \in {"FAILED", "CANCELLED", "error"} /\ Go(d, "failed")
           /\ strayed' = (strayed \/ Hears(d, "error"))
  <2>1. Grows
    BY <1>1, <1>4 DEF Grows, IInv, Types
  <2>2. Over("c")' \/ strayed'
    BY <1>1, <1>2, <1>4 DEF DriverInv, Hears, Final, Over
  <2>3. ASSUME driver'[d].pc = "failed", driver'[d].flag = driver[d].flag, Knows(d)' = Knows(d),
               driver'[d].news = "none", driver'[d].asked = FALSE
        PROVE  DriverInv(d)'
    BY <1>1, <1>2, <2>2, <2>3 DEF DriverInv, Busy, In, Final
  <2> QED BY <1>1, <1>2, <1>4, <2>1, <2>3, Went
<1> QED BY <1>3, <1>4 DEF ChildGone

-----------------------------------------------------------------------------
(* Interruptions *)

\* A driver that is driver[e] but for what it was told, that is given up, or
\* that takes the way of a cancelled run.
Fate(e, x) ==
  \/ x = Idle
  \/ /\ Heeds(e) /\ x.pc = "cancelled" /\ x.news = "none" /\ x.asked = FALSE
     /\ x.mine = driver[e].mine /\ x.flag = driver[e].flag /\ x \in States
  \/ /\ x.pc = driver[e].pc /\ x.asked = driver[e].asked
     /\ x.news = driver[e].news \/ (x.news = "stopped" /\ e[2] = "p")
     /\ x.mine = driver[e].mine /\ x.flag = driver[e].flag /\ x \in States
     /\ In(e, "down") => x = Idle

\* What an interruption makes of each driver.
LEMMA StoppedFacts ==
  ASSUME IInv, NEW ds \in SUBSET Drivers, NEW e \in Drivers
  PROVE  /\ Fate(e, Stopped(ds)[e])
         /\ Hit(ds) \subseteq Drivers
         /\ e[2] = "p" => (e \in Hit(ds) <=> e \in ds)
<1>1. /\ driver[e] \in States /\ driver[e].pc \in Places(e[2]) /\ e[2] \in Runs
      /\ In(e, "down") => driver[e] = Idle
  BY DEF IInv, Types, Copies, Drivers
<1>2. Hit(ds) \subseteq Drivers /\ (e[2] = "p" => (e \in Hit(ds) <=> e \in ds))
  BY DEF Hit, Child, Drivers, Runs
<1>3. "stopped" \in News /\ In(e, "down") => Idle = driver[e]
  BY <1>1 DEF News
<1>4. Fate(e, driver[e])
  BY <1>1, <1>3 DEF Fate
<1>5. ASSUME Busy(e), e[2] = "p" PROVE Fate(e, [driver[e] EXCEPT !.news = "stopped"])
  <2> DEFINE x == [driver[e] EXCEPT !.news = "stopped"]
  <2>1. /\ x.pc = driver[e].pc /\ x.asked = driver[e].asked /\ x.news = "stopped"
        /\ x.mine = driver[e].mine /\ x.flag = driver[e].flag /\ x \in States
    <3>1. "stopped" \in News
      BY DEF News
    <3> HIDE DEF News
    <3> QED BY <1>1, <3>1 DEF States
  <2> HIDE DEF x
  <2> QED BY <1>5, <2>1 DEF Fate, Busy, x
<1>6. ASSUME Heeds(e) PROVE Fate(e, At(e, "cancelled"))
  <2>1. "cancelled" \in Places(e[2])
    BY DEF Places
  <2> QED BY <1>6, <2>1, AtFacts DEF Fate, IInv
<1>7. In(e, "stopping") => Busy(e) /\ e[2] = "p"
  BY <1>1 DEF Places, Final, In, Busy, Runs
<1>8. Fate(e, Stopped(ds)[e])
  <2>1. CASE e \in Hit(ds)
    <3>1. Stopped(ds)[e] = Struck(e)
      BY <2>1 DEF Stopped
    <3>2. Fate(e, Idle)
      BY DEF Fate
    <3>3. CASE In(e, "stopping")
      <4>1. ~Heeds(e)
        BY <3>3 DEF Heeds, In
      <4> QED BY <1>5, <1>7, <3>1, <3>3, <4>1 DEF Struck
    <3>4. CASE Heeds(e)
      <4>1. ~In(e, "stopping")
        BY <3>4 DEF Heeds, In
      <4> QED BY <1>6, <3>1, <3>4, <4>1 DEF Struck
    <3>5. CASE ~In(e, "stopping") /\ ~Heeds(e)
      BY <3>1, <3>2, <3>5 DEF Struck
    <3> QED BY <3>3, <3>4, <3>5
  <2>2. CASE e \notin Hit(ds)
    <3>1. Stopped(ds)[e] = Told(e, Gone(ds), "stopped")
      BY <2>2 DEF Stopped
    <3> QED BY <1>4, <1>5, <3>1, WhoIsTold DEF Told
  <2> QED BY <2>1, <2>2
<1> QED BY <1>2, <1>8

\* A parent that heeds an interruption is known to have strayed.
LEMMA FateInv ==
  ASSUME IInv, NEW e \in Drivers, Fate(e, driver'[e]), Grows, Stands,
         e[2] = "p" /\ driver'[e].pc = "cancelled" => driver[e].pc = "cancelled" \/ strayed'
  PROVE  Stays(e) /\ DriverInv(e)'
<1>1. /\ driver[e] \in States /\ driver[e].pc \in Places(e[2]) /\ DriverInv(e) /\ e[2] \in Runs
      /\ "c" \in Runs
  BY WriterFacts DEF IInv, Types, Runs
<1>2. CASE driver'[e] = Idle
  BY <1>2, IdleStays
<1>3. CASE /\ Heeds(e) /\ driver'[e].pc = "cancelled"
           /\ driver'[e].news = "none" /\ driver'[e].asked = FALSE
           /\ driver'[e].mine = driver[e].mine /\ driver'[e].flag = driver[e].flag
           /\ driver'[e] \in States
  <2>1. /\ Busy(e) /\ driver[e].flag /\ "RUN_STARTED" \in Knows(e) /\ Knows(e)' = Knows(e)
        /\ e[2] = "c" => "STEP_COMPLETED" \notin Knows(e)
    BY <1>3, HeedsFacts DEF Knows
  <2>2. e[2] = "p" => strayed'
    BY <1>3 DEF Heeds
  <2>3. DriverInv(e)'
    BY <1>1, <1>3, <2>1, <2>2 DEF DriverInv, Grows, Stands, Busy, In, Final
  <2> QED BY <1>3, <2>3 DEF Stays, Places
<1>4. CASE /\ driver'[e].pc = driver[e].pc /\ driver'[e].asked = driver[e].asked
           /\ driver'[e].news = driver[e].news \/ (driver'[e].news = "stopped" /\ e[2] = "p")
           /\ driver'[e].mine = driver[e].mine /\ driver'[e].flag = driver[e].flag
           /\ driver'[e] \in States
           /\ In(e, "down") => driver'[e] = Idle
  <2>1. Knows(e)' = Knows(e)
    BY <1>4 DEF Knows
  <2>2. Cared(Knows(e)) => Cared(Knows(e))'
    BY <1>1, <2>1 DEF Cared, Grows, Stands
  <2>3. DriverInv(e)'
    BY <1>1, <1>4, <2>1, <2>2 DEF DriverInv, Grows, Stands, Busy, In, Final
  <2> QED BY <1>1, <1>4, <2>3 DEF Stays, In
<1> QED BY <1>2, <1>3, <1>4 DEF Fate

\* Whose lease is given back.
LEMMA WithoutFacts ==
  ASSUME IInv, NEW ds
  PROVE  Without(ds) \in [Runs -> Workers \cup {Nobody}]
BY DEF Without, IInv, Types

\* Tasks are cancelled.
LEMMA InterruptStep ==
  ASSUME IInv, NEW ds \in SUBSET Drivers, Interrupt(ds),
         UNCHANGED <<record, journal, spans, reopened>>
  PROVE  IInv'
<1>1. /\ driver' = Stopped(ds) /\ lease' \in [Runs -> Workers \cup {Nobody}]
      /\ strayed' = (strayed \/ \E d \in ds : d[2] = "p" /\ Heeds(d))
      /\ UNCHANGED <<raises, status, cancelReq, journal, spans, reopened>>
  BY WithoutFacts DEF Interrupt, record
<1>2. Grows
  BY <1>1 DEF Grows, IInv, Types
<1>3. Stands
  BY <1>1, <1>2, RecordsKept
<1>4. driver' = [e \in Drivers |-> driver'[e]]
  BY <1>1 DEF Stopped
<1>5. ASSUME NEW e \in Drivers PROVE Stays(e) /\ DriverInv(e)'
  <2>1. Fate(e, driver'[e]) /\ (e[2] = "p" => (e \in Hit(ds) <=> e \in ds))
    BY <1>1, StoppedFacts
  <2>2. ASSUME e[2] = "p", driver'[e].pc = "cancelled", driver[e].pc # "cancelled" PROVE strayed'
    <3>1. Heeds(e)
      BY <2>1, <2>2 DEF Fate, Idle
    <3>2. e \in ds
      <4> SUFFICES ASSUME e \notin Hit(ds) PROVE FALSE
        BY <2>1, <2>2
      <4>1. driver'[e] = Told(e, Gone(ds), "stopped")
        BY <1>1 DEF Stopped
      <4>2. driver[e] \in States
        BY DEF IInv, Types
      <4> QED BY <2>2, <4>1, <4>2 DEF Told, States
    <3> QED BY <1>1, <2>2, <3>1, <3>2
  <2> QED BY <1>2, <1>3, <2>1, <2>2, FateInv
<1> QED BY <1>1, <1>2, <1>4, <1>5, Steady


\* To write what a function has changes nothing.
LEMMA SameValue ==
  ASSUME NEW S, NEW T, NEW f \in [S -> T], NEW x \in S
  PROVE  [f EXCEPT ![x] = f[x]] = f
OBVIOUS

\* Nobody's heartbeat goes on where no driver is.
LEMMA IdleIsSilent == [Idle EXCEPT !.beats = FALSE] = Idle
<1>1. Idle \in [DOMAIN Idle -> {Idle[i] : i \in DOMAIN Idle}]
  BY DEF Idle
<1>2. "beats" \in DOMAIN Idle /\ Idle["beats"] = FALSE
  BY DEF Idle
<1> HIDE DEF Idle
<1> QED BY <1>1, <1>2, SameValue

\* The heartbeat that finds the lease gone ends, whatever becomes of its driver.
LEMMA FencedStep ==
  ASSUME IInv, NEW d \in Drivers, Fenced(d)
  PROVE  IInv'
<1> DEFINE after == Stopped({d})
           x == [after[d] EXCEPT !.beats = FALSE]
<1>1. /\ driver' = [after EXCEPT ![d] = x] /\ lease' \in [Runs -> Workers \cup {Nobody}]
      /\ strayed' = (strayed \/ (d[2] = "p" /\ Heeds(d)))
      /\ UNCHANGED <<raises, status, cancelReq, journal, spans, reopened>>
  BY WithoutFacts DEF Fenced, record
<1>2. Grows
  BY <1>1 DEF Grows, IInv, Types
<1>3. Stands
  BY <1>1, <1>2, RecordsKept
<1>4. /\ driver'[d] = x /\ \A e \in Drivers : e # d => driver'[e] = after[e]
      /\ driver' = [e \in Drivers |-> driver'[e]]
  BY <1>1 DEF Stopped
<1>5. \A e \in Drivers : /\ Fate(e, after[e])
                         /\ e[2] = "p" => (e \in Hit({d}) <=> e = d)
  BY StoppedFacts
<1>6. Fate(d, x)
  <2>1. <<>> \in Seq(Kinds) /\ driver[d] \in States
    BY EmptySeq DEF IInv, Types
  <2>2. Idle \in States /\ [Idle EXCEPT !.beats = FALSE] = Idle
    <3> HIDE DEF after, x
    <3>1. Idle \in States
      BY <2>1 DEF Idle, States, AnyPlace, Places, News
    <3>2. [Idle EXCEPT !.beats = FALSE] = Idle
      BY IdleIsSilent
    <3> QED BY <3>1, <3>2
  <2>3. after[d] \in States
    <3> HIDE DEF after
    <3> QED BY <1>5, <2>2 DEF Fate
  <2>4. /\ x.pc = after[d].pc /\ x.mine = after[d].mine /\ x.flag = after[d].flag
        /\ x.news = after[d].news /\ x.asked = after[d].asked /\ x \in States
        /\ after[d] = Idle => x = Idle
    <3> HIDE DEF after
    <3> QED BY <2>2, <2>3 DEF States
  <2> HIDE DEF x, after
  <2> QED BY <1>5, <2>4 DEF Fate
<1> HIDE DEF x, after
<1>7. ASSUME NEW e \in Drivers PROVE Stays(e) /\ DriverInv(e)'
  <2>1. Fate(e, driver'[e])
    BY <1>4, <1>5, <1>6
  <2>2. ASSUME e[2] = "p", driver'[e].pc = "cancelled", driver[e].pc # "cancelled" PROVE strayed'
    <3>1. Heeds(e)
      BY <2>1, <2>2 DEF Fate, Idle
    <3>2. e = d
      <4> SUFFICES ASSUME e # d PROVE FALSE
        OBVIOUS
      <4>1. driver'[e] = Told(e, Gone({d}), "stopped")
        BY <1>4, <1>5, <2>2 DEF Stopped, after
      <4>2. driver[e] \in States
        BY DEF IInv, Types
      <4> QED BY <2>2, <4>1, <4>2 DEF Told, States
    <3> QED BY <1>1, <2>2, <3>1, <3>2
  <2> QED BY <1>2, <1>3, <2>1, <2>2, FateInv
<1> QED BY <1>1, <1>2, <1>4, <1>7, Steady

\* The end of the child's task interrupts the parent that awaits it.
LEMMA ChildStoppedStep ==
  ASSUME IInv, NEW d \in Drivers, ChildStopped(d)
  PROVE  IInv'
<1>1. {d} \in SUBSET Drivers /\ Interrupt({d}) /\ UNCHANGED <<record, journal, spans, reopened>>
  BY DEF ChildStopped
<1> QED BY <1>1, InterruptStep

\* A parent that stops its child's task waits for it to end, and is not itself
\* interrupted.
LEMMA StopWaitingStep ==
  ASSUME IInv, NEW d \in Drivers, StopWaiting(d)
  PROVE  IInv'
<1>1. /\ In(d, "await") /\ driver[d].flag
      /\ UNCHANGED <<raises, status, cancelReq, journal, spans, reopened, strayed>>
  BY DEF StopWaiting, record, history
<1>2. /\ DriverInv(d) /\ d[2] = "p" /\ "propagate" \in Places(d[2]) /\ "stopping" \in Places(d[2])
      /\ driver[d] \in States
  BY <1>1, WriterFacts DEF Places, In, Runs, Final, IInv, Types
<1>3. Grows
  BY <1>1 DEF Grows, IInv, Types
<1>4. CASE Go(d, "propagate") /\ UNCHANGED lease
  <2>1. ASSUME driver'[d].pc = "propagate", driver'[d].flag = driver[d].flag, Knows(d)' = Knows(d),
               driver'[d].news = "none", driver'[d].asked = FALSE
        PROVE  DriverInv(d)'
    BY <1>1, <1>2, <2>1 DEF DriverInv, Busy, In, Final
  <2> QED BY <1>1, <1>2, <1>3, <1>4, <2>1, Went
<1>5. CASE /\ Hears(d, "task")
           /\ LET after == Stopped({Child(d)}) IN
                driver' = [after EXCEPT ![d].pc = "stopping"]
           /\ lease' = Without(Gone({Child(d)}))
  <2> DEFINE after == Stopped({Child(d)})
             x == [after[d] EXCEPT !.pc = "stopping"]
  <2>1. Child(d) \in Drivers /\ Child(d) # d /\ lease' \in [Runs -> Workers \cup {Nobody}]
    BY <1>2, <1>5, WithoutFacts DEF Child, Drivers, Runs
  <2>2. /\ driver' = [after EXCEPT ![d] = x]
        /\ driver'[d] = x /\ (\A e \in Drivers : e # d => driver'[e] = after[e])
        /\ driver' = [e \in Drivers |-> driver'[e]]
    BY <1>5 DEF Stopped
  <2>3. \A e \in Drivers : /\ Fate(e, after[e])
                           /\ e[2] = "p" => after[e] = Told(e, Gone({Child(d)}), "stopped")
    BY <2>1, StoppedFacts DEF Stopped, Child
  <2>4. /\ x \in States /\ x.pc = "stopping" /\ x.mine = driver[d].mine /\ x.flag = driver[d].flag
        /\ x.news \in {"task", "stopped"} /\ x.asked = driver[d].asked
    <3>1. "stopped" \in News /\ "stopping" \in AnyPlace
      BY DEF News, AnyPlace, Places
    <3>2. driver[d].news = "task"
      BY <1>5 DEF Hears
    <3>3. after[d] = driver[d] \/ after[d] = [driver[d] EXCEPT !.news = "stopped"]
      BY <1>2, <2>3 DEF Told
    <3> HIDE DEF after, News, AnyPlace
    <3> QED BY <1>2, <3>1, <3>2, <3>3 DEF States
  <2>5. Stands
    BY <1>1, <1>3, RecordsKept
  <2> HIDE DEF x, after
  <2>6. ASSUME NEW e \in Drivers PROVE Stays(e) /\ DriverInv(e)'
    <3>1. CASE e = d
      <4>1. Knows(d)' = Knows(d)
        BY <2>2, <2>4 DEF Knows
      <4>2. DriverInv(d)'
        BY <1>1, <1>2, <2>2, <2>4, <4>1 DEF DriverInv, Busy, In, Final
      <4> QED BY <1>2, <2>2, <2>4, <3>1, <4>2 DEF Stays
    <3>2. CASE e # d
      <4>1. Fate(e, driver'[e])
        BY <2>2, <2>3, <3>2
      <4>2. ASSUME e[2] = "p", driver'[e].pc = "cancelled" PROVE driver[e].pc = "cancelled"
        <5>1. driver'[e] = Told(e, Gone({Child(d)}), "stopped") /\ driver[e] \in States
          BY <2>2, <2>3, <3>2, <4>2 DEF IInv, Types
        <5> QED BY <4>2, <5>1 DEF Told, States
      <4> QED BY <1>3, <2>5, <4>1, <4>2, FateInv
    <3> QED BY <3>1, <3>2
  <2> QED BY <1>1, <1>3, <2>1, <2>2, <2>6, Steady
<1> QED BY <1>4, <1>5 DEF StopWaiting

-----------------------------------------------------------------------------
(* Drivers that start *)

\* A driver that starts has the whole journal, and is flagged if the record it
\* starts from was; if that was not, its run is on record as reopened.
LEMMA StartFacts ==
  ASSUME IInv, NEW d \in Drivers, NEW request \in BOOLEAN, request => cancelReq[d[2]],
         d[2] = "c" => status'["c"] # "absent",
         driver'[d] = Spawned(d[2], request), reopened' = Reopens(d[2], request),
         cancelReq' = cancelReq
  PROVE  /\ Stays(d) /\ DriverInv(d)'
         /\ reopened' \subseteq Runs /\ reopened \subseteq reopened'
<1>1. d[2] \in Runs /\ journal[d[2]] \in Seq(Kinds) /\ reopened \subseteq Runs
  BY DEF IInv, Types, Drivers
<1>2. /\ driver'[d].pc = "start" /\ driver'[d].mine = journal[d[2]] /\ driver'[d].flag = request
      /\ driver'[d].news = "none" /\ driver'[d].asked = FALSE /\ driver'[d] \in States
  BY <1>1 DEF Spawned, Idle, States, AnyPlace, Places, News
<1>3. "RUN_CANCELLED" \in Known(d[2]) <=> Contains(journal[d[2]], "RUN_CANCELLED")
  BY DEF Known, Contains
<1>4. Knows(d)' = Known(d[2])
  BY <1>2 DEF Knows, Known
<1>5. /\ reopened' \subseteq Runs /\ reopened \subseteq reopened'
      /\ "RUN_CANCELLED" \in Known(d[2]) => request \/ d[2] \in reopened'
  BY <1>1, <1>3 DEF Reopens
<1>6. DriverInv(d)'
  BY <1>1, <1>2, <1>4, <1>5 DEF DriverInv, Busy, In, Final
<1> QED BY <1>2, <1>5, <1>6 DEF Stays, Places

\* Whatever record it starts from.
LEMMA SpawnStep ==
  ASSUME IInv, NEW w \in Workers, NEW r \in Runs, NEW request \in BOOLEAN,
         request => cancelReq[r], status[r] # "absent", Spawn(w, r, request)
  PROVE  IInv'
<1> DEFINE d == <<w, r>>
           x == Spawned(r, request)
<1>1. /\ d \in Drivers /\ d[2] = r /\ driver' = [driver EXCEPT ![d] = x]
      /\ reopened' = Reopens(r, request)
      /\ lease' = [lease EXCEPT ![r] = w]
      /\ UNCHANGED <<raises, status, cancelReq, journal, spans, strayed>>
  BY DEF Spawn, Drivers, record
<1> HIDE DEF d, x
<1>2. /\ driver'[d] = x /\ (\A e \in Drivers : e # d => driver'[e] = driver[e])
      /\ driver' = [e \in Drivers |-> driver'[e]] /\ lease' \in [Runs -> Workers \cup {Nobody}]
  BY <1>1 DEF IInv, Types
<1>3. Stays(d) /\ DriverInv(d)' /\ reopened' \subseteq Runs /\ reopened \subseteq reopened'
  BY <1>1, <1>2, StartFacts DEF x
<1>4. Grows
  BY <1>1, <1>3 DEF Grows, IInv, Types
<1>5. Stands
  BY <1>1, <1>4, RecordsKept
<1>6. \A e \in Drivers : Stays(e) /\ DriverInv(e)'
  BY <1>2, <1>3, <1>4, <1>5, Still
<1> QED BY <1>1, <1>2, <1>4, <1>6, Steady

\* From the record as it is.
LEMMA EnsureStep ==
  ASSUME IInv, NEW w \in Workers, NEW r \in Runs, Ensure(w, r)
  PROVE  IInv'
<1>1. cancelReq[r] \in BOOLEAN /\ status[r] # "absent" /\ Spawn(w, r, cancelReq[r])
  BY DEF Ensure, IInv, Types
<1> QED BY <1>1, SpawnStep

\* From the record as it was.
LEMMA EnsureStaleStep ==
  ASSUME IInv, NEW w \in Workers, NEW r \in Runs, EnsureStale(w, r)
  PROVE  IInv'
<1>1. PICK request \in {FALSE, cancelReq[r]} : Spawn(w, r, request)
  BY DEF EnsureStale
<1>2. request \in BOOLEAN /\ (request => cancelReq[r]) /\ status[r] # "absent"
  BY DEF EnsureStale, IInv, Types
<1> QED BY <1>1, <1>2, SpawnStep

\* The child's record is there from now on, and the parent knows it.
LEMMA CreateChildStep ==
  ASSUME IInv, NEW d \in Drivers, CreateChild(d)
  PROVE  IInv'
<1> DEFINE a == At(d, "attach")
           x == [a EXCEPT !.news = status'["c"], !.asked = cancelReq["c"]]
<1>1. /\ In(d, "body") /\ d[2] = "p" /\ "CHILD_SCHEDULED" \in Knows(d)
      /\ driver' = [driver EXCEPT ![d] = x]
      /\ status' = IF status["c"] = "absent" THEN [status EXCEPT !["c"] = "RUNNING"] ELSE status
      /\ UNCHANGED <<raises, cancelReq, journal, lease, spans, reopened, strayed>>
  BY DidIsKnows DEF CreateChild, history
<1>2. /\ status' \in [Runs -> Statuses] /\ status'["c"] # "absent" /\ status'["p"] = status["p"]
      /\ status["c"] = "absent" => status'["c"] = "RUNNING"
      /\ status["c"] # "absent" => status'["c"] = status["c"]
      /\ \A r \in Runs : Over(r)' <=> Over(r)
  BY <1>1 DEF IInv, Types, Statuses, Runs, Over, Final
<1>3. Grows /\ "c" \in Runs /\ "p" \in Runs
  BY <1>1 DEF Grows, IInv, Types, Runs
<1>4. Stands
  BY <1>2, <1>3 DEF Stands, Over, Final
<1>5. \A r : Known(r)' = Known(r)
  BY <1>1 DEF Known
<1>6. "CHILD_SCHEDULED" \in Known("p")
  BY <1>1, WriterFacts
<1>7. ChildInv'
  BY <1>1, <1>2, <1>3, <1>5 DEF IInv, ChildInv, Over
<1>8. ParentInv'
  <2>1. Cared(Known("p"))' <=> Cared(Known("p"))
    BY <1>1, <1>2, <1>3, <1>5 DEF Cared
  <2> QED BY <1>1, <1>2, <1>3, <1>5, <1>6, <2>1 DEF IInv, ParentInv, Over, Final
<1>9. SpanInv' /\ spans' \in [Workers -> Span]
  BY <1>1, <1>5 DEF IInv, SpanInv, Types
<1>10. /\ x \in States /\ x.pc = "attach" /\ x.mine = driver[d].mine /\ x.flag = driver[d].flag
       /\ x.news = status'["c"] /\ x.asked = cancelReq["c"]
  <2>1. "attach" \in Places(d[2]) /\ status'["c"] \in News /\ cancelReq["c"] \in BOOLEAN
    BY <1>1, <1>2, <1>3 DEF Places, News, Statuses, IInv, Types
  <2>2. a \in States /\ a.pc = "attach" /\ a.mine = driver[d].mine /\ a.flag = driver[d].flag
    BY <2>1, AtFacts DEF IInv
  <2> HIDE DEF a, News
  <2> QED BY <2>1, <2>2 DEF States
<1> HIDE DEF x
<1>11. /\ driver'[d] = x /\ (\A e \in Drivers : e # d => driver'[e] = driver[e])
       /\ driver' = [e \in Drivers |-> driver'[e]] /\ lease' \in [Runs -> Workers \cup {Nobody}]
  BY <1>1 DEF IInv, Types
<1>12. Stays(d) /\ DriverInv(d)'
  <2>1. Knows(d)' = Knows(d) /\ DriverInv(d)
    BY <1>10, <1>11, WriterFacts DEF Knows
  <2>2. DriverInv(d)'
    BY <1>1, <1>2, <1>3, <1>10, <1>11, <2>1 DEF DriverInv, Busy, In, Final, Over
  <2> QED BY <1>1, <1>10, <1>11, <2>2 DEF Stays, Places
<1>13. \A e \in Drivers : Stays(e) /\ DriverInv(e)'
  BY <1>3, <1>4, <1>11, <1>12, Still
<1> QED BY <1>1, <1>2, <1>3, <1>7, <1>8, <1>9, <1>11, <1>13, Shifted

\* A parent that waits for its child, of which it has heard something.
LEMMA AwaitingFacts ==
  ASSUME IInv, NEW d \in Drivers, In(d, "attach"), NEW n \in News, Grows, Stands,
         n \in Final => Over("c") /\ (n = status["c"] \/ "c" \in reopened),
         driver'[d] = Awaiting(d, n)
  PROVE  /\ Awaiting(d, n) \in States /\ Awaiting(d, n).pc = "await"
         /\ Awaiting(d, n).mine = driver[d].mine
         /\ Stays(d) /\ DriverInv(d)'
<1> DEFINE a == At(d, "await")
           x == [a EXCEPT !.news = n]
<1>1. d[2] = "p" /\ DriverInv(d) /\ "await" \in Places(d[2]) /\ "c" \in Runs /\ "p" \in Runs
  BY WriterFacts DEF Places, In, Runs, Final
<1>2. /\ x \in States /\ x.pc = "await" /\ x.mine = driver[d].mine /\ x.flag = driver[d].flag
      /\ x.news = n /\ x.asked = FALSE
  <2>1. /\ a \in States /\ a.pc = "await" /\ a.mine = driver[d].mine /\ a.flag = driver[d].flag
        /\ a.asked = FALSE
    BY <1>1, AtFacts DEF IInv
  <2> HIDE DEF a, News
  <2> QED BY <2>1 DEF States
<1>3. driver'[d] = x /\ x = Awaiting(d, n)
  BY DEF Awaiting
<1> HIDE DEF x
<1>4. Knows(d)' = Knows(d)
  BY <1>2, <1>3 DEF Knows
<1>5. DriverInv(d)'
  BY <1>1, <1>2, <1>3, <1>4 DEF DriverInv, Grows, Stands, Busy, In, Final
<1> QED BY <1>1, <1>2, <1>3, <1>5 DEF Stays

\* However a parent comes to wait for its child, what it has heard is true.
LEMMA AttachStep ==
  ASSUME IInv, NEW d \in Drivers, Attach(d)
  PROVE  IInv'
<1> DEFINE c == Child(d)
<1>1. /\ In(d, "attach") /\ UNCHANGED <<raises, status, cancelReq, journal, spans, strayed>>
  BY DEF Attach, record
<1>2. /\ d[2] = "p" /\ DriverInv(d) /\ c \in Drivers /\ c # d /\ c[2] = "c" /\ c[1] = d[1]
      /\ d[1] \in Workers /\ driver[d] \in States
  BY <1>1, WriterFacts DEF Places, In, Runs, Final, Child, Drivers, IInv, Types
<1>3. driver[d].news \in News /\ {"task", "follow"} \subseteq News \ Final
  BY <1>2 DEF States, News, Final
<1>4. ASSUME NEW n \in News, driver' = [driver EXCEPT ![d] = Awaiting(d, n)],
             n \in Final => Over("c") /\ (n = status["c"] \/ "c" \in reopened),
             UNCHANGED <<lease, reopened>>
      PROVE  IInv'
  <2>1. driver'[d] = Awaiting(d, n)
    BY <1>4 DEF IInv, Types
  <2>2. Grows
    BY <1>1, <1>4 DEF Grows, IInv, Types
  <2>3. Stands
    BY <1>1, <2>2, RecordsKept
  <2>4. /\ Awaiting(d, n) \in States /\ Awaiting(d, n).pc = "await"
        /\ Awaiting(d, n).mine = driver[d].mine /\ DriverInv(d)'
    BY <1>1, <1>4, <2>1, <2>2, <2>3, AwaitingFacts
  <2>5. "await" \in Places(d[2]) \ {"down"}
    BY <1>2 DEF Places, Final
  <2> QED BY <1>1, <1>4, <2>2, <2>4, <2>5, Moved
<1>5. CASE driver' = [driver EXCEPT ![d] = Awaiting(d, "task")] /\ UNCHANGED <<lease, reopened>>
  BY <1>3, <1>4, <1>5
<1>6. CASE /\ driver' = [driver EXCEPT ![d] = Awaiting(d, driver[d].news)]
           /\ UNCHANGED <<lease, reopened>>
  BY <1>2, <1>3, <1>4, <1>6 DEF DriverInv
<1>7. CASE driver' = [driver EXCEPT ![d] = Awaiting(d, "follow")] /\ UNCHANGED <<lease, reopened>>
  BY <1>3, <1>4, <1>7
<1>8. CASE /\ driver' = [driver EXCEPT ![d] = Awaiting(d, "task"), ![c] = Spawned("c", driver[d].asked)]
           /\ lease' = [lease EXCEPT !["c"] = d[1]]
           /\ reopened' = Reopens("c", driver[d].asked)
  <2>1. /\ driver'[d] = Awaiting(d, "task") /\ driver'[c] = Spawned(c[2], driver[d].asked)
        /\ \A e \in Drivers : e \notin {d, c} => driver'[e] = driver[e]
        /\ driver' = [e \in Drivers |-> driver'[e]] /\ lease' \in [Runs -> Workers \cup {Nobody}]
    BY <1>2, <1>8 DEF IInv, Types
  <2>2. driver[d].asked \in BOOLEAN /\ (driver[d].asked => cancelReq[c[2]]) /\ status["c"] # "absent"
    BY <1>1, <1>2 DEF States, DriverInv
  <2>3. /\ reopened' = Reopens(c[2], driver[d].asked) /\ cancelReq' = cancelReq
        /\ status'["c"] # "absent"
    BY <1>1, <1>2, <1>8, <2>2
  <2>4. Stays(c) /\ DriverInv(c)' /\ reopened' \subseteq Runs /\ reopened \subseteq reopened'
    BY <1>2, <2>1, <2>2, <2>3, StartFacts
  <2>5. Grows
    BY <1>1, <2>4 DEF Grows, IInv, Types
  <2>6. Stands
    BY <1>1, <2>5, RecordsKept
  <2>7. Stays(d) /\ DriverInv(d)'
    BY <1>1, <1>3, <2>1, <2>5, <2>6, AwaitingFacts
  <2>8. \A e \in Drivers : Stays(e) /\ DriverInv(e)'
    BY <2>1, <2>4, <2>5, <2>6, <2>7, Still
  <2> QED BY <1>1, <2>1, <2>5, <2>8, Steady
<1> QED BY <1>5, <1>6, <1>7, <1>8 DEF Attach

-----------------------------------------------------------------------------
(* Clients, faults, and the end of a run *)

\* A request only adds to what is asked.
LEMMA CancelStep ==
  ASSUME IInv, NEW r \in Runs, Cancel(r)
  PROVE  IInv'
<1>1. /\ UNCHANGED <<raises, status, journal, driver, spans, lease, reopened, strayed>>
      /\ cancelReq' = [cancelReq EXCEPT ![r] = TRUE]
  BY DEF Cancel, history
<1>2. Grows /\ lease' \in [Runs -> Workers \cup {Nobody}]
  BY <1>1 DEF Grows, IInv, Types
<1>3. SpanInv' /\ spans' \in [Workers -> Span]
  BY <1>1, <1>2, RecordsKept
<1> QED BY <1>1, <1>2, <1>3, NobodyMoves

\* Leases are not what the tree relies on.
LEMMA ReleaseStep ==
  ASSUME IInv, NEW r \in Runs, Expire(r) \/ Lapse(r)
  PROVE  IInv'
<1>1. /\ UNCHANGED <<raises, status, cancelReq, journal, driver, spans, reopened, strayed>>
      /\ lease' = [lease EXCEPT ![r] = Nobody]
  BY DEF Expire, Lapse, record, history
<1>2. Grows /\ lease' \in [Runs -> Workers \cup {Nobody}]
  BY <1>1 DEF Grows, IInv, Types
<1>3. SpanInv' /\ spans' \in [Workers -> Span]
  BY <1>1, <1>2, RecordsKept
<1> QED BY <1>1, <1>2, <1>3, NobodyMoves

\* A process without spans knows of no child.
LEMMA FreshSpans ==
  ASSUME IInv, UNCHANGED <<raises, status, journal>>, Grows, NEW w \in Workers,
         spans' = [spans EXCEPT ![w] = NoSpans]
  PROVE  SpanInv' /\ spans' \in [Workers -> Span]
<1>1. NoSpans \in Span /\ NoSpans.known = {} /\ NoSpans.alone = {}
  BY DEF NoSpans, Span
<1> HIDE DEF NoSpans
<1>2. \A r : Known(r)' = Known(r)
  BY RecordsKept
<1>3. spans' \in [Workers -> Span] /\ \A v \in Workers : spans'[v] = spans[v] \/ spans'[v] = NoSpans
  BY <1>1 DEF IInv, Types
<1> QED BY <1>1, <1>2, <1>3 DEF IInv, SpanInv

\* A worker that comes back has forgotten the spans.
LEMMA RestartStep ==
  ASSUME IInv, NEW w \in Workers, Restart(w)
  PROVE  IInv'
<1>1. /\ UNCHANGED <<raises, status, cancelReq, journal, driver, lease, reopened, strayed>>
      /\ spans' = [spans EXCEPT ![w] = NoSpans]
  BY DEF Restart, record, history
<1>2. Grows /\ lease' \in [Runs -> Workers \cup {Nobody}]
  BY <1>1 DEF Grows, IInv, Types
<1>3. SpanInv' /\ spans' \in [Workers -> Span]
  BY <1>1, <1>2, FreshSpans
<1> QED BY <1>1, <1>2, <1>3, NobodyMoves

\* And so has one that has crashed, and its drivers are gone.
LEMMA CrashStep ==
  ASSUME IInv, NEW w \in Workers, Crash(w)
  PROVE  IInv'
<1>1. /\ UNCHANGED <<raises, status, cancelReq, journal, lease, reopened, strayed>>
      /\ spans' = [spans EXCEPT ![w] = NoSpans]
      /\ driver' = [d \in Drivers |-> IF d[1] = w THEN Idle ELSE driver[d]]
  BY DEF Crash, record, history
<1>2. Grows /\ lease' \in [Runs -> Workers \cup {Nobody}] /\ status' \in [Runs -> Statuses]
  BY <1>1 DEF Grows, IInv, Types
<1>3. SpanInv' /\ spans' \in [Workers -> Span]
  BY <1>1, <1>2, FreshSpans
<1>4. ChildInv' /\ ParentInv' /\ Stands
  BY <1>1, <1>2, RecordsKept
<1>5. driver' = [e \in Drivers |-> driver'[e]]
  BY <1>1
<1>6. ASSUME NEW e \in Drivers PROVE Stays(e) /\ DriverInv(e)'
  <2>1. driver'[e] = Idle \/ driver'[e] = driver[e]
    BY <1>1
  <2> QED BY <1>2, <1>4, <2>1, IdleStays, Still
<1> QED BY <1>1, <1>2, <1>3, <1>4, <1>5, <1>6, Shifted

\* A shutdown interrupts all drivers of a process.
LEMMA ShutdownStep ==
  ASSUME IInv, NEW w \in Workers, Shutdown(w)
  PROVE  IInv'
<1>1. /\ DriversOf(w) \in SUBSET Drivers /\ Interrupt(DriversOf(w))
      /\ UNCHANGED <<record, journal, spans, reopened>>
  BY DEF Shutdown, DriversOf, Drivers
<1> QED BY <1>1, InterruptStep

\* The events that end a run exclude each other, in the child's journal, unless
\* the child was reopened.
LEMMA OneEnd ==
  ASSUME ChildInv, NEW s \in Final, NEW t \in Final,
         Closing(s) \in Known("c"), Closing(t) \in Known("c")
  PROVE  s = t \/ "c" \in reopened
BY DEF ChildInv, Closing, Final

\* The status that is written agrees with the journal, and with the status that
\* an earlier driver has written.
LEMMA MarkStep ==
  ASSUME IInv, NEW d \in Drivers, Mark(d)
  PROVE  IInv'
<1> DEFINE r == d[2]
           how == driver[d].pc
<1>1. /\ how \in Final /\ Leave(d, how) /\ status' = [status EXCEPT ![r] = how]
      /\ UNCHANGED <<raises, cancelReq, journal, spans, reopened, strayed>>
  BY DEF Mark, history
<1>2. /\ r \in Runs /\ DriverInv(d) /\ Knows(d) \subseteq Known(r)
      /\ Closing(how) \in Known(r) /\ "RUN_STARTED" \in Known(r)
  <2>1. DriverInv(d) /\ r \in Runs /\ Knows(d) \subseteq Known(r)
    BY WriterFacts
  <2>2. Closing(how) \in Knows(d) /\ "RUN_STARTED" \in Knows(d)
    BY <1>1, <2>1 DEF DriverInv, Final
  <2> QED BY <2>1, <2>2
<1> HIDE DEF how
<1>3. /\ status' \in [Runs -> Statuses] /\ status'[r] = how
      /\ \A q \in Runs : q # r => status'[q] = status[q]
      /\ how \in News /\ "c" \in Runs /\ "p" \in Runs
  BY <1>1, <1>2 DEF IInv, Types, Statuses, News, Runs
<1>4. Grows /\ \A q : Known(q)' = Known(q)
  BY <1>1 DEF Grows, IInv, Types, Known
<1>5. Stands /\ (r = "c" => Over("c")' /\ status'["c"] = how)
  <2>1. CASE r = "c"
    <3>1. Over("c") => status["c"] \in Final /\ Closing(status["c"]) \in Known("c")
      BY DEF IInv, ChildInv, Over
    <3>2. Over("c") => how = status["c"] \/ "c" \in reopened
      BY <1>1, <1>2, <2>1, <3>1, OneEnd DEF IInv
    <3> QED BY <1>1, <1>3, <2>1, <3>2 DEF Stands, Over, Final
  <2>2. CASE r # "c"
    BY <1>1, <1>3, <2>2 DEF Stands, Over
  <2> QED BY <2>1, <2>2
<1>6. ChildInv'
  <2>1. CASE r = "c"
    BY <1>1, <1>2, <1>3, <1>4, <1>5, <2>1 DEF IInv, ChildInv, Final
  <2>2. CASE r # "c"
    BY <1>1, <1>3, <1>4, <2>2 DEF IInv, ChildInv, Over
  <2> QED BY <2>1, <2>2
<1>7. ParentInv'
  <2>1. Cared(Known("p")) => Cared(Known("p"))'
    BY <1>1, <1>4, <1>5 DEF Cared, Stands
  <2>2. CASE r = "p"
    <3>1. status'["c"] = status["c"] /\ (Over("c")' <=> Over("c"))
      BY <1>3, <2>2 DEF Over
    <3>2. Closing(status'["p"]) \in Known("p")' /\ status'["p"] # "absent"
      BY <1>1, <1>2, <1>3, <1>4, <2>2 DEF Final
    <3> QED BY <1>1, <1>4, <2>1, <3>1, <3>2 DEF IInv, ParentInv
  <2>3. CASE r = "c"
    <3>1. status'["p"] = status["p"] /\ (Over("p")' <=> Over("p"))
      BY <1>3, <2>3 DEF Over
    <3>2. "CHILD_SCHEDULED" \in Known("p")
      BY <1>2, <2>3, KnowsIsKnown DEF IInv, ChildInv, ParentInv
    <3> QED BY <1>1, <1>4, <1>5, <2>1, <3>1, <3>2 DEF IInv, ParentInv, Stands
  <2> QED BY <1>2, <2>2, <2>3 DEF Runs
<1>8. SpanInv' /\ spans' \in [Workers -> Span]
  BY <1>1, <1>4 DEF IInv, SpanInv, Types
<1>9. /\ driver' = [e \in Drivers |-> driver'[e]] /\ lease' \in [Runs -> Workers \cup {Nobody}]
      /\ \A e \in Drivers : Stays(e) /\ DriverInv(e)'
  BY <1>1, <1>3, <1>4, <1>5, Left
<1> QED BY <1>1, <1>3, <1>4, <1>6, <1>7, <1>8, <1>9, Shifted

-----------------------------------------------------------------------------
(* The theorems *)

\* Nothing has happened yet.
LEMMA InitIInv == Init => IInv
<1> SUFFICES ASSUME Init PROVE IInv
  OBVIOUS
<1>1. /\ status = [r \in Runs |-> IF r = "p" THEN "RUNNING" ELSE "absent"]
      /\ cancelReq = [r \in Runs |-> FALSE] /\ journal = [r \in Runs |-> <<>>]
      /\ lease = [r \in Runs |-> Nobody] /\ driver = [d \in Drivers |-> Idle]
      /\ spans = [w \in Workers |-> NoSpans] /\ reopened = {} /\ strayed = FALSE
      /\ raises \subseteq Runs
  BY DEF Init, Runs
<1>2. <<>> \in Seq(Kinds) /\ Len(<<>>) = 0 /\ 1..0 = {}
  BY EmptySeq
<1>3. /\ Idle \in States /\ Idle.pc = "down" /\ Idle.mine = <<>> /\ Idle.flag = FALSE
      /\ Idle.news = "none" /\ Idle.asked = FALSE
  BY <1>2 DEF Idle, States, AnyPlace, Places, News
<1>4. NoSpans \in Span /\ NoSpans.known = {} /\ NoSpans.alone = {}
  BY DEF NoSpans, Span
<1> HIDE DEF Idle, NoSpans
<1>5. Types
  <2>1. status \in [Runs -> Statuses]
    BY <1>1 DEF Statuses
  <2>2. driver \in [Drivers -> States] /\ \A d \in Drivers : driver[d].pc \in Places(d[2])
    BY <1>1, <1>3 DEF Places
  <2> QED BY <1>1, <1>2, <1>4, <2>1, <2>2 DEF Types
<1>6. (\A r \in Runs : Known(r) = {}) /\ \A d \in Drivers : Knows(d) = {}
  BY <1>1, <1>2, <1>3 DEF Known, Knows
<1>7. Copies
  <2>1. \A d \in Drivers : d[2] \in Runs
    BY DEF Drivers
  <2>2. Begins(<<>>, <<>>)
    BY <1>2, EveryoneBegins
  <2> QED BY <1>1, <1>3, <1>6, <2>1, <2>2 DEF Copies
<1>8. status["c"] = "absent" /\ status["p"] = "RUNNING" /\ ~Over("c") /\ ~Over("p") /\ "c" \in Runs
      /\ "p" \in Runs
  BY <1>1 DEF Runs, Over, Final
<1>9. ChildInv /\ ParentInv
  BY <1>6, <1>8 DEF ChildInv, ParentInv
<1>10. DriversInv
  BY <1>1, <1>3, <1>6 DEF DriversInv, DriverInv, Busy, In, Final
<1>11. SpanInv
  BY <1>1, <1>4 DEF SpanInv
<1> QED BY <1>5, <1>7, <1>9, <1>10, <1>11 DEF IInv

\* Every step of a driver keeps the invariant.
LEMMA DriveStep ==
  ASSUME IInv, NEW d \in Drivers, Drive(d)
  PROVE  IInv'
BY JournalStartStep, SeeCancelStep, CheckCancelStep, BeginStepStep, EndStepStep, ScheduleChildStep,
   CreateChildStep, AttachStep, TakeOutcomeStep, ChildErredStep, ChildStoppedStep, StopWaitingStep,
   ChildGoneStep, PropagateStep, CompensateStep, EndRunStep, MarkStep DEF Drive

\* And so does every other step.
LEMMA NextIInv == IInv /\ [Next]_vars => IInv'
<1> SUFFICES ASSUME IInv, [Next]_vars PROVE IInv'
  OBVIOUS
<1>1. CASE Next
  BY <1>1, EnsureStep, EnsureStaleStep, DriveStep, FencedStep, CancelStep, ReleaseStep, ShutdownStep,
     RestartStep, CrashStep DEF Next
<1>2. CASE UNCHANGED vars
  <2>1. /\ UNCHANGED <<raises, status, cancelReq, journal, driver, lease, spans, reopened, strayed>>
    BY <1>2 DEF vars, record, history
  <2>2. Grows /\ lease' \in [Runs -> Workers \cup {Nobody}]
    BY <2>1 DEF Grows, IInv, Types
  <2>3. SpanInv' /\ spans' \in [Workers -> Span]
    BY <2>1, <2>2, RecordsKept
  <2> QED BY <2>1, <2>2, <2>3, NobodyMoves
<1> QED BY <1>1, <1>2

\* The invariant of the parent and the child: what each has journaled, what its
\* record says, and what every driver believes of it, from whatever record that
\* started.
THEOREM TreeInvariant == Spec => []IInv
<1>1. Init => IInv
  BY InitIInv
<1>2. IInv /\ [Next]_vars => IInv'
  BY NextIInv
<1> QED BY <1>1, <1>2, PTL DEF Spec

\* What a parent has journaled of its child is what became of the child
\* (context.py 548-585, runtime.py 955-1000), with any number of workers, faults,
\* stale records and cancellations, unless the child was reopened.
THEOREM TreeOutcomeIsTheChilds == Spec => []OutcomeIsTheChilds
<1>1. IInv => OutcomeIsTheChilds
  <2> SUFFICES ASSUME IInv, "c" \notin reopened
               PROVE  /\ Contains(journal["p"], "CHILD_COMPLETED") => status["c"] = "COMPLETED"
                      /\ Contains(journal["p"], "CHILD_FAILED") => status["c"] \in {"FAILED", "CANCELLED"}
    BY DEF OutcomeIsTheChilds
  <2>1. \A kind : Contains(journal["p"], kind) <=> kind \in Known("p")
    BY DEF Contains, Known
  <2>2. /\ "CHILD_COMPLETED" \in Known("p") => status["c"] = "COMPLETED"
        /\ "CHILD_FAILED" \in Known("p") => status["c"] \in {"FAILED", "CANCELLED"}
    BY DEF IInv, ParentInv, Over, Final
  <2> QED BY <2>1, <2>2
<1> QED BY <1>1, TreeInvariant, PTL

\* A parent that is over leaves no child that runs on and has not been asked to
\* stop (context.py 561-582), unless it was interrupted otherwise than by its own
\* cancellation or failed by an error of its child's driver, or was reopened.
THEOREM TreeNoOrphans == Spec => []NoOrphans
<1>1. IInv => NoOrphans
  <2> SUFFICES ASSUME IInv, Over("p"), ~strayed, "p" \notin reopened
               PROVE  status["c"] = "absent" \/ Over("c") \/ cancelReq["c"]
    BY DEF NoOrphans
  <2>1. status["p"] \in Final /\ Closing(status["p"]) \in Known("p")
    BY DEF IInv, ParentInv, Over
  <2>2. "RUN_COMPLETED" \in Known("p") \/ "RUN_FAILED" \in Known("p") => Over("c")
    BY DEF IInv, ParentInv
  <2>3. "RUN_CANCELLED" \in Known("p") => Cared(Known("p"))
    BY DEF IInv, ParentInv
  <2>4. status["c"] # "absent" => "CHILD_SCHEDULED" \in Known("p")
    BY DEF IInv, ParentInv
  <2> QED BY <2>1, <2>2, <2>3, <2>4 DEF Closing, Final, Cared
<1> QED BY <1>1, TreeInvariant, PTL

\* The spans of the parent and the child make one trace in every process
\* (otel.py 83-165), because the child is journaled in the parent before it is
\* started, and each of them once.
THEOREM TreeOneTrace == Spec => []OneTrace
<1>1. IInv => OneTrace
  BY DEF IInv, SpanInv, OneTrace
<1> QED BY <1>1, TreeInvariant, PTL

=============================================================================
