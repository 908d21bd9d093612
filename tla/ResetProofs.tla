---------------------------- MODULE ResetProofs ----------------------------
(***************************************************************************)
(* What a reset leaves behind, for any number of workers, resets and       *)
(* faults: the journal of one execution, a signal and a child that agree   *)
(* with it, and no lease that nobody uses.                                 *)
(***************************************************************************)
EXTENDS Reset, FiniteSetTheorems, TLAPS

USE ResetAssumption DEF ResetAssumption

-----------------------------------------------------------------------------
(* The inductive invariant *)

Kinds == {"RUN_STARTED", "RUN_RESET", "CHILD_SCHEDULED", "CHILD_COMPLETED", "EVENT_CONSUMED",
          "STEP_COMPLETED", "STEP_FAILED", "COMP_COMPLETED", "RUN_FAILED", "RUN_COMPLETED"}

Events == [seq : Nat, kind : Kinds, of : Nat]

Holders == Workers \cup {Nobody, Ghost}

Places == {"down", "body", "mark", "update", "release"}

Stages == {"idle", "acquire", "refuse", "resume"} \cup Relying

Types ==
  /\ status \in {"RUNNING", "COMPLETED", "FAILED"}
  /\ journal \subseteq Events /\ IsFiniteSet(journal)
  /\ signal \in {"none", "unread", "consumed"}
  /\ child \in [status : {"absent", "RUNNING", "COMPLETED"}, gen : Nat]
  /\ lease \in [run : Holders, child : Holders]
  /\ driver \in [Workers -> [pc : Places, mine : SUBSET Events]]
  /\ minder \in Workers \cup {Nobody}
  /\ reset \in [by : Workers \cup {Nobody}, pc : Stages, stopped : BOOLEAN, claimed : BOOLEAN,
                kept : SUBSET Events, dropped : SUBSET Kinds]
  /\ torn \in BOOLEAN

\* The events are numbered from 0 on, without a gap.
Dense(events) ==
  IsFiniteSet(events) /\ {e.seq : e \in events} = 0..(Cardinality(events) - 1)

\* They are those of one execution that has begun.
Ordered(events) ==
  /\ Has(events, "RUN_STARTED")
  /\ \A e \in events : e.kind # "RUN_RESET" =>
       /\ \A f \in events : f.kind = e.kind => f = e
       /\ e.kind # "RUN_STARTED" => \E f \in events : f.kind = Prior[e.kind] /\ f.seq < e.seq
  /\ ~(Has(events, "STEP_COMPLETED") /\ Has(events, "STEP_FAILED"))

\* A driver is alone with the run and knows its journal.
DriverInv ==
  \A w \in Workers : Busy(w) =>
    /\ lease.run = w /\ driver[w].mine = journal /\ reset.by # w
    /\ driver[w].pc = "mark" => Has(journal, "EVENT_CONSUMED")

\* So is who minds the child.
MinderInv == minder # Nobody => lease.child = minder /\ child.status = "RUNNING"

Claiming == {"replace"} \cup Rewriting

\* What a reset holds, and what is its at every stage.
HoldingInv ==
  /\ reset.pc = "idle" => reset = NoReset
  /\ reset.pc # "idle" => reset.by \in Workers
  /\ reset.pc \notin {"idle", "acquire"} => lease.run = reset.by
  /\ reset.claimed => reset.pc \in Claiming \cup {"resume"}
  /\ reset.claimed /\ reset.pc \in Claiming =>
       lease.child = reset.by /\ minder = Nobody /\ child.status # "absent"
  /\ reset.pc = "claim" => minder # reset.by /\ child.status # "absent"
  /\ reset.claimed /\ reset.pc = "resume" => child.status = "absent"
  /\ reset.pc \in {"delete", "resume"} => status = "RUNNING"

\* What it has split the journal into, before it writes and after.
SplitInv ==
  /\ reset.pc \in {"stop", "claim", "replace"} =>
       /\ reset.kept \subseteq journal /\ Ordered(reset.kept)
       /\ reset.dropped = {e.kind : e \in journal \ reset.kept}
       /\ reset.pc # "replace" \/ reset.claimed => "CHILD_SCHEDULED" \in reset.dropped
       /\ reset.pc = "replace" /\ "CHILD_SCHEDULED" \in reset.dropped =>
            reset.claimed \/ child.status = "absent"
  /\ reset.pc = "marker" => journal = Renumbered(reset.kept) /\ Cardinality(journal) = Cardinality(reset.kept)

\* What the journal says of the signal and the child, or is going to say.
WorldInv ==
  /\ signal = "consumed" =>
       \/ Has(journal, "EVENT_CONSUMED")
       \/ reset.pc \in {"marker", "signals"} /\ "EVENT_CONSUMED" \in reset.dropped
  /\ child.status # "absent" =>
       Has(journal, "CHILD_SCHEDULED") \/ (reset.pc \in Rewriting /\ reset.claimed)
  /\ reset.pc \in Rewriting /\ reset.claimed => ~Has(journal, "CHILD_SCHEDULED")
  /\ \A e \in journal : e.kind = "CHILD_COMPLETED" =>
       child = [status |-> "COMPLETED", gen |-> e.of]

\* Nobody holds a lease of what is to be driven but who drives or resets it.
LeaseInv ==
  /\ status = "RUNNING" /\ lease.run \in Workers =>
       Busy(lease.run) \/ (reset.by = lease.run /\ reset.pc # "acquire")
  /\ child.status = "RUNNING" /\ lease.child \in Workers =>
       minder = lease.child \/ (reset.by = lease.child /\ reset.claimed)

Sound ==
  /\ Dense(journal) /\ Ordered(journal)
  /\ DriverInv /\ MinderInv /\ HoldingInv /\ SplitInv /\ WorldInv

IInv == Types /\ LeaseInv /\ (~torn => Sound)

-----------------------------------------------------------------------------
(* Events *)

\* Events without gaps have different numbers, which end where their number says.
LEMMA DenseFacts ==
  ASSUME NEW events \in SUBSET Events, Dense(events)
  PROVE  /\ Cardinality(events) \in Nat
         /\ \A e \in events : e.seq \in Nat /\ e.seq < Cardinality(events)
         /\ \A e, f \in events : e.seq = f.seq => e = f
<1> DEFINE n == Cardinality(events)
           seqs == 0..(n - 1)
           g == [e \in events |-> e.seq]
<1>1. n \in Nat /\ IsFiniteSet(events) /\ {e.seq : e \in events} = seqs
  BY FS_CardinalityType DEF Dense
<1>2. IsFiniteSet(seqs) /\ Cardinality(seqs) = n
  BY <1>1, FS_Interval
<1>3. \A e \in events : e.seq \in seqs
  BY <1>1
<1> HIDE DEF seqs
<1>4. g \in Surjection(events, seqs)
  BY <1>1, <1>3 DEF Surjection
<1>5. g \in Injection(events, seqs)
  BY <1>1, <1>2, <1>4, FS_Surjection
<1>6. \A e, f \in events : g[e] = g[f] => e = f
  BY <1>5 DEF Injection, IsInjective
<1>7. \A e, f \in events : e.seq = f.seq => e = f
  BY <1>6
<1> QED BY <1>1, <1>3, <1>7 DEF seqs

\* One event more, numbered with how many there are.
LEMMA AppendDense ==
  ASSUME NEW events \in SUBSET Events, Dense(events), NEW e \in Events, e.seq = Cardinality(events)
  PROVE  /\ Dense(events \cup {e}) /\ Cardinality(events \cup {e}) = Cardinality(events) + 1
         /\ ~\E f \in events : f.seq = e.seq
<1> DEFINE n == Cardinality(events)
<1>1. n \in Nat /\ \A f \in events : f.seq < n
  BY DenseFacts
<1>2. e \notin events /\ ~\E f \in events : f.seq = e.seq
  BY <1>1
<1>3. IsFiniteSet(events \cup {e}) /\ Cardinality(events \cup {e}) = n + 1
  BY <1>2, FS_AddElement DEF Dense
<1>4. {f.seq : f \in events \cup {e}} = 0..n
  <2>1. {f.seq : f \in events} = 0..(n - 1)
    BY DEF Dense
  <2>2. {f.seq : f \in events \cup {e}} = {f.seq : f \in events} \cup {n}
    OBVIOUS
  <2>3. (0..(n - 1)) \cup {n} = 0..n
    BY <1>1
  <2> QED BY <2>1, <2>2, <2>3
<1>5. (n + 1) - 1 = n
  BY <1>1
<1> QED BY <1>2, <1>3, <1>4, <1>5 DEF Dense

\* An event that comes where it belongs.
LEMMA AppendOrdered ==
  ASSUME NEW events \in SUBSET Events, Dense(events), Ordered(events),
         NEW e \in Events, e.seq = Cardinality(events),
         \/ e.kind = "RUN_RESET"
         \/ /\ e.kind # "RUN_STARTED" /\ ~Has(events, e.kind) /\ Has(events, Prior[e.kind])
            /\ e.kind \in {"STEP_COMPLETED", "STEP_FAILED"} =>
                 ~Has(events, "STEP_COMPLETED") /\ ~Has(events, "STEP_FAILED")
  PROVE  Ordered(events \cup {e})
<1>1. \A f \in events : f.seq < e.seq
  BY DenseFacts
<1>2. ASSUME NEW f \in events \cup {e}, f.kind # "RUN_RESET"
      PROVE  /\ \A g \in events \cup {e} : g.kind = f.kind => g = f
             /\ f.kind # "RUN_STARTED" => \E g \in events \cup {e} : g.kind = Prior[f.kind] /\ g.seq < f.seq
  BY <1>1, <1>2 DEF Ordered, Has
<1>3. ~(Has(events \cup {e}, "STEP_COMPLETED") /\ Has(events \cup {e}, "STEP_FAILED"))
  BY DEF Ordered, Has
<1> QED BY <1>2, <1>3 DEF Ordered, Has

\* Numbering again what is left keeps the order, and closes the gaps.
LEMMA Renumbering ==
  ASSUME NEW events \in SUBSET Events, NEW kept \in SUBSET events, Dense(events), Ordered(kept)
  PROVE  /\ Renumbered(kept) \in SUBSET Events
         /\ Dense(Renumbered(kept)) /\ Ordered(Renumbered(kept))
         /\ Cardinality(Renumbered(kept)) = Cardinality(kept)
         /\ \A kind : Has(Renumbered(kept), kind) <=> Has(kept, kind)
         /\ \A r \in Renumbered(kept) : \E e \in kept : r.kind = e.kind /\ r.of = e.of
<1> DEFINE n == Cardinality(kept)
           Below(e) == {f \in kept : f.seq < e.seq}
           At(e) == [e EXCEPT !.seq = Cardinality(Below(e))]
           rank == [e \in kept |-> At(e).seq]
           seqs == 0..(n - 1)
           place == [e \in kept |-> At(e)]
<1>1. /\ IsFiniteSet(kept) /\ n \in Nat
      /\ \A e \in kept : e.seq \in Nat
      /\ \A e, f \in kept : e.seq = f.seq => e = f
  <2>1. IsFiniteSet(events)
    BY DEF Dense
  <2>2. IsFiniteSet(kept)
    BY <2>1, FS_Subset
  <2> QED BY <2>2, FS_CardinalityType, DenseFacts
<1>2. ASSUME NEW e \in kept
      PROVE  /\ IsFiniteSet(Below(e)) /\ Cardinality(Below(e)) \in seqs
  <2>1. Below(e) \subseteq kept \ {e}
    BY <1>1
  <2>2. IsFiniteSet(kept \ {e}) /\ Cardinality(kept \ {e}) = n - 1
    BY <1>1, FS_RemoveElement
  <2>3. IsFiniteSet(Below(e)) /\ Cardinality(Below(e)) <= n - 1
    BY <2>1, <2>2, FS_Subset
  <2>4. Cardinality(Below(e)) \in Nat
    BY <2>3, FS_CardinalityType
  <2> QED BY <1>1, <2>3, <2>4
<1>3. ASSUME NEW e \in kept, NEW f \in kept, e.seq < f.seq
      PROVE  Cardinality(Below(e)) < Cardinality(Below(f))
  <2>1. Below(e) \subseteq Below(f) \ {e} /\ e \in Below(f)
    BY <1>1, <1>3
  <2>2. IsFiniteSet(Below(f) \ {e}) /\ Cardinality(Below(f) \ {e}) = Cardinality(Below(f)) - 1
    BY <1>2, <2>1, FS_RemoveElement
  <2>3. Cardinality(Below(e)) <= Cardinality(Below(f)) - 1
    BY <2>1, <2>2, FS_Subset
  <2>4. Cardinality(Below(e)) \in Nat /\ Cardinality(Below(f)) \in Nat
    BY <1>2, FS_CardinalityType
  <2> QED BY <2>3, <2>4
<1> HIDE DEF Below
<1>4. ASSUME NEW e \in kept
      PROVE  /\ At(e) \in Events /\ At(e).seq = Cardinality(Below(e)) /\ At(e).seq \in seqs
             /\ At(e).kind = e.kind /\ At(e).of = e.of
  <2>1. e \in Events /\ Cardinality(Below(e)) \in Nat
    BY <1>1, <1>2
  <2> QED BY <1>2, <2>1 DEF Events
<1> HIDE DEF seqs
<1>5. Renumbered(kept) = {At(e) : e \in kept}
  BY DEF Renumbered, Below
<1> HIDE DEF At
<1>6. ASSUME NEW e \in kept, NEW f \in kept PROVE e.seq < f.seq <=> At(e).seq < At(f).seq
  <2>1. At(e).seq \in Nat /\ At(f).seq \in Nat
    BY <1>4 DEF Events
  <2>2. e.seq \in Nat /\ f.seq \in Nat /\ (e.seq = f.seq => e = f)
    BY <1>1
  <2>3. (e.seq < f.seq => At(e).seq < At(f).seq) /\ (f.seq < e.seq => At(f).seq < At(e).seq)
    BY <1>3, <1>4
  <2> QED BY <2>1, <2>2, <2>3
<1>7. \A e, f \in kept : At(e).seq = At(f).seq => e = f
  BY <1>1, <1>4, <1>6 DEF seqs
<1>8. Cardinality(Renumbered(kept)) = n /\ IsFiniteSet(Renumbered(kept))
  <2>1. \A e, f \in kept : place[e] = place[f] => e = f
    BY <1>7
  <2>2. place \in Bijection(kept, Renumbered(kept))
    BY <1>5, <2>1 DEF Bijection, Injection, Surjection, IsInjective
  <2> QED BY <1>1, <2>2, FS_Bijection DEF ExistsBijection
<1>9. {r.seq : r \in Renumbered(kept)} = seqs
  <2>1. IsFiniteSet(seqs) /\ Cardinality(seqs) = n
    BY <1>1, FS_Interval DEF seqs
  <2>2. rank \in Injection(kept, seqs)
    BY <1>4, <1>7 DEF Injection, IsInjective
  <2>3. rank \in Surjection(kept, seqs)
    BY <2>1, <2>2, FS_Injection
  <2>4. \A k \in seqs : \E e \in kept : At(e).seq = k
    BY <2>3 DEF Surjection
  <2> QED BY <1>4, <1>5, <2>4
<1>10. Dense(Renumbered(kept))
  BY <1>8, <1>9 DEF Dense, seqs
<1>11. \A kind : Has(Renumbered(kept), kind) <=> Has(kept, kind)
  BY <1>4, <1>5 DEF Has
<1>12. Ordered(Renumbered(kept))
  <2>1. ASSUME NEW r \in Renumbered(kept), r.kind # "RUN_RESET"
        PROVE  /\ \A s \in Renumbered(kept) : s.kind = r.kind => s = r
               /\ r.kind # "RUN_STARTED" =>
                    \E s \in Renumbered(kept) : s.kind = Prior[r.kind] /\ s.seq < r.seq
    <3>1. PICK e \in kept : r = At(e) /\ e.kind = r.kind
      BY <1>4, <1>5
    <3>2. ASSUME NEW s \in Renumbered(kept), s.kind = r.kind PROVE s = r
      <4>1. PICK f \in kept : s = At(f) /\ f.kind = s.kind
        BY <1>4, <1>5
      <4> QED BY <2>1, <3>1, <3>2, <4>1 DEF Ordered
    <3>3. ASSUME r.kind # "RUN_STARTED"
          PROVE  \E s \in Renumbered(kept) : s.kind = Prior[r.kind] /\ s.seq < r.seq
      <4>1. PICK f \in kept : f.kind = Prior[e.kind] /\ f.seq < e.seq
        BY <2>1, <3>1, <3>3 DEF Ordered
      <4>2. At(f) \in Renumbered(kept) /\ At(f).kind = Prior[r.kind] /\ At(f).seq < r.seq
        BY <1>4, <1>5, <1>6, <3>1, <4>1
      <4> QED BY <4>2
    <3> QED BY <3>2, <3>3
  <2> QED BY <1>11, <2>1 DEF Ordered
<1>13. \A r \in Renumbered(kept) : r \in Events /\ \E e \in kept : r.kind = e.kind /\ r.of = e.of
  BY <1>4, <1>5
<1> QED BY <1>8, <1>10, <1>11, <1>12, <1>13

-----------------------------------------------------------------------------
(* Drivers *)

\* Who drives the run is alone with it: no other driver, and no reset.
LEMMA Alone ==
  ASSUME IInv, ~torn, NEW w \in Workers, Busy(w)
  PROVE  /\ reset.pc \in {"idle", "acquire"} /\ reset.by # w /\ ~reset.claimed
         /\ lease.run = w /\ driver[w].mine = journal
         /\ \A v \in Workers : Busy(v) => v = w
         /\ \A kind : Did(w, kind) <=> Has(journal, kind)
<1>1. DriverInv /\ HoldingInv
  BY DEF IInv, Sound
<1>2. lease.run = w /\ driver[w].mine = journal /\ reset.by # w
  BY <1>1 DEF DriverInv
<1>3. reset.pc \in {"idle", "acquire"} /\ \A v \in Workers : Busy(v) => v = w
  BY <1>1, <1>2 DEF DriverInv, HoldingInv
<1>4. ~reset.claimed
  BY <1>1, <1>3 DEF HoldingInv, Claiming, Rewriting
<1> QED BY <1>2, <1>3, <1>4 DEF Did

\* A driver that goes on without writing.
LEMMA MovedOn ==
  ASSUME IInv, ~torn, NEW w \in Workers, Busy(w), NEW p \in {"body", "update", "release"},
         driver' = [driver EXCEPT ![w] = [@ EXCEPT !.pc = p]],
         UNCHANGED <<journal, child, lease, minder, reset, torn>>,
         status' = status \/ status' \in {"COMPLETED", "FAILED"},
         signal' = signal \/ (signal' = "consumed" /\ Has(journal, "EVENT_CONSUMED"))
  PROVE  IInv'
<1> DEFINE x == [driver[w] EXCEPT !.pc = p]
<1>1. /\ reset.pc \in {"idle", "acquire"} /\ lease.run = w /\ ~reset.claimed
      /\ driver \in [Workers -> [pc : Places, mine : SUBSET Events]]
  BY Alone DEF IInv, Types
<1>2. x \in [pc : Places, mine : SUBSET Events] /\ x.pc = p /\ x.mine = driver[w].mine
  BY <1>1 DEF Places
<1> HIDE DEF x
<1>3. /\ driver'[w] = x /\ \A v \in Workers : v # w => driver'[v] = driver[v]
      /\ driver' \in [Workers -> [pc : Places, mine : SUBSET Events]]
  BY <1>1, <1>2 DEF x
<1>4. \A v \in Workers : Busy(v)' <=> Busy(v)
  BY <1>2, <1>3 DEF Busy
<1>5. Types'
  BY <1>3 DEF IInv, Types
<1>6. LeaseInv'
  BY <1>1, <1>4 DEF IInv, LeaseInv
<1>7. DriverInv'
  BY <1>2, <1>3, <1>4 DEF IInv, Sound, DriverInv
<1>8. HoldingInv' /\ SplitInv' /\ MinderInv'
  BY <1>1 DEF IInv, Sound, HoldingInv, SplitInv, MinderInv
<1>9. WorldInv'
  BY <1>1 DEF IInv, Sound, WorldInv, Has
<1> QED BY <1>5, <1>6, <1>7, <1>8, <1>9 DEF IInv, Sound

\* A driver that writes the next event of its body.
LEMMA Written ==
  ASSUME IInv, ~torn, NEW w \in Workers, Busy(w), NEW kind \in Kinds \ {"RUN_STARTED", "RUN_RESET"},
         NEW p \in {"body", "mark", "update"}, AppendThen(w, kind, p),
         UNCHANGED <<status, signal, child, minder, reset, torn>>,
         ~Did(w, kind), Did(w, Prior[kind]),
         kind \in {"STEP_COMPLETED", "STEP_FAILED"} => ~Stepped(w),
         kind = "CHILD_COMPLETED" => child.status = "COMPLETED",
         p = "mark" => kind = "EVENT_CONSUMED"
  PROVE  IInv'
<1> DEFINE e == Event(Cardinality(driver[w].mine), kind, IF kind = "CHILD_COMPLETED" THEN child.gen ELSE 0)
           x == [pc |-> p, mine |-> driver[w].mine \cup {e}]
<1>1. /\ reset.pc \in {"idle", "acquire"} /\ lease.run = w /\ driver[w].mine = journal /\ ~reset.claimed
      /\ reset.by # w
      /\ \A v \in Workers : Busy(v) => v = w
      /\ \A k : Did(w, k) <=> Has(journal, k)
  BY Alone
<1>2. /\ journal \in SUBSET Events /\ Dense(journal) /\ Ordered(journal)
      /\ driver \in [Workers -> [pc : Places, mine : SUBSET Events]]
      /\ child \in [status : {"absent", "RUNNING", "COMPLETED"}, gen : Nat]
  BY DEF IInv, Types, Sound
<1>3. /\ e \in Events /\ e.seq = Cardinality(journal) /\ e.kind = kind
      /\ kind = "CHILD_COMPLETED" => e.of = child.gen
  <2>1. Cardinality(journal) \in Nat
    BY <1>2, DenseFacts
  <2> QED BY <1>1, <1>2, <2>1 DEF Event, Events
<1>4. /\ Dense(journal \cup {e}) /\ ~Taken(e.seq)
  BY <1>2, <1>3, AppendDense DEF Taken
<1>5. journal' = journal \cup {e} /\ driver' = [driver EXCEPT ![w] = x] /\ lease' = lease
  BY <1>4 DEF AppendThen
<1> HIDE DEF e
<1>6. Ordered(journal \cup {e})
  BY <1>1, <1>2, <1>3, AppendOrdered DEF Stepped
<1>7. x \in [pc : Places, mine : SUBSET Events] /\ x.pc = p /\ x.mine = journal'
  BY <1>1, <1>2, <1>3, <1>5 DEF Places
<1> HIDE DEF x
<1>8. /\ driver'[w] = x /\ \A v \in Workers : v # w => driver'[v] = driver[v]
      /\ driver' \in [Workers -> [pc : Places, mine : SUBSET Events]]
  BY <1>2, <1>5, <1>7
<1>9. \A v \in Workers : Busy(v)' <=> Busy(v)
  BY <1>7, <1>8 DEF Busy
<1>10. /\ \A k : Has(journal, k) => Has(journal', k)
       /\ Has(journal', kind)
  BY <1>3, <1>5 DEF Has
<1>11. Types'
  <2>1. IsFiniteSet(journal') /\ journal' \subseteq Events
    BY <1>2, <1>3, <1>4, <1>5 DEF Dense
  <2> QED BY <1>5, <1>8, <2>1 DEF IInv, Types
<1>12. LeaseInv'
  BY <1>1, <1>5, <1>9 DEF IInv, LeaseInv
<1>13. DriverInv'
  BY <1>1, <1>5, <1>7, <1>8, <1>9, <1>10 DEF DriverInv
<1>14. MinderInv' /\ HoldingInv' /\ SplitInv'
  BY <1>1, <1>5 DEF IInv, Sound, MinderInv, HoldingInv, SplitInv
<1>15. WorldInv'
  <2>1. WorldInv /\ reset.pc \notin Rewriting
    BY <1>1 DEF IInv, Sound, Rewriting
  <2>2. ASSUME NEW f \in journal', f.kind = "CHILD_COMPLETED"
        PROVE  child' = [status |-> "COMPLETED", gen |-> f.of]
    <3>1. CASE f \in journal
      BY <2>1, <2>2, <3>1 DEF WorldInv
    <3>2. CASE f = e
      <4>1. child = [status |-> child.status, gen |-> child.gen]
        BY <1>2
      <4> QED BY <1>3, <2>2, <3>2, <4>1
    <3> QED BY <1>5, <3>1, <3>2
  <2> QED BY <1>1, <1>10, <2>1, <2>2 DEF WorldInv
<1> QED BY <1>4, <1>5, <1>6, <1>11, <1>12, <1>13, <1>14, <1>15 DEF IInv, Sound

\* Every event the body writes comes right after its predecessor.
LEMMA BodyStep ==
  ASSUME IInv, ~torn, NEW w \in Workers,
         ScheduleChild(w) \/ TakeResult(w) \/ Consume(w) \/ Step(w) \/ Compensate(w) \/ End(w)
  PROVE  IInv'
<1> USE DEF Prior, Kinds
<1>0. InBody(w) => Busy(w) /\ Ordered(journal) /\ \A kind : Did(w, kind) <=> Has(journal, kind)
  BY Alone DEF InBody, Busy, IInv, Sound
<1>1. CASE ScheduleChild(w)
  BY <1>0, <1>1, Written DEF ScheduleChild, Ordered
<1>2. CASE TakeResult(w)
  BY <1>0, <1>2, Written DEF TakeResult
<1>3. CASE Consume(w)
  BY <1>0, <1>3, Written DEF Consume
<1>4. CASE Step(w)
  BY <1>0, <1>4, Written DEF Step, Stepped
<1>5. CASE Compensate(w)
  BY <1>0, <1>5, Written DEF Compensate
<1>6. CASE End(w)
  <2> DEFINE kind == IF Did(w, "STEP_FAILED") THEN "RUN_FAILED" ELSE "RUN_COMPLETED"
  <2>1. Busy(w) /\ Stepped(w) /\ Did(w, Prior[kind]) /\ UNCHANGED <<status, signal, child, minder, reset, torn>>
    BY <1>0, <1>6 DEF End, Stepped
  <2>2. CASE Did(w, kind)
    <3>1. driver' = [driver EXCEPT ![w] = [@ EXCEPT !.pc = "update"]] /\ UNCHANGED <<journal, lease>>
      BY <1>6, <2>2 DEF End
    <3> QED BY <2>1, <3>1, MovedOn
  <2>3. CASE ~Did(w, kind)
    <3>1. AppendThen(w, kind, "update")
      BY <1>6, <2>3 DEF End
    <3>2. /\ kind \in Kinds \ {"RUN_STARTED", "RUN_RESET"}
          /\ kind \notin {"STEP_COMPLETED", "STEP_FAILED", "CHILD_COMPLETED"}
      OBVIOUS
    <3> QED BY <2>1, <2>3, <3>1, <3>2, Written
  <2> QED BY <2>2, <2>3
<1> QED BY <1>1, <1>2, <1>3, <1>4, <1>5, <1>6

\* The signal that is marked is one the journal has consumed.
LEMMA MarkConsumedStep ==
  ASSUME IInv, ~torn, NEW w \in Workers, MarkConsumed(w)
  PROVE  IInv'
<1>1. /\ Busy(w) /\ signal' = "consumed" /\ driver' = [driver EXCEPT ![w] = [@ EXCEPT !.pc = "body"]]
      /\ UNCHANGED <<journal, child, lease, minder, reset, torn, status>>
  BY DEF MarkConsumed, Busy
<1>2. Has(journal, "EVENT_CONSUMED")
  BY <1>1 DEF MarkConsumed, IInv, Sound, DriverInv
<1> QED BY <1>1, <1>2, MovedOn

\* The status is written by who still drives.
LEMMA UpdateStep ==
  ASSUME IInv, ~torn, NEW w \in Workers, Update(w)
  PROVE  IInv'
<1>1. /\ Busy(w) /\ status' \in {"COMPLETED", "FAILED"}
      /\ driver' = [driver EXCEPT ![w] = [@ EXCEPT !.pc = "release"]]
      /\ UNCHANGED <<journal, child, lease, minder, reset, torn, signal>>
  BY DEF Update, Busy
<1> QED BY <1>1, MovedOn

\* A driver that leaves takes its lease with it.
LEMMA LeftFacts ==
  ASSUME IInv, ~torn, NEW w \in Workers, Busy(w), Leave(w)
  PROVE  /\ lease' = [lease EXCEPT !.run = Nobody] /\ lease' \in [run : Holders, child : Holders]
         /\ lease'.run = Nobody /\ lease'.child = lease.child
         /\ driver' \in [Workers -> [pc : Places, mine : SUBSET Events]]
         /\ driver'[w] = Down /\ (\A v \in Workers : v # w => driver'[v] = driver[v])
         /\ \A v \in Workers : driver'[v].pc = "down"
<1>1. /\ lease.run = w /\ \A v \in Workers : Busy(v) => v = w
  BY Alone
<1>2. /\ lease \in [run : Holders, child : Holders]
      /\ driver \in [Workers -> [pc : Places, mine : SUBSET Events]]
  BY DEF IInv, Types
<1>3. lease' = [lease EXCEPT !.run = Nobody]
  BY <1>1, <1>2 DEF Leave, Freed
<1>4. Down \in [pc : Places, mine : SUBSET Events] /\ Down.pc = "down"
  BY DEF Down, Places
<1>5. driver' = [driver EXCEPT ![w] = Down]
  BY DEF Leave
<1>6. /\ lease' \in [run : Holders, child : Holders] /\ lease'.run = Nobody /\ lease'.child = lease.child
  BY <1>2, <1>3 DEF Holders
<1>7. /\ driver' \in [Workers -> [pc : Places, mine : SUBSET Events]]
      /\ driver'[w] = Down /\ (\A v \in Workers : v # w => driver'[v] = driver[v])
  BY <1>2, <1>4, <1>5
<1> QED BY <1>1, <1>3, <1>4, <1>6, <1>7 DEF Busy

\* Nobody drives a run that its driver has left.
LEMMA ReleaseStep ==
  ASSUME IInv, ~torn, NEW w \in Workers, Release(w)
  PROVE  IInv'
<1>1. Busy(w) /\ Leave(w) /\ UNCHANGED <<status, journal, signal, child, minder, reset, torn>>
  BY DEF Release, Busy, run
<1>2. /\ lease' \in [run : Holders, child : Holders] /\ lease'.run = Nobody /\ lease'.child = lease.child
      /\ driver' \in [Workers -> [pc : Places, mine : SUBSET Events]]
      /\ \A v \in Workers : ~Busy(v)'
      /\ reset.pc \in {"idle", "acquire"}
  BY <1>1, LeftFacts, Alone DEF Busy
<1>3. Types' /\ LeaseInv'
  BY <1>1, <1>2 DEF IInv, Types, LeaseInv
<1>4. DriverInv' /\ MinderInv' /\ HoldingInv' /\ SplitInv'
  BY <1>1, <1>2 DEF IInv, Sound, DriverInv, MinderInv, HoldingInv, SplitInv
<1>5. WorldInv'
  BY <1>1 DEF IInv, Sound, WorldInv, Has
<1> QED BY <1>1, <1>3, <1>4, <1>5 DEF IInv, Sound

\* The child is started by who has journaled it, and is minded here.
LEMMA StartChildStep ==
  ASSUME IInv, ~torn, NEW w \in Workers, StartChild(w)
  PROVE  IInv'
<1>1. /\ Busy(w) /\ child' = [status |-> "RUNNING", gen |-> child.gen + 1]
      /\ minder' = w /\ lease' = [lease EXCEPT !.child = w]
      /\ UNCHANGED <<status, journal, signal, driver, reset, torn>>
      /\ Did(w, "CHILD_SCHEDULED") /\ ~Did(w, "CHILD_COMPLETED")
  BY DEF StartChild, Busy, InBody, run
<1>2. /\ reset.pc \in {"idle", "acquire"} /\ ~reset.claimed
      /\ Has(journal, "CHILD_SCHEDULED") /\ ~Has(journal, "CHILD_COMPLETED")
  BY <1>1, Alone
<1>3. /\ lease' \in [run : Holders, child : Holders] /\ lease'.run = lease.run /\ lease'.child = w
      /\ child' \in [status : {"absent", "RUNNING", "COMPLETED"}, gen : Nat] /\ child'.status = "RUNNING"
  BY <1>1 DEF IInv, Types, Holders
<1>4. Types' /\ LeaseInv'
  BY <1>1, <1>3 DEF IInv, Types, LeaseInv, Busy
<1>5. DriverInv' /\ MinderInv' /\ HoldingInv' /\ SplitInv'
  BY <1>1, <1>2, <1>3 DEF IInv, Sound, DriverInv, MinderInv, HoldingInv, SplitInv, Busy, Has
<1>6. WorldInv'
  BY <1>1, <1>2, <1>3 DEF IInv, Sound, WorldInv, Has, Rewriting
<1> QED BY <1>1, <1>4, <1>5, <1>6 DEF IInv, Sound

\* A child that has ended is nobody's to mind.
LEMMA ChildEndsStep ==
  ASSUME IInv, ~torn, ChildEnds
  PROVE  IInv'
<1>1. /\ minder # Nobody /\ child.status = "RUNNING" /\ minder' = Nobody
      /\ child' = [child EXCEPT !.status = "COMPLETED"] /\ lease' = Freed(minder, "child")
      /\ UNCHANGED <<status, journal, signal, driver, reset, torn>>
  BY DEF ChildEnds, run
<1>2. lease.child = minder /\ (reset.claimed => reset.pc \notin Claiming)
  BY <1>1 DEF IInv, Sound, MinderInv, HoldingInv
<1>3. /\ lease' \in [run : Holders, child : Holders] /\ lease'.run = lease.run /\ lease'.child = Nobody
      /\ child' \in [status : {"absent", "RUNNING", "COMPLETED"}, gen : Nat] /\ child'.status = "COMPLETED"
  BY <1>1, <1>2 DEF IInv, Types, Holders, Freed
<1>4. Types' /\ LeaseInv'
  BY <1>1, <1>3 DEF IInv, Types, LeaseInv, Busy
<1>5. DriverInv' /\ MinderInv' /\ HoldingInv' /\ SplitInv'
  BY <1>1, <1>2, <1>3 DEF IInv, Types, Sound, DriverInv, MinderInv, HoldingInv, SplitInv, Busy, Has
<1>6. WorldInv'
  BY <1>1, <1>3 DEF IInv, Sound, WorldInv, Has
<1> QED BY <1>1, <1>4, <1>5, <1>6 DEF IInv, Sound

\* A signal is sent once.
LEMMA SendSignalStep ==
  ASSUME IInv, ~torn, SendSignal
  PROVE  IInv'
<1>1. signal' = "unread" /\ UNCHANGED <<status, journal, child, lease, driver, minder, reset, torn>>
  BY DEF SendSignal
<1>2. Types' /\ LeaseInv'
  BY <1>1 DEF IInv, Types, LeaseInv, Busy
<1>3. DriverInv' /\ MinderInv' /\ HoldingInv' /\ SplitInv' /\ WorldInv'
  BY <1>1 DEF IInv, Sound, DriverInv, MinderInv, HoldingInv, SplitInv, WorldInv, Busy, Has
<1> QED BY <1>1, <1>2, <1>3 DEF IInv, Sound

\* A run that nobody holds gets a driver that knows its journal.
LEMMA EnsureStep ==
  ASSUME IInv, ~torn, NEW w \in Workers, Ensure(w)
  PROVE  IInv'
<1> DEFINE x == [pc |-> "body", mine |-> journal]
<1>1. /\ status = "RUNNING" /\ lease.run \in {Nobody, w} /\ lease' = [lease EXCEPT !.run = w]
      /\ driver' = [driver EXCEPT ![w] = x] /\ (torn' <=> reset.by = w) /\ torn' \in BOOLEAN
      /\ UNCHANGED <<status, journal, signal, child, minder, reset>>
  BY DEF Ensure, run, IInv, Types
<1>2. x \in [pc : Places, mine : SUBSET Events] /\ x.pc = "body" /\ x.mine = journal
  BY DEF Places, IInv, Types
<1> HIDE DEF x
<1>3. /\ driver' \in [Workers -> [pc : Places, mine : SUBSET Events]] /\ driver'[w] = x
      /\ \A v \in Workers : v # w => driver'[v] = driver[v]
  BY <1>1, <1>2 DEF IInv, Types
<1>4. lease' \in [run : Holders, child : Holders] /\ lease'.run = w /\ lease'.child = lease.child
  BY <1>1 DEF IInv, Types, Holders
<1>5. Types'
  BY <1>1, <1>3, <1>4 DEF IInv, Types
<1>6. LeaseInv'
  BY <1>1, <1>2, <1>3, <1>4 DEF IInv, LeaseInv, Busy
<1>7. ASSUME reset.by # w PROVE Sound'
  <2>1. \A v \in Workers : Busy(v)' => v = w
    BY <1>1, <1>3 DEF Busy, IInv, Sound, DriverInv
  <2>2. DriverInv'
    BY <1>1, <1>2, <1>3, <1>4, <1>7, <2>1 DEF DriverInv
  <2>3. reset.pc \in {"idle", "acquire"}
    BY <1>1, <1>7 DEF IInv, Sound, HoldingInv
  <2>4. MinderInv' /\ HoldingInv' /\ SplitInv'
    BY <1>1, <1>4, <2>3 DEF IInv, Sound, MinderInv, HoldingInv, SplitInv
  <2>5. WorldInv'
    BY <1>1 DEF IInv, Sound, WorldInv, Has
  <2> QED BY <1>1, <2>2, <2>4, <2>5 DEF IInv, Sound
<1> QED BY <1>1, <1>5, <1>6, <1>7 DEF IInv

\* A child that nobody holds gets somebody to mind it.
LEMMA EnsureChildStep ==
  ASSUME IInv, ~torn, NEW w \in Workers, EnsureChild(w)
  PROVE  IInv'
<1>1. /\ child.status = "RUNNING" /\ lease.child \in {Nobody, w} /\ lease' = [lease EXCEPT !.child = w]
      /\ minder' = w /\ torn' \in BOOLEAN
      /\ ~torn' => ~(reset.by = w /\ (reset.pc = "claim" \/ reset.claimed))
      /\ UNCHANGED <<status, journal, signal, child, driver, reset>>
  BY DEF EnsureChild, run, IInv, Types
<1>2. lease' \in [run : Holders, child : Holders] /\ lease'.run = lease.run /\ lease'.child = w
  BY <1>1 DEF IInv, Types, Holders
<1>3. Types' /\ LeaseInv'
  BY <1>1, <1>2 DEF IInv, Types, LeaseInv, Busy
<1>4. ASSUME ~torn' PROVE Sound'
  <2>1. reset.claimed => reset.pc \notin Claiming
    BY <1>1, <1>4 DEF IInv, Sound, HoldingInv, Claiming, Rewriting
  <2>2. DriverInv' /\ MinderInv' /\ HoldingInv' /\ SplitInv'
    BY <1>1, <1>2, <1>4, <2>1 DEF IInv, Sound, DriverInv, MinderInv, HoldingInv, SplitInv, Busy, Has
  <2>3. WorldInv'
    BY <1>1 DEF IInv, Sound, WorldInv, Has
  <2> QED BY <1>1, <2>2, <2>3 DEF IInv, Sound
<1> QED BY <1>1, <1>3, <1>4 DEF IInv


-----------------------------------------------------------------------------
(* Resets *)

\* A reset at work is alone with the run.
LEMMA NobodyDrives ==
  ASSUME IInv, ~torn, reset.pc \notin {"idle", "acquire"}
  PROVE  /\ reset.by \in Workers /\ lease.run = reset.by /\ reset.by # Nobody
         /\ \A w \in Workers : ~Busy(w) /\ driver[w].pc = "down"
         /\ reset \in [by : Workers \cup {Nobody}, pc : Stages, stopped : BOOLEAN, claimed : BOOLEAN,
                       kept : SUBSET Events, dropped : SUBSET Kinds]
BY DEF IInv, Types, Sound, DriverInv, HoldingInv, Busy

\* A reset that has been asked for holds nothing yet.
LEMMA AskStep ==
  ASSUME IInv, ~torn, NEW w \in Workers, Ask(w)
  PROVE  IInv'
<1> DEFINE r == [NoReset EXCEPT !.by = w, !.pc = "acquire", !.stopped = Busy(w)]
<1>1. /\ reset = NoReset /\ reset' = r
      /\ UNCHANGED <<status, journal, signal, child, minder, torn>>
      /\ IF Busy(w) THEN Leave(w) ELSE UNCHANGED <<driver, lease>>
  BY DEF Ask, run
<1>2. /\ r \in [by : Workers \cup {Nobody}, pc : Stages, stopped : BOOLEAN, claimed : BOOLEAN,
                kept : SUBSET Events, dropped : SUBSET Kinds]
      /\ r.by = w /\ r.pc = "acquire" /\ ~r.claimed
  BY DEF NoReset, Stages, Busy
<1>3. reset.by = Nobody /\ reset.pc = "idle"
  BY <1>1 DEF NoReset
<1> HIDE DEF r
<1>4. /\ lease' \in [run : Holders, child : Holders] /\ lease'.child = lease.child
      /\ driver' \in [Workers -> [pc : Places, mine : SUBSET Events]]
      /\ lease'.run = lease.run \/ lease'.run = Nobody
      /\ \A v \in Workers : Busy(v)' => Busy(v) /\ driver'[v] = driver[v] /\ lease'.run = lease.run /\ v # w
      /\ lease'.run \in Workers => lease'.run = lease.run /\ driver' = driver
  <2>1. CASE Busy(w)
    BY <1>1, <2>1, LeftFacts DEF Busy
  <2>2. CASE ~Busy(w)
    BY <1>1, <2>2 DEF Busy, IInv, Types
  <2> QED BY <2>1, <2>2
<1>5. Types'
  BY <1>1, <1>2, <1>4 DEF IInv, Types
<1>6. LeaseInv'
  BY <1>1, <1>3, <1>4 DEF IInv, LeaseInv, Busy
<1>7. DriverInv'
  BY <1>1, <1>2, <1>4 DEF IInv, Sound, DriverInv
<1>8. MinderInv' /\ HoldingInv' /\ SplitInv'
  BY <1>1, <1>2, <1>4 DEF IInv, Sound, MinderInv, HoldingInv, SplitInv
<1>9. WorldInv'
  BY <1>1, <1>2, <1>3 DEF IInv, Sound, WorldInv, Has, Rewriting
<1> QED BY <1>1, <1>5, <1>6, <1>7, <1>8, <1>9 DEF IInv, Sound

\* It takes the lease of the run, or gives up with nothing.
LEMMA AcquireStep ==
  ASSUME IInv, ~torn, Acquire
  PROVE  IInv'
<1>1. /\ reset.pc = "acquire" /\ UNCHANGED <<status, journal, signal, child, driver, minder, torn>>
      /\ reset \in [by : Workers \cup {Nobody}, pc : Stages, stopped : BOOLEAN, claimed : BOOLEAN,
                    kept : SUBSET Events, dropped : SUBSET Kinds]
      /\ reset.by \in Workers /\ ~reset.claimed
  BY DEF Acquire, IInv, Types, Sound, HoldingInv, run, Claiming, Rewriting
<1>2. CASE lease.run \in {Nobody, reset.by}
  <2> DEFINE r == [reset EXCEPT !.pc = "load"]
  <2>1. lease' = [lease EXCEPT !.run = reset.by] /\ reset' = r
    BY <1>2 DEF Acquire, Stage
  <2>2. /\ r \in [by : Workers \cup {Nobody}, pc : Stages, stopped : BOOLEAN, claimed : BOOLEAN,
                  kept : SUBSET Events, dropped : SUBSET Kinds]
        /\ r.by = reset.by /\ r.pc = "load" /\ ~r.claimed
    BY <1>1 DEF Stages, Relying
  <2> HIDE DEF r
  <2>3. lease' \in [run : Holders, child : Holders] /\ lease'.run = reset.by /\ lease'.child = lease.child
    BY <1>1, <2>1 DEF IInv, Types, Holders
  <2>4. \A w \in Workers : ~Busy(w) /\ ~Busy(w)'
    BY <1>1, <1>2 DEF Busy, IInv, Sound, DriverInv
  <2>5. Types'
    BY <1>1, <2>1, <2>2, <2>3 DEF IInv, Types
  <2>6. LeaseInv'
    BY <1>1, <2>1, <2>2, <2>3 DEF IInv, LeaseInv
  <2>7. DriverInv' /\ MinderInv' /\ HoldingInv' /\ SplitInv'
    BY <1>1, <2>1, <2>2, <2>3, <2>4 DEF IInv, Sound, DriverInv, MinderInv, HoldingInv, SplitInv
  <2>8. WorldInv'
    BY <1>1, <2>1, <2>2 DEF IInv, Sound, WorldInv, Has, Rewriting
  <2> QED BY <1>1, <2>5, <2>6, <2>7, <2>8 DEF IInv, Sound
<1>3. CASE lease.run \notin {Nobody, reset.by}
  <2>1. reset' = NoReset /\ lease' = lease
    BY <1>3 DEF Acquire, Over
  <2>2. /\ reset' \in [by : Workers \cup {Nobody}, pc : Stages, stopped : BOOLEAN, claimed : BOOLEAN,
                       kept : SUBSET Events, dropped : SUBSET Kinds]
        /\ reset'.by = Nobody /\ reset'.pc = "idle" /\ ~reset'.claimed
    BY <2>1 DEF NoReset, Stages
  <2>3. Types' /\ LeaseInv'
    BY <1>1, <1>3, <2>1, <2>2 DEF IInv, Types, LeaseInv, Busy
  <2>4. DriverInv' /\ MinderInv' /\ HoldingInv' /\ SplitInv'
    BY <1>1, <2>1, <2>2 DEF IInv, Sound, DriverInv, MinderInv, HoldingInv, SplitInv, Busy, Has
  <2>5. WorldInv'
    BY <1>1, <2>1, <2>2 DEF IInv, Sound, WorldInv, Has, Rewriting
  <2> QED BY <1>1, <2>3, <2>4, <2>5 DEF IInv, Sound
<1> QED BY <1>2, <1>3


\* What is kept from an operation on is the beginning of the execution.
LEMMA Keeping ==
  ASSUME NEW events \in SUBSET Events, Ordered(events), NEW to \in 0..2
  PROVE  Ordered({e \in events : ~Stale(e, to)})
<1> DEFINE kept == {e \in events : ~Stale(e, to)}
<1>1. \A kind \in Kinds \ {"RUN_RESET", "RUN_STARTED", "RUN_COMPLETED", "RUN_FAILED", "COMP_COMPLETED"} :
        /\ OpOf(kind) \in 0..2 /\ OpOf(Prior[kind]) \in -1..2 /\ OpOf(Prior[kind]) <= OpOf(kind)
        /\ Prior[kind] \notin {"RUN_COMPLETED", "RUN_FAILED", "COMP_COMPLETED"}
  BY DEF Kinds, OpOf, Prior
<1>2. Has(kept, "RUN_STARTED")
  <2>1. PICK e \in events : e.kind = "RUN_STARTED"
    BY DEF Ordered, Has
  <2>2. OpOf("RUN_STARTED") = -1
    BY DEF OpOf
  <2>3. ~Stale(e, to)
    BY <2>1, <2>2 DEF Stale
  <2> QED BY <2>1, <2>3 DEF Has
<1>3. ASSUME NEW e \in kept, e.kind # "RUN_RESET", e.kind # "RUN_STARTED"
      PROVE  \E f \in kept : f.kind = Prior[e.kind] /\ f.seq < e.seq
  <2>1. PICK f \in events : f.kind = Prior[e.kind] /\ f.seq < e.seq
    BY <1>3 DEF Ordered
  <2>2. /\ e.kind \in Kinds \ {"RUN_RESET", "RUN_STARTED", "RUN_COMPLETED", "RUN_FAILED", "COMP_COMPLETED"}
        /\ ~(OpOf(e.kind) >= to)
    BY <1>3 DEF Stale, Events
  <2>3. ~(OpOf(f.kind) >= to) /\ f.kind \notin {"RUN_COMPLETED", "RUN_FAILED", "COMP_COMPLETED"}
    BY <1>1, <2>1, <2>2
  <2> QED BY <2>1, <2>3 DEF Stale
<1>4. ~(Has(kept, "STEP_COMPLETED") /\ Has(kept, "STEP_FAILED"))
  BY DEF Ordered, Has
<1>5. \A e \in kept : e.kind # "RUN_RESET" => \A f \in kept : f.kind = e.kind => f = e
  BY DEF Ordered
<1> HIDE DEF kept
<1>6. Ordered(kept)
  BY <1>2, <1>3, <1>4, <1>5 DEF Ordered
<1> QED BY <1>6 DEF kept

\* The journal is split into what is kept and the kinds of what is not.
LEMMA LoadStep ==
  ASSUME IInv, ~torn, NEW to \in 0..2, NEW force \in BOOLEAN, Load(to, force)
  PROVE  IInv'
<1> DEFINE kept == {e \in journal : ~Stale(e, to)}
           dropped == {e.kind : e \in journal \ kept}
           pc == IF "COMP_COMPLETED" \in dropped /\ ~force THEN "refuse"
                 ELSE IF "CHILD_SCHEDULED" \in dropped THEN "stop" ELSE "replace"
           r == [reset EXCEPT !.kept = kept, !.dropped = dropped, !.pc = pc]
<1>1. /\ reset.pc = "load" /\ reset' = r
      /\ UNCHANGED <<status, journal, signal, child, lease, driver, minder, torn>>
  BY DEF Load, run
<1>2. reset.by \in Workers /\ lease.run = reset.by /\ \A w \in Workers : ~Busy(w)
  BY <1>1, NobodyDrives
<1>3. /\ kept \in SUBSET journal /\ Ordered(kept) /\ journal \in SUBSET Events
      /\ dropped \in SUBSET Kinds
  <2>1. journal \in SUBSET Events /\ Ordered(journal)
    BY DEF IInv, Types, Sound
  <2>2. Ordered(kept)
    BY <2>1, Keeping
  <2> QED BY <2>1, <2>2 DEF Events
<1>4. dropped = {e.kind : e \in journal \ kept} /\ kept \in SUBSET Events
  BY <1>3
<1>5. ~reset.claimed
  BY <1>1 DEF IInv, Sound, HoldingInv, Claiming, Rewriting
<1>6. pc \in {"refuse", "stop", "replace"} /\ (pc = "stop" => "CHILD_SCHEDULED" \in dropped)
      /\ (pc = "replace" => "CHILD_SCHEDULED" \notin dropped)
  OBVIOUS
<1> HIDE DEF kept, dropped, pc
<1>7. /\ r \in [by : Workers \cup {Nobody}, pc : Stages, stopped : BOOLEAN, claimed : BOOLEAN,
                kept : SUBSET Events, dropped : SUBSET Kinds]
      /\ r.by = reset.by /\ r.pc = pc /\ ~r.claimed /\ r.kept = kept /\ r.dropped = dropped
  BY <1>1, <1>3, <1>4, <1>5, <1>6, NobodyDrives DEF Stages, Relying
<1> HIDE DEF r
<1>8. Types' /\ LeaseInv'
  BY <1>1, <1>5, <1>6, <1>7 DEF IInv, Types, LeaseInv, Busy
<1>9. DriverInv' /\ MinderInv'
  BY <1>1, <1>7 DEF IInv, Sound, DriverInv, MinderInv, Busy
<1>10. HoldingInv'
  BY <1>1, <1>2, <1>6, <1>7 DEF HoldingInv
<1>11. SplitInv'
  BY <1>1, <1>3, <1>4, <1>6, <1>7 DEF SplitInv
<1>12. WorldInv'
  BY <1>1, <1>6, <1>7 DEF IInv, Sound, WorldInv, Has, Rewriting
<1> QED BY <1>1, <1>8, <1>9, <1>10, <1>11, <1>12 DEF IInv, Sound

\* This worker minds the child no longer.
LEMMA StopChildStep ==
  ASSUME IInv, ~torn, StopChild
  PROVE  IInv'
<1> DEFINE pc == IF child.status = "absent" THEN "replace" ELSE "claim"
           r == [reset EXCEPT !.pc = pc]
<1>1. /\ reset.pc = "stop" /\ reset' = r /\ UNCHANGED <<status, journal, signal, child, driver, torn>>
      /\ pc \in {"replace", "claim"} /\ (pc = "claim" <=> child.status # "absent")
  BY DEF StopChild, Stage, run
<1>2. ~reset.claimed
  BY <1>1 DEF IInv, Sound, HoldingInv, Claiming, Rewriting
<1> HIDE DEF pc
<1>3. /\ r \in [by : Workers \cup {Nobody}, pc : Stages, stopped : BOOLEAN, claimed : BOOLEAN,
                kept : SUBSET Events, dropped : SUBSET Kinds]
      /\ r.by = reset.by /\ r.pc = pc /\ ~r.claimed /\ r.kept = reset.kept /\ r.dropped = reset.dropped
  BY <1>1, <1>2, NobodyDrives DEF Stages, Relying
<1> HIDE DEF r
<1>4. /\ lease' \in [run : Holders, child : Holders] /\ lease'.run = lease.run
      /\ lease'.child \in Workers => lease'.child = lease.child /\ minder' = minder
      /\ minder' \in {minder, Nobody} /\ (pc = "claim" => minder' # reset.by)
      /\ minder' # Nobody => lease'.child = lease.child
  <2>1. CASE child.status # "absent" /\ minder = reset.by
    <3>1. minder' = Nobody /\ lease' = [lease EXCEPT !.child = Nobody]
      BY <1>1, <2>1, NobodyDrives DEF StopChild, Freed, IInv, Sound, MinderInv
    <3> QED BY <1>1, <3>1, NobodyDrives DEF IInv, Types, Holders
  <2>2. CASE ~(child.status # "absent" /\ minder = reset.by)
    BY <1>1, <2>2 DEF StopChild, IInv, Types
  <2> QED BY <2>1, <2>2
<1>5. Types' /\ LeaseInv'
  BY <1>1, <1>2, <1>3, <1>4 DEF IInv, Types, LeaseInv, Busy
<1>6. DriverInv' /\ MinderInv' /\ HoldingInv'
  BY <1>1, <1>3, <1>4, NobodyDrives DEF IInv, Sound, DriverInv, MinderInv, HoldingInv, Busy
<1>7. SplitInv'
  BY <1>1, <1>3 DEF IInv, Sound, SplitInv
<1>8. WorldInv'
  BY <1>1, <1>3 DEF IInv, Sound, WorldInv, Has, Rewriting
<1> QED BY <1>1, <1>5, <1>6, <1>7, <1>8 DEF IInv, Sound

\* The lease of the child is taken, or the reset is refused.
LEMMA ClaimStep ==
  ASSUME IInv, ~torn, Claim
  PROVE  IInv'
<1>1. /\ reset.pc = "claim" /\ UNCHANGED <<status, journal, signal, child, driver, minder, torn>>
      /\ minder # reset.by /\ child.status # "absent" /\ ~reset.claimed
  BY DEF Claim, run, IInv, Sound, HoldingInv, Claiming, Rewriting
<1>2. CASE lease.child \in {Nobody, reset.by}
  <2> DEFINE r == [reset EXCEPT !.pc = "replace", !.claimed = TRUE]
  <2>1. reset' = r /\ lease' = [lease EXCEPT !.child = reset.by]
    BY <1>2 DEF Claim
  <2>2. /\ r \in [by : Workers \cup {Nobody}, pc : Stages, stopped : BOOLEAN, claimed : BOOLEAN,
                  kept : SUBSET Events, dropped : SUBSET Kinds]
        /\ r.by = reset.by /\ r.pc = "replace" /\ r.claimed = TRUE
        /\ r.kept = reset.kept /\ r.dropped = reset.dropped
    BY <1>1, NobodyDrives DEF Stages, Relying
  <2> HIDE DEF r
  <2>3. /\ lease' \in [run : Holders, child : Holders] /\ lease'.run = lease.run
        /\ lease'.child = reset.by /\ minder = Nobody
    BY <1>1, <1>2, <2>1, NobodyDrives DEF IInv, Types, Holders, Sound, MinderInv
  <2>4. Types' /\ LeaseInv'
    BY <1>1, <2>1, <2>2, <2>3 DEF IInv, Types, LeaseInv, Busy
  <2>5. DriverInv' /\ MinderInv' /\ HoldingInv'
    BY <1>1, <2>1, <2>2, <2>3, NobodyDrives DEF IInv, Sound, DriverInv, MinderInv, HoldingInv, Busy, Claiming
  <2>6. SplitInv'
    BY <1>1, <2>1, <2>2 DEF IInv, Sound, SplitInv
  <2>7. WorldInv'
    BY <1>1, <2>1, <2>2 DEF IInv, Sound, WorldInv, Has, Rewriting
  <2> QED BY <1>1, <2>4, <2>5, <2>6, <2>7 DEF IInv, Sound
<1>3. CASE lease.child \notin {Nobody, reset.by}
  <2> DEFINE r == [reset EXCEPT !.pc = "refuse"]
  <2>1. reset' = r /\ lease' = lease
    BY <1>3 DEF Claim, Stage
  <2>2. /\ r \in [by : Workers \cup {Nobody}, pc : Stages, stopped : BOOLEAN, claimed : BOOLEAN,
                  kept : SUBSET Events, dropped : SUBSET Kinds]
        /\ r.by = reset.by /\ r.pc = "refuse" /\ ~r.claimed
    BY <1>1, NobodyDrives DEF Stages, Relying
  <2> HIDE DEF r
  <2>3. Types' /\ LeaseInv'
    BY <1>1, <2>1, <2>2 DEF IInv, Types, LeaseInv, Busy
  <2>4. DriverInv' /\ MinderInv' /\ HoldingInv' /\ SplitInv'
    BY <1>1, <2>1, <2>2, NobodyDrives DEF IInv, Sound, DriverInv, MinderInv, HoldingInv, SplitInv, Busy
  <2>5. WorldInv'
    BY <1>1, <2>1, <2>2 DEF IInv, Sound, WorldInv, Has, Rewriting
  <2> QED BY <1>1, <2>3, <2>4, <2>5 DEF IInv, Sound
<1> QED BY <1>2, <1>3


\* The journal is replaced by what is kept, numbered again.
LEMMA ReplaceEventsStep ==
  ASSUME IInv, ~torn, ReplaceEvents
  PROVE  IInv'
<1> DEFINE r == [reset EXCEPT !.pc = "marker"]
<1>1. /\ reset.pc = "replace" /\ reset' = r /\ journal' = Renumbered(reset.kept)
      /\ UNCHANGED <<status, signal, child, lease, driver, minder, torn>>
  BY DEF ReplaceEvents, Stage
<1>2. /\ reset.kept \in SUBSET journal /\ reset.dropped = {e.kind : e \in journal \ reset.kept}
      /\ reset.claimed => "CHILD_SCHEDULED" \in reset.dropped
      /\ "CHILD_SCHEDULED" \in reset.dropped => reset.claimed \/ child.status = "absent"
      /\ journal \in SUBSET Events /\ Dense(journal) /\ Ordered(journal) /\ Ordered(reset.kept)
  BY <1>1 DEF IInv, Types, Sound, SplitInv
<1>3. /\ journal' \in SUBSET Events /\ Dense(journal') /\ Ordered(journal')
      /\ Cardinality(journal') = Cardinality(reset.kept)
      /\ \A kind : Has(journal', kind) <=> Has(reset.kept, kind)
      /\ \A f \in journal' : \E e \in reset.kept : f.kind = e.kind /\ f.of = e.of
  BY <1>1, <1>2, Renumbering
<1>4. /\ r \in [by : Workers \cup {Nobody}, pc : Stages, stopped : BOOLEAN, claimed : BOOLEAN,
                kept : SUBSET Events, dropped : SUBSET Kinds]
      /\ r.by = reset.by /\ r.pc = "marker" /\ r.claimed = reset.claimed
      /\ r.kept = reset.kept /\ r.dropped = reset.dropped
  BY <1>1, NobodyDrives DEF Stages, Relying
<1> HIDE DEF r
<1>5. Types' /\ LeaseInv'
  BY <1>1, <1>3, <1>4 DEF IInv, Types, LeaseInv, Busy, Dense
<1>6. DriverInv' /\ MinderInv' /\ HoldingInv'
  BY <1>1, <1>4, NobodyDrives DEF IInv, Sound, DriverInv, MinderInv, HoldingInv, Busy, Claiming, Rewriting
<1>7. SplitInv'
  BY <1>1, <1>3, <1>4 DEF SplitInv
<1>8. WorldInv'
  <2>1. WorldInv /\ reset.pc \notin Rewriting
    BY <1>1 DEF IInv, Sound, Rewriting
  <2>2. \A kind : Has(journal, kind) => Has(journal', kind) \/ kind \in reset.dropped
    BY <1>2, <1>3 DEF Has
  <2>3. ASSUME reset.claimed PROVE ~Has(journal', "CHILD_SCHEDULED")
    <3>1. PICK e \in journal \ reset.kept : e.kind = "CHILD_SCHEDULED"
      BY <1>2, <2>3
    <3>2. ~\E f \in reset.kept : f.kind = "CHILD_SCHEDULED"
      BY <1>2, <3>1 DEF Ordered
    <3> QED BY <1>3, <3>2 DEF Has
  <2>4. \A f \in journal' : f.kind = "CHILD_COMPLETED" => child' = [status |-> "COMPLETED", gen |-> f.of]
    BY <1>1, <1>2, <1>3, <2>1 DEF WorldInv
  <2>5. child'.status # "absent" => Has(journal', "CHILD_SCHEDULED") \/ reset.claimed
    BY <1>1, <1>2, <2>1, <2>2 DEF WorldInv
  <2>6. signal' = "consumed" => Has(journal', "EVENT_CONSUMED") \/ "EVENT_CONSUMED" \in reset.dropped
    BY <1>1, <2>1, <2>2 DEF WorldInv
  <2> QED BY <1>1, <1>4, <2>3, <2>4, <2>5, <2>6 DEF WorldInv, Rewriting
<1> QED BY <1>1, <1>3, <1>5, <1>6, <1>7, <1>8 DEF IInv, Sound

\* A marker is appended, for which there is always a number.
LEMMA AppendMarkerStep ==
  ASSUME IInv, ~torn, AppendMarker
  PROVE  IInv'
<1> DEFINE r == [reset EXCEPT !.pc = "signals"]
           e == Event(Cardinality(reset.kept), "RUN_RESET", 0)
<1>1. /\ reset.pc = "marker" /\ Cardinality(reset.kept) = Cardinality(journal)
      /\ UNCHANGED <<status, signal, child, lease, driver, minder, torn>>
      /\ journal \in SUBSET Events /\ Dense(journal) /\ Ordered(journal)
  BY DEF AppendMarker, IInv, Types, Sound, SplitInv
<1>2. e \in Events /\ e.seq = Cardinality(journal) /\ e.kind = "RUN_RESET"
  BY <1>1, DenseFacts DEF Event, Events, Kinds
<1>3. ~Taken(Cardinality(reset.kept)) /\ Dense(journal \cup {e})
  BY <1>1, <1>2, AppendDense DEF Taken
<1>4. reset' = r /\ journal' = journal \cup {e}
  BY <1>3 DEF AppendMarker, Stage
<1> HIDE DEF e
<1>5. Ordered(journal \cup {e})
  BY <1>1, <1>2, AppendOrdered
<1>6. \A kind : kind # "RUN_RESET" => (Has(journal', kind) <=> Has(journal, kind))
  BY <1>2, <1>4 DEF Has
<1>7. /\ r \in [by : Workers \cup {Nobody}, pc : Stages, stopped : BOOLEAN, claimed : BOOLEAN,
                kept : SUBSET Events, dropped : SUBSET Kinds]
      /\ r.by = reset.by /\ r.pc = "signals" /\ r.claimed = reset.claimed
      /\ r.dropped = reset.dropped
  BY <1>1, NobodyDrives DEF Stages, Relying
<1> HIDE DEF r
<1>8. Types' /\ LeaseInv'
  BY <1>1, <1>2, <1>3, <1>4, <1>7 DEF IInv, Types, LeaseInv, Busy, Dense
<1>9. DriverInv' /\ MinderInv' /\ HoldingInv' /\ SplitInv'
  BY <1>1, <1>4, <1>7, NobodyDrives
  DEF IInv, Sound, DriverInv, MinderInv, HoldingInv, SplitInv, Busy, Claiming, Rewriting
<1>10. WorldInv'
  <2>1. \A f \in journal' : f.kind = "CHILD_COMPLETED" => child' = [status |-> "COMPLETED", gen |-> f.of]
    BY <1>1, <1>2, <1>4 DEF IInv, Sound, WorldInv
  <2> QED BY <1>1, <1>4, <1>6, <1>7, <2>1 DEF IInv, Sound, WorldInv, Rewriting
<1> QED BY <1>1, <1>3, <1>4, <1>5, <1>8, <1>9, <1>10 DEF IInv, Sound

\* A signal whose consumption was dropped is unread again.
LEMMA ReturnSignalsStep ==
  ASSUME IInv, ~torn, ReturnSignals
  PROVE  IInv'
<1> DEFINE r == [reset EXCEPT !.pc = "reopen", !.kept = {}, !.dropped = {}]
<1>1. /\ reset.pc = "signals" /\ reset' = r /\ signal' = Returned
      /\ UNCHANGED <<status, journal, child, lease, driver, minder, torn>>
  BY DEF ReturnSignals
<1>2. /\ r \in [by : Workers \cup {Nobody}, pc : Stages, stopped : BOOLEAN, claimed : BOOLEAN,
                kept : SUBSET Events, dropped : SUBSET Kinds]
      /\ r.by = reset.by /\ r.pc = "reopen" /\ r.claimed = reset.claimed
  BY <1>1, NobodyDrives DEF Stages, Relying
<1> HIDE DEF r
<1>3. /\ signal' \in {"none", "unread", "consumed"}
      /\ signal' = "consumed" => Has(journal, "EVENT_CONSUMED")
  BY <1>1 DEF Returned, IInv, Types, Sound, WorldInv
<1>4. Types' /\ LeaseInv'
  BY <1>1, <1>2, <1>3 DEF IInv, Types, LeaseInv, Busy
<1>5. DriverInv' /\ MinderInv' /\ HoldingInv' /\ SplitInv'
  BY <1>1, <1>2, NobodyDrives
  DEF IInv, Sound, DriverInv, MinderInv, HoldingInv, SplitInv, Busy, Claiming, Rewriting
<1>6. WorldInv'
  BY <1>1, <1>2, <1>3 DEF IInv, Sound, WorldInv, Has, Rewriting
<1> QED BY <1>1, <1>4, <1>5, <1>6 DEF IInv, Sound

\* The run is to be driven again.
LEMMA ReopenStep ==
  ASSUME IInv, ~torn, Reopen
  PROVE  IInv'
<1> DEFINE r == [reset EXCEPT !.pc = "delete"]
<1>1. /\ reset.pc = "reopen" /\ reset' = r /\ status' = "RUNNING"
      /\ UNCHANGED <<signal, journal, child, lease, driver, minder, torn>>
  BY DEF Reopen, Stage
<1>2. /\ r \in [by : Workers \cup {Nobody}, pc : Stages, stopped : BOOLEAN, claimed : BOOLEAN,
                kept : SUBSET Events, dropped : SUBSET Kinds]
      /\ r.by = reset.by /\ r.pc = "delete" /\ r.claimed = reset.claimed
  BY <1>1, NobodyDrives DEF Stages, Relying
<1> HIDE DEF r
<1>3. Types' /\ LeaseInv'
  BY <1>1, <1>2, NobodyDrives DEF IInv, Types, LeaseInv, Busy
<1>4. DriverInv' /\ MinderInv' /\ HoldingInv' /\ SplitInv'
  BY <1>1, <1>2, NobodyDrives
  DEF IInv, Sound, DriverInv, MinderInv, HoldingInv, SplitInv, Busy, Claiming, Rewriting
<1>5. WorldInv'
  BY <1>1, <1>2 DEF IInv, Sound, WorldInv, Has, Rewriting
<1> QED BY <1>1, <1>3, <1>4, <1>5 DEF IInv, Sound

\* The child goes, with its lease, when the run has forgotten it.
LEMMA DeleteChildStep ==
  ASSUME IInv, ~torn, DeleteChild
  PROVE  IInv'
<1> DEFINE r == [reset EXCEPT !.pc = "resume"]
<1>1. /\ reset.pc = "delete" /\ reset' = r
      /\ UNCHANGED <<status, signal, journal, driver, minder, torn>>
  BY DEF DeleteChild, Stage, run
<1>2. /\ r \in [by : Workers \cup {Nobody}, pc : Stages, stopped : BOOLEAN, claimed : BOOLEAN,
                kept : SUBSET Events, dropped : SUBSET Kinds]
      /\ r.by = reset.by /\ r.pc = "resume" /\ r.claimed = reset.claimed
  BY <1>1, NobodyDrives DEF Stages
<1> HIDE DEF r
<1>3. CASE reset.claimed
  <2>1. child' = [child EXCEPT !.status = "absent"] /\ lease' = [lease EXCEPT !.child = Nobody]
    BY <1>3 DEF DeleteChild, Claimed
  <2>2. /\ child' \in [status : {"absent", "RUNNING", "COMPLETED"}, gen : Nat] /\ child'.status = "absent"
        /\ lease' \in [run : Holders, child : Holders] /\ lease'.run = lease.run /\ lease'.child = Nobody
        /\ minder = Nobody
    BY <1>1, <1>3, <2>1 DEF IInv, Types, Holders, Sound, HoldingInv, Claiming, Rewriting
  <2>3. ~\E e \in journal : e.kind = "CHILD_COMPLETED"
    <3>1. ~Has(journal, "CHILD_SCHEDULED") /\ Ordered(journal)
      BY <1>1, <1>3 DEF IInv, Sound, WorldInv, Rewriting
    <3> QED BY <3>1 DEF Ordered, Has, Prior
  <2>4. Types' /\ LeaseInv'
    BY <1>1, <1>2, <2>2 DEF IInv, Types, LeaseInv, Busy
  <2>5. DriverInv' /\ MinderInv' /\ HoldingInv' /\ SplitInv'
    BY <1>1, <1>2, <2>2, NobodyDrives
    DEF IInv, Sound, DriverInv, MinderInv, HoldingInv, SplitInv, Busy, Claiming, Rewriting
  <2>6. WorldInv'
    BY <1>1, <1>2, <2>2, <2>3 DEF IInv, Sound, WorldInv, Has, Rewriting
  <2> QED BY <1>1, <2>4, <2>5, <2>6 DEF IInv, Sound
<1>4. CASE ~reset.claimed
  <2>1. UNCHANGED <<child, lease>>
    BY <1>4 DEF DeleteChild, Claimed
  <2>2. Types' /\ LeaseInv'
    BY <1>1, <1>2, <2>1 DEF IInv, Types, LeaseInv, Busy
  <2>3. DriverInv' /\ MinderInv' /\ HoldingInv' /\ SplitInv'
    BY <1>1, <1>2, <1>4, <2>1, NobodyDrives
    DEF IInv, Sound, DriverInv, MinderInv, HoldingInv, SplitInv, Busy, Claiming, Rewriting
  <2>4. WorldInv'
    BY <1>1, <1>2, <1>4, <2>1 DEF IInv, Sound, WorldInv, Has, Rewriting
  <2> QED BY <1>1, <2>2, <2>3, <2>4 DEF IInv, Sound
<1> QED BY <1>3, <1>4


\* A reset that is over has handed the run on, or it is not to be driven.
LEMMA Handover ==
  ASSUME IInv, ~torn, reset.pc \in {"resume", "refuse"}, reset' = NoReset,
         UNCHANGED <<status, journal, signal, child, minder, torn>>,
         lease' \in [run : Holders, child : Holders], lease'.child = lease.child,
         \/ driver' = driver /\ (lease'.run = Nobody \/ status # "RUNNING")
         \/ /\ driver' = [driver EXCEPT ![reset.by] = [pc |-> "body", mine |-> journal]]
            /\ lease'.run = reset.by
  PROVE  IInv'
<1> DEFINE x == [pc |-> "body", mine |-> journal]
<1>1. /\ reset' \in [by : Workers \cup {Nobody}, pc : Stages, stopped : BOOLEAN, claimed : BOOLEAN,
                     kept : SUBSET Events, dropped : SUBSET Kinds]
      /\ reset'.by = Nobody /\ reset'.pc = "idle" /\ ~reset'.claimed
  BY DEF NoReset, Stages
<1>2. /\ child.status = "RUNNING" => ~reset.claimed
      /\ reset.pc \notin Rewriting /\ (reset.claimed => child.status = "absent")
  BY DEF IInv, Sound, HoldingInv, Claiming, Rewriting
<1>3. MinderInv' /\ HoldingInv' /\ SplitInv'
  BY <1>1 DEF IInv, Sound, MinderInv, HoldingInv, SplitInv
<1>4. WorldInv'
  BY <1>1, <1>2 DEF IInv, Sound, WorldInv, Has, Rewriting
<1>5. CASE driver' = driver /\ (lease'.run = Nobody \/ status # "RUNNING")
  <2>1. Types' /\ LeaseInv'
    BY <1>1, <1>2, <1>5 DEF IInv, Types, LeaseInv, Busy
  <2>2. DriverInv'
    BY <1>1, <1>5, NobodyDrives DEF DriverInv, Busy
  <2> QED BY <1>3, <1>4, <2>1, <2>2 DEF IInv, Sound
<1>6. CASE driver' = [driver EXCEPT ![reset.by] = x] /\ lease'.run = reset.by
  <2>1. x \in [pc : Places, mine : SUBSET Events] /\ x.pc = "body" /\ x.mine = journal
    BY DEF Places, IInv, Types
  <2> HIDE DEF x
  <2>2. reset.by \in Workers /\ \A w \in Workers : driver[w].pc = "down"
    BY NobodyDrives
  <2>3. /\ driver' \in [Workers -> [pc : Places, mine : SUBSET Events]] /\ driver'[reset.by] = x
        /\ \A v \in Workers : v # reset.by => driver'[v] = driver[v]
    BY <1>6, <2>1, <2>2 DEF IInv, Types
  <2>4. Types' /\ LeaseInv'
    BY <1>1, <1>2, <1>6, <2>1, <2>3 DEF IInv, Types, LeaseInv, Busy
  <2>5. DriverInv'
    <3>1. \A w \in Workers : Busy(w)' => w = reset.by
      BY <2>2, <2>3 DEF Busy
    <3> QED BY <1>1, <1>6, <2>1, <2>2, <2>3, <3>1 DEF DriverInv
  <2> QED BY <1>3, <1>4, <2>4, <2>5 DEF IInv, Sound
<1> QED BY <1>5, <1>6

\* The run is driven on, or left for others.
LEMMA ResumeStep ==
  ASSUME IInv, ~torn, NEW resume \in BOOLEAN, Resume(resume)
  PROVE  IInv'
<1>1. /\ reset.pc = "resume" /\ reset' = NoReset /\ status = "RUNNING"
      /\ UNCHANGED <<status, journal, signal, child, minder, torn>>
      /\ lease \in [run : Holders, child : Holders]
  BY DEF Resume, Over, run, IInv, Types, Sound, HoldingInv
<1>2. reset.by \in Workers /\ lease.run = reset.by /\ ~Busy(reset.by)
  BY <1>1, NobodyDrives
<1>3. CASE resume
  <2>1. /\ lease' = [lease EXCEPT !.run = reset.by]
        /\ driver' = [driver EXCEPT ![reset.by] = [pc |-> "body", mine |-> journal]]
    BY <1>1, <1>2, <1>3 DEF Resume
  <2>2. lease' \in [run : Holders, child : Holders] /\ lease'.child = lease.child /\ lease'.run = reset.by
    BY <1>1, <1>2, <2>1 DEF Holders
  <2> QED BY <1>1, <2>1, <2>2, Handover
<1>4. CASE ~resume
  <2>1. lease' = [lease EXCEPT !.run = Nobody] /\ driver' = driver
    BY <1>2, <1>4 DEF Resume, Freed
  <2>2. lease' \in [run : Holders, child : Holders] /\ lease'.child = lease.child /\ lease'.run = Nobody
    BY <1>1, <2>1 DEF Holders
  <2> QED BY <1>1, <2>1, <2>2, Handover
<1> QED BY <1>3, <1>4

\* A reset that is refused leaves things as they were.
LEMMA RefuseStep ==
  ASSUME IInv, ~torn, Refuse
  PROVE  IInv'
<1>1. /\ reset.pc = "refuse" /\ reset' = NoReset /\ ~reset.claimed
      /\ UNCHANGED <<status, journal, signal, child, minder, torn>>
      /\ lease \in [run : Holders, child : Holders]
  BY DEF Refuse, Over, run, IInv, Types, Sound, HoldingInv, Claiming, Rewriting
<1>2. reset.by \in Workers /\ lease.run = reset.by /\ ~Busy(reset.by)
  BY <1>1, NobodyDrives
<1>3. /\ HandBack \in [run : Holders, child : Holders] /\ HandBack.child = lease.child
      /\ HandBack.run = IF reset.stopped THEN lease.run ELSE Nobody
  BY <1>1, <1>2 DEF HandBack, Holders
<1>4. CASE reset.stopped /\ status = "RUNNING"
  <2>1. /\ lease' = [HandBack EXCEPT !.run = reset.by]
        /\ driver' = [driver EXCEPT ![reset.by] = [pc |-> "body", mine |-> journal]]
    BY <1>2, <1>4 DEF Refuse
  <2>2. lease' \in [run : Holders, child : Holders] /\ lease'.child = lease.child /\ lease'.run = reset.by
    BY <1>2, <1>3, <2>1 DEF Holders
  <2> QED BY <1>1, <2>1, <2>2, Handover
<1>5. CASE ~(reset.stopped /\ status = "RUNNING")
  <2>1. lease' = HandBack /\ driver' = driver
    BY <1>5 DEF Refuse
  <2> QED BY <1>1, <1>3, <1>5, <2>1, Handover
<1> QED BY <1>4, <1>5

\* Every step of a reset.
LEMMA RewindStep ==
  ASSUME IInv, ~torn, Rewind
  PROVE  IInv'
<1>1. Default(journal) \in 0..2
  BY DEF Default
<1>2. ASSUME NEW to \in {Default(journal), 0, 1, 2}, NEW force \in BOOLEAN, Load(to, force) PROVE IInv'
  BY <1>1, <1>2, LoadStep
<1> QED
  BY <1>2, AcquireStep, StopChildStep, ClaimStep, ReplaceEventsStep, AppendMarkerStep, ReturnSignalsStep,
     ReopenStep, DeleteChildStep, RefuseStep, ResumeStep DEF Rewind

-----------------------------------------------------------------------------
(* Faults *)

\* A worker takes its driver and its reset with it; its leases are a ghost's.
LEMMA CrashStep ==
  ASSUME IInv, ~torn, NEW w \in Workers, Crash(w)
  PROVE  IInv'
<1>1. /\ driver' = [driver EXCEPT ![w] = Down]
      /\ minder' = (IF minder = w THEN Nobody ELSE minder)
      /\ lease' = [what \in DOMAIN lease |-> IF lease[what] = w THEN Ghost ELSE lease[what]]
      /\ reset' = (IF reset.by = w THEN NoReset ELSE reset)
      /\ torn' = (reset.by = w /\ reset.pc \in Rewriting)
      /\ UNCHANGED <<status, journal, signal, child>>
  BY DEF Crash, run
<1>2. /\ lease \in [run : Holders, child : Holders]
      /\ driver \in [Workers -> [pc : Places, mine : SUBSET Events]]
  BY DEF IInv, Types
<1>3. /\ lease' \in [run : Holders, child : Holders]
      /\ lease'.run = (IF lease.run = w THEN Ghost ELSE lease.run)
      /\ lease'.child = (IF lease.child = w THEN Ghost ELSE lease.child)
  BY <1>1, <1>2 DEF Holders
<1>4. Down \in [pc : Places, mine : SUBSET Events] /\ Down.pc = "down"
  BY DEF Down, Places
<1>5. /\ driver' \in [Workers -> [pc : Places, mine : SUBSET Events]] /\ ~Busy(w)'
      /\ \A v \in Workers : v # w => driver'[v] = driver[v]
  BY <1>1, <1>2, <1>4 DEF Busy
<1>6. /\ reset' \in [by : Workers \cup {Nobody}, pc : Stages, stopped : BOOLEAN, claimed : BOOLEAN,
                     kept : SUBSET Events, dropped : SUBSET Kinds]
      /\ reset.by = w => reset' = NoReset /\ reset'.by = Nobody /\ reset'.pc = "idle" /\ ~reset'.claimed
      /\ reset.by # w => reset' = reset
  BY <1>1 DEF NoReset, Stages, IInv, Types
<1>7. Types'
  BY <1>1, <1>3, <1>5, <1>6 DEF IInv, Types
<1>8. LeaseInv'
  BY <1>1, <1>3, <1>5, <1>6 DEF IInv, LeaseInv, Busy
<1>9. ASSUME ~torn' PROVE Sound'
  <2>1. DriverInv'
    BY <1>1, <1>3, <1>5, <1>6 DEF IInv, Sound, DriverInv, Busy
  <2>2. MinderInv'
    BY <1>1, <1>3 DEF IInv, Types, Sound, MinderInv
  <2>3. HoldingInv'
    BY <1>1, <1>3, <1>6 DEF IInv, Sound, HoldingInv
  <2>4. SplitInv'
    BY <1>1, <1>6 DEF IInv, Sound, SplitInv
  <2>5. WorldInv'
    BY <1>1, <1>6, <1>9 DEF IInv, Sound, WorldInv, Has, Rewriting
  <2> QED BY <1>1, <2>1, <2>2, <2>3, <2>4, <2>5 DEF IInv, Sound
<1> QED BY <1>7, <1>8, <1>9 DEF IInv

\* What a ghost holds is free in the end.
LEMMA ExpireStep ==
  ASSUME IInv, ~torn, NEW what \in {"run", "child"}, Expire(what)
  PROVE  IInv'
<1>1. /\ lease[what] = Ghost /\ lease' = [lease EXCEPT ![what] = Nobody]
      /\ UNCHANGED <<status, journal, signal, child, driver, minder, reset, torn>>
  BY DEF Expire, run
<1>2. /\ lease' \in [run : Holders, child : Holders]
      /\ lease'.run = lease.run \/ (lease.run = Ghost /\ lease'.run = Nobody)
      /\ lease'.child = lease.child \/ (lease.child = Ghost /\ lease'.child = Nobody)
  BY <1>1 DEF Holders, IInv, Types
<1>3. Types' /\ LeaseInv'
  BY <1>1, <1>2 DEF IInv, Types, LeaseInv, Busy
<1>4. DriverInv' /\ MinderInv' /\ HoldingInv' /\ SplitInv'
  BY <1>1, <1>2 DEF IInv, Types, Sound, DriverInv, MinderInv, HoldingInv, SplitInv, Busy
<1>5. WorldInv'
  BY <1>1 DEF IInv, Sound, WorldInv, Has
<1> QED BY <1>1, <1>3, <1>4, <1>5 DEF IInv, Sound

\* A reset that loses a lease is torn.
LEMMA LapseStep ==
  ASSUME IInv, ~torn, NEW what \in {"run", "child"}, Lapse(what)
  PROVE  IInv'
<1>1. /\ torn' = TRUE /\ lease' = [lease EXCEPT ![what] = Nobody]
      /\ UNCHANGED <<status, journal, signal, child, driver, minder, reset>>
  BY DEF Lapse, run
<1>2. /\ lease' \in [run : Holders, child : Holders]
      /\ lease'.run \in {lease.run, Nobody} /\ lease'.child \in {lease.child, Nobody}
  BY <1>1 DEF Holders, IInv, Types
<1>3. Types' /\ LeaseInv'
  BY <1>1, <1>2 DEF IInv, Types, LeaseInv, Busy
<1> QED BY <1>1, <1>3 DEF IInv


-----------------------------------------------------------------------------
(* The theorems *)

\* A run that has just been started is sound.
LEMMA InitStep == Init => IInv
<1> SUFFICES ASSUME Init PROVE IInv
  OBVIOUS
<1> DEFINE e == Event(0, "RUN_STARTED", 0)
<1>1. /\ status = "RUNNING" /\ journal = {e} /\ signal = "none"
      /\ child = [status |-> "absent", gen |-> 0] /\ lease = [run |-> Nobody, child |-> Nobody]
      /\ driver = [w \in Workers |-> Down] /\ minder = Nobody /\ reset = NoReset /\ torn = FALSE
  BY DEF Init
<1>2. e \in Events /\ e.seq = 0 /\ e.kind = "RUN_STARTED"
  BY DEF Event, Events, Kinds
<1> HIDE DEF e
<1>3. IsFiniteSet(journal) /\ Cardinality(journal) = 1
  BY <1>1, FS_Singleton
<1>4. Dense(journal)
  <2>1. {f.seq : f \in journal} = {0}
    BY <1>1, <1>2
  <2>2. 0..(1 - 1) = {0}
    OBVIOUS
  <2> QED BY <1>3, <2>1, <2>2 DEF Dense
<1>5. Ordered(journal)
  BY <1>1, <1>2 DEF Ordered, Has
<1>6. /\ driver \in [Workers -> [pc : Places, mine : SUBSET Events]]
      /\ \A w \in Workers : ~Busy(w)
  <2>1. Down \in [pc : Places, mine : SUBSET Events] /\ Down.pc = "down"
    BY DEF Down, Places
  <2> QED BY <1>1, <2>1 DEF Busy
<1>7. /\ reset \in [by : Workers \cup {Nobody}, pc : Stages, stopped : BOOLEAN, claimed : BOOLEAN,
                    kept : SUBSET Events, dropped : SUBSET Kinds]
      /\ reset.pc = "idle" /\ ~reset.claimed
  BY <1>1 DEF NoReset, Stages
<1>8. Types /\ LeaseInv
  BY <1>1, <1>2, <1>3, <1>6, <1>7 DEF Types, Holders, LeaseInv
<1>9. DriverInv /\ MinderInv /\ HoldingInv /\ SplitInv
  BY <1>1, <1>6, <1>7 DEF DriverInv, MinderInv, HoldingInv, SplitInv
<1>10. WorldInv
  BY <1>1, <1>2, <1>7 DEF WorldInv, Rewriting
<1> QED BY <1>4, <1>5, <1>8, <1>9, <1>10 DEF IInv, Sound

\* Nothing a driver of a run that is whole does harms it.
LEMMA DriveStep ==
  ASSUME IInv, ~torn, NEW w \in Workers, Drive(w)
  PROVE  IInv'
BY BodyStep, StartChildStep, MarkConsumedStep, UpdateStep, ReleaseStep DEF Drive

\* Nor does anything else.
LEMMA NextStep == IInv /\ [WholeNext]_vars => IInv'
<1> SUFFICES ASSUME IInv, [WholeNext]_vars PROVE IInv'
  OBVIOUS
<1>1. CASE ~torn /\ Next
  <2>1. ASSUME NEW w \in Workers, Ensure(w) \/ EnsureChild(w) \/ Drive(w) \/ Ask(w) \/ Crash(w) PROVE IInv'
    BY <1>1, <2>1, EnsureStep, EnsureChildStep, DriveStep, AskStep, CrashStep
  <2>2. CASE ChildEnds \/ SendSignal \/ Rewind
    BY <1>1, <2>2, ChildEndsStep, SendSignalStep, RewindStep
  <2>3. ASSUME NEW what \in {"run", "child"}, Expire(what) \/ Lapse(what) PROVE IInv'
    BY <1>1, <2>3, ExpireStep, LapseStep
  <2> QED BY <1>1, <2>1, <2>2, <2>3 DEF Next
<1>2. CASE UNCHANGED vars
  <2>1. UNCHANGED <<status, journal, signal, child, lease, driver, minder, reset, torn>>
    BY <1>2 DEF vars, run
  <2>2. Types' /\ LeaseInv'
    BY <2>1 DEF IInv, Types, LeaseInv, Busy
  <2>3. ASSUME ~torn PROVE DriverInv' /\ MinderInv' /\ HoldingInv' /\ SplitInv' /\ WorldInv'
    BY <2>1, <2>3 DEF IInv, Sound, DriverInv, MinderInv, HoldingInv, SplitInv, WorldInv, Busy, Has
  <2> QED BY <2>1, <2>2, <2>3 DEF IInv, Sound
<1> QED BY <1>1, <1>2 DEF WholeNext

\* The inductive invariant holds of every reachable state.
THEOREM ResetInvariant == Spec => []IInv
BY InitStep, NextStep, PTL DEF Spec

\* For any number of workers, resets and faults: as long as no reset was torn,
\* the journal of a run is that of one execution, without gaps, whatever was
\* dropped from it and numbered again.
THEOREM ResetJournalOfOneRun == Spec => []JournalOfOneRun
<1>1. IInv => JournalOfOneRun
  BY DEF IInv, Sound, Dense, Ordered, JournalOfOneRun
<1> QED BY <1>1, ResetInvariant, PTL

\* And between resets, what it says of the signal and the child is so.
THEOREM ResetAccountsAgree == Spec => []AccountsAgree
<1>1. IInv => AccountsAgree
  BY DEF IInv, Sound, WorldInv, AccountsAgree, Rewriting
<1> QED BY <1>1, ResetInvariant, PTL

\* A lease of a run or a child that is to be driven is held by nobody alive but
\* who drives or resets it, torn or not.
THEOREM ResetNoLeaseLeftBehind == Spec => []NoLeaseLeftBehind
<1>1. IInv => NoLeaseLeftBehind
  BY DEF IInv, LeaseInv, NoLeaseLeftBehind
<1> QED BY <1>1, ResetInvariant, PTL

=============================================================================
