-------------------------- MODULE OwnershipProofs --------------------------
(***************************************************************************)
(* What the lease and the primary key of the journal guarantee for every   *)
(* number of workers, every body and every bound.                          *)
(***************************************************************************)
EXTENDS Ownership, SequenceTheorems, TLAPS

USE BodyAssumption, OwnershipAssumption DEF BodyAssumption, OwnershipAssumption, Steps

\* A driver that unwinds knows what for, and closes the journal with it.
HowInv ==
  \A w \in Workers :
    /\ pc[w] \in {"undo", "undoing"} => how[w] \in {"failed", "cancelled"}
    /\ pc[w] = "mark" => how[w] # "none"

\* As long as no lease has lapsed, who holds it in memory holds it in the
\* store, and it has not run out.
LeaseInv ==
  lapses = 0 =>
    \A w \in Workers : pc[w] \in Holding => owner = w /\ ~expired

Types == TypeOK /\ HowInv

-----------------------------------------------------------------------------
(* The journal and its copies *)

\* s is the beginning of t.
Begins(s, t) == Len(s) <= Len(t) /\ \A i \in 1..Len(s) : s[i] = t[i]

\* A copy that begins a journal begins every extension of it.
LEMMA ExtensionKeepsBeginning ==
  ASSUME NEW s \in Seq(Events), NEW t \in Seq(Events), NEW e \in Events, Begins(s, t)
  PROVE  Begins(s, Append(t, e))
<1>1. Len(Append(t, e)) = Len(t) + 1 /\ \A i \in 1..Len(t) : Append(t, e)[i] = t[i]
  BY AppendProperties
<1>2. Len(s) \in Nat /\ Len(t) \in Nat
  BY LenProperties
<1> QED BY <1>1, <1>2 DEF Begins

\* Two sequences of one length, one of which begins the other, still do when
\* both grow by the same event.
LEMMA BothGrow ==
  ASSUME NEW s \in Seq(Events), NEW t \in Seq(Events), NEW e \in Events,
         Begins(s, t), Len(s) = Len(t)
  PROVE  Begins(Append(s, e), Append(t, e))
<1>1. Len(Append(t, e)) = Len(t) + 1 /\ \A i \in 1..Len(t) : Append(t, e)[i] = t[i]
  BY AppendProperties
<1>2. Len(Append(s, e)) = Len(s) + 1 /\ \A i \in 1..Len(s) : Append(s, e)[i] = s[i]
  BY AppendProperties
<1>3. Append(s, e)[Len(s) + 1] = e /\ Append(t, e)[Len(t) + 1] = e
  BY AppendProperties
<1>4. Len(s) \in Nat /\ Len(t) \in Nat
  BY LenProperties
<1> QED BY <1>1, <1>2, <1>3, <1>4 DEF Begins

CopiesBegin == \A w \in Workers : Begins(copy[w], log)

\* An append by a driver whose copy is up to date.
LEMMA WriteKeepsCopies ==
  ASSUME TypeOK, CopiesBegin, NEW w \in Workers, NEW e \in Events, Write(w, e)
  PROVE  /\ log' \in Seq(Events)
         /\ copy' \in [Workers -> Seq(Events)]
         /\ CopiesBegin'
<1>1. log \in Seq(Events) /\ copy \in [Workers -> Seq(Events)]
  BY DEF TypeOK
<1>2. log' = Append(log, e) /\ copy' = [copy EXCEPT ![w] = Append(@, e)] /\ Len(copy[w]) = Len(log)
  BY DEF Write, Refused
<1>3. log' \in Seq(Events) /\ copy' \in [Workers -> Seq(Events)]
  BY <1>1, <1>2, AppendProperties
<1>4. ASSUME NEW v \in Workers PROVE Begins(copy'[v], log')
  <2>1. CASE v = w
    BY <1>1, <1>2, <2>1, BothGrow DEF CopiesBegin
  <2>2. CASE v # w
    BY <1>1, <1>2, <2>2, ExtensionKeepsBeginning DEF CopiesBegin
  <2> QED BY <2>1, <2>2
<1> QED BY <1>3, <1>4 DEF CopiesBegin

\* Nothing is appended and no copy is loaded: the copies stay prefixes.
LEMMA SameJournal ==
  ASSUME CopiesBegin, UNCHANGED <<log, copy>>
  PROVE  CopiesBegin'
BY DEF CopiesBegin, Begins

\* The events a driver composes from a kind and a step are events of the body.
LEMMA KnownEvents ==
  /\ \A k \in {"sched", "done", "fail", "undone"}, i \in Steps : <<k, i>> \in Events
  /\ \A k \in {"start", "completed", "failed", "cancelled"} : Closing(k) \in Events
BY DEF Events, Closing

Journal == /\ log \in Seq(Events)
           /\ copy \in [Workers -> Seq(Events)]
           /\ CopiesBegin

\* An append, accepted or refused, keeps the copies in agreement.
LEMMA WritesKeepJournal ==
  ASSUME TypeOK, CopiesBegin, NEW w \in Workers, NEW e \in Events,
         Write(w, e) \/ UNCHANGED <<log, copy>>
  PROVE  Journal'
<1>1. CASE Write(w, e)
  BY <1>1, WriteKeepsCopies DEF Journal
<1>2. CASE UNCHANGED <<log, copy>>
  BY <1>2, SameJournal DEF Journal, TypeOK
<1> QED BY <1>1, <1>2

\* A worker that drops its copy, or takes the whole journal for it.
LEMMA CopyIsReplaced ==
  ASSUME TypeOK, CopiesBegin, NEW w \in Workers, NEW c \in {<<>>, log},
         log' = log, copy' = [copy EXCEPT ![w] = c]
  PROVE  Journal'
<1>1. log \in Seq(Events) /\ copy \in [Workers -> Seq(Events)]
  BY DEF TypeOK
<1>2. <<>> \in Seq(Events) /\ Len(<<>>) = 0 /\ Len(log) \in Nat
  BY <1>1, EmptySeq, LenProperties
<1>3. c \in Seq(Events) /\ Begins(c, log)
  <2>1. Begins(<<>>, log) /\ Begins(log, log)
    BY <1>2 DEF Begins
  <2> QED BY <1>1, <1>2, <2>1
<1>4. ASSUME NEW v \in Workers PROVE Begins(copy'[v], log')
  BY <1>1, <1>3 DEF CopiesBegin
<1> QED BY <1>1, <1>3, <1>4 DEF Journal, CopiesBegin

-----------------------------------------------------------------------------
(* Steps of one worker *)

Inv == Types /\ CopiesBegin /\ LeaseInv

\* What each step of a driver appends is an event of the body.
LEMMA DriverJournal ==
  ASSUME Inv, NEW w \in Workers, Drive(w) \/ Ensure(w) \/ Heartbeat(w) \/ Crash(w)
  PROVE  Journal'
<1> USE KnownEvents DEF Inv, Types
<1>1. CASE Read(w) \/ Acquire(w) \/ ObserveCancel(w) \/ Attempt(w) \/ Raises(w)
           \/ Undo(w) \/ MarkStatus(w) \/ Heartbeat(w)
  <2>1. UNCHANGED <<log, copy>>
    BY <1>1 DEF Read, Acquire, ObserveCancel, Attempt, Raises, Undo, MarkStatus,
         Heartbeat, Renew, Lose, HeartbeatError, Notified, store, memory
  <2> QED BY <2>1, SameJournal DEF Journal, TypeOK
<1>2. CASE Load(w)
  BY <1>2, CopyIsReplaced DEF Load, store
<1>3. CASE Leave(w) \/ Crash(w)
  BY <1>3, CopyIsReplaced DEF Leave, Crash, Forget, store
<1>4. CASE Begin(w)
  <2>1. Write(w, Closing("start")) \/ UNCHANGED <<log, copy>>
    BY <1>4 DEF Begin, DriverWrites
  <2> QED BY <2>1, WritesKeepJournal
<1>5. CASE Schedule(w)
  <2>1. PICK i \in Steps : BodyWrites(w, <<"sched", i>>)
    BY <1>5 DEF Schedule
  <2> QED BY <2>1, WritesKeepJournal DEF BodyWrites
<1>6. CASE StepReturns(w)
  <2>1. PICK i \in Steps : BodyWrites(w, <<"done", i>>)
    BY <1>6 DEF StepReturns
  <2> QED BY <2>1, WritesKeepJournal DEF BodyWrites
<1>7. CASE StepFails(w)
  <2>1. PICK i \in Fallible : BodyWrites(w, <<"fail", i>>)
    BY <1>7 DEF StepFails
  <2>2. i \in Steps
    BY <2>1
  <2> QED BY <2>1, <2>2, WritesKeepJournal DEF BodyWrites
<1>8. CASE Complete(w)
  <2>1. Write(w, Closing("completed")) \/ UNCHANGED <<log, copy>>
    BY <1>8 DEF Complete, DriverWrites
  <2> QED BY <2>1, WritesKeepJournal
<1>9. CASE UndoReturns(w)
  <2>1. PICK i \in Steps : DriverWrites(w, <<"undone", i>>, "undo")
    BY <1>9 DEF UndoReturns
  <2> QED BY <2>1, WritesKeepJournal DEF DriverWrites
<1>10. CASE Close(w)
  <2>1. Write(w, Closing(how[w])) \/ UNCHANGED <<log, copy>>
    BY <1>10 DEF Close, DriverWrites
  <2>2. how[w] \in {"failed", "cancelled"}
    BY <1>10 DEF Close, HowInv
  <2> QED BY <2>1, <2>2, WritesKeepJournal
<1> QED BY <1>1, <1>2, <1>3, <1>4, <1>5, <1>6, <1>7, <1>8, <1>9, <1>10
        DEF Drive, Ensure

\* A driver step moves one worker from a place that holds the lease to
\* another one, and leaves the lease alone.
Moves(w) ==
  /\ pc[w] \in Driving
  /\ \E p \in Driving \cup {"leaving"}, h \in {"none", "completed", "failed", "cancelled"} :
       /\ pc' = [pc EXCEPT ![w] = p] /\ how' = [how EXCEPT ![w] = h]
       /\ p \in {"undo", "undoing"} => h \in {"failed", "cancelled"}
       /\ p = "mark" => h # "none"
  /\ UNCHANGED <<cancelReq, lease, snap, flag, beat, bounds>>

\* Every step of a driver except giving up the lease is such a move.
LEMMA DriverMoves ==
  ASSUME Inv, NEW w \in Workers, Drive(w), ~Leave(w)
  PROVE  Moves(w)
<1> USE DEF Inv, Types, TypeOK, HowInv, Driving, store, memory, Goto, Unwind
<1>0. how = [how EXCEPT ![w] = how[w]] /\ pc[w] \in Places
  OBVIOUS
<1>1. CASE Begin(w)
  BY <1>0, <1>1 DEF Begin, DriverWrites, Moves
<1>2. CASE ObserveCancel(w) \/ Raises(w)
  BY <1>0, <1>2 DEF ObserveCancel, Raises, At, Moves
<1>3. CASE Schedule(w)
  <2>1. PICK i \in Steps : At(w, i) /\ BodyWrites(w, <<"sched", i>>)
    BY <1>3 DEF Schedule
  <2> QED BY <1>0, <1>3, <2>1 DEF Schedule, At, BodyWrites, Moves
<1>4. CASE Attempt(w)
  BY <1>0, <1>4 DEF Attempt, At, Moves
<1>5. CASE StepReturns(w)
  <2>1. PICK i \in Steps : BodyWrites(w, <<"done", i>>)
    BY <1>5 DEF StepReturns
  <2> QED BY <1>0, <1>5, <2>1 DEF StepReturns, BodyWrites, Moves
<1>6. CASE StepFails(w)
  <2>1. PICK i \in Fallible : BodyWrites(w, <<"fail", i>>)
    BY <1>6 DEF StepFails
  <2> QED BY <1>0, <1>6, <2>1 DEF StepFails, BodyWrites, Moves
<1>7. CASE Complete(w)
  BY <1>0, <1>7 DEF Complete, DriverWrites, Moves
<1>8. CASE Undo(w)
  BY <1>0, <1>8 DEF Undo, Moves
<1>9. CASE UndoReturns(w)
  <2>1. PICK i \in Steps : DriverWrites(w, <<"undone", i>>, "undo")
    BY <1>9 DEF UndoReturns
  <2> QED BY <1>0, <1>9, <2>1 DEF UndoReturns, DriverWrites, Moves
<1>10. CASE Close(w)
  BY <1>0, <1>10 DEF Close, DriverWrites, Moves
<1>11. CASE MarkStatus(w)
  BY <1>0, <1>11 DEF MarkStatus, Moves
<1> QED BY <1>1, <1>2, <1>3, <1>4, <1>5, <1>6, <1>7, <1>8, <1>9, <1>10, <1>11 DEF Drive

\* A driver writes one of the four statuses and compensates steps of the body.
LEMMA DriverStatus ==
  ASSUME Inv, NEW w \in Workers, Drive(w)
  PROVE  status' \in Statuses /\ undone' \subseteq Steps
<1> USE DEF Inv, Types, TypeOK, store
<1>1. CASE MarkStatus(w)
  BY <1>1 DEF MarkStatus, HowInv, Statuses
<1>2. CASE Undo(w)
  BY <1>2 DEF Undo
<1>3. CASE ~MarkStatus(w) /\ ~Undo(w)
  BY <1>3 DEF Drive, Begin, ObserveCancel, Schedule, Attempt, StepReturns, StepFails, Raises,
     Complete, UndoReturns, Close, Leave
<1> QED BY <1>1, <1>2, <1>3

\* The steps of _drive, up to giving up the lease, keep the invariant.
LEMMA DriveKeepsInv ==
  ASSUME Inv, NEW w \in Workers, Drive(w), ~Leave(w)
  PROVE  Inv'
<1>1. Moves(w) /\ Journal' /\ status' \in Statuses /\ undone' \subseteq Steps
  BY DriverMoves, DriverJournal, DriverStatus
<1>2. PICK p \in Driving \cup {"leaving"}, h \in {"none", "completed", "failed", "cancelled"} :
        /\ pc' = [pc EXCEPT ![w] = p] /\ how' = [how EXCEPT ![w] = h]
        /\ p \in {"undo", "undoing"} => h \in {"failed", "cancelled"}
        /\ p = "mark" => h # "none"
  BY <1>1 DEF Moves
<1>4. TypeOK'
  BY <1>1, <1>2 DEF Moves, Inv, Types, TypeOK, Journal, Places, Holding, lease, bounds
<1>5. HowInv'
  BY <1>2 DEF Inv, Types, TypeOK, HowInv
<1>3. LeaseInv'
  BY <1>1 DEF Moves, Inv, Types, TypeOK, LeaseInv, Holding, lease, bounds
<1> QED BY <1>1, <1>3, <1>4, <1>5 DEF Inv, Types, Journal

\* Becoming the driver, giving up the lease, the heartbeat and a crash.
LEMMA EnsureKeepsInv ==
  ASSUME Inv, NEW w \in Workers, Ensure(w)
  PROVE  Inv'
<1> USE DEF Inv, Types, TypeOK, HowInv, LeaseInv, Journal, Goto, store, lease, memory, bounds,
        Places, Holding, Driving
<1>0. Journal'
  BY DriverJournal
<1>1. CASE Read(w)
  BY <1>0, <1>1 DEF Read
<1>2. CASE Acquire(w)
  <2>1. CASE Claimable(w)
    <3>1. owner' = w /\ expired' = FALSE /\ pc' = [pc EXCEPT ![w] = "loading"]
      BY <1>2, <2>1 DEF Acquire, Claimable
    <3>2. UNCHANGED <<store, memory, undone, bounds>>
      BY <1>2 DEF Acquire
    <3>3. LeaseInv'
      BY <3>1, <3>2, <2>1 DEF Claimable
    <3>4. expired' \in BOOLEAN
      BY <3>1
    <3> QED BY <1>0, <3>1, <3>2, <3>3, <3>4
  <2>2. CASE ~Claimable(w)
    <3>1. UNCHANGED lease /\ pc' = [pc EXCEPT ![w] = "down"]
      BY <1>2, <2>2 DEF Acquire, Claimable
    <3>2. UNCHANGED <<store, memory, undone, bounds>>
      BY <1>2 DEF Acquire
    <3> QED BY <1>0, <3>1, <3>2
  <2> QED BY <2>1, <2>2
<1>3. CASE Load(w)
  BY <1>0, <1>3 DEF Load
<1> QED BY <1>1, <1>2, <1>3 DEF Ensure

\* release_lease at the end of _drive, or the death of the worker.
LEMMA LeaveOrCrashKeepsInv ==
  ASSUME Inv, NEW w \in Workers, Leave(w) \/ Crash(w)
  PROVE  Inv'
<1> USE DEF Inv, Types, TypeOK, HowInv, LeaseInv, Journal, Goto, Forget, store, lease, bounds,
        Places, Holding, Driving
<1>0. Journal'
  BY DriverJournal DEF Drive
<1>1. CASE Leave(w)
  <2>1. CASE owner = w
    <3>1. owner' = Nobody /\ expired' = FALSE
      BY <1>1, <2>1 DEF Leave
    <3>2. LeaseInv'
      BY <1>1, <2>1, <3>1 DEF Leave
    <3>3. expired' \in BOOLEAN
      BY <3>1
    <3> QED BY <1>0, <1>1, <3>1, <3>2, <3>3 DEF Leave
  <2>2. CASE owner # w
    BY <1>0, <1>1, <2>2 DEF Leave
  <2> QED BY <2>1, <2>2
<1>2. CASE Crash(w)
  BY <1>0, <1>2 DEF Crash
<1> QED BY <1>1, <1>2

\* Renewing the lease, finding it lost, dying of a store error, being notified.
LEMMA HeartbeatKeepsInv ==
  ASSUME Inv, NEW w \in Workers, Heartbeat(w)
  PROVE  Inv'
<1> USE DEF Inv, Types, TypeOK, HowInv, LeaseInv, Journal, Goto, Unwind, store, lease, bounds,
        Places, Holding, Driving
<1>0. Journal'
  BY DriverJournal
<1>1. CASE Renew(w)
  <2>1. expired' = FALSE /\ flag' \in [Workers -> BOOLEAN]
    BY <1>1 DEF Renew
  <2>2. UNCHANGED <<store, owner, pc, snap, copy, how, beat, undone, bounds>>
    BY <1>1 DEF Renew
  <2>3. expired' \in BOOLEAN
    BY <2>1
  <2> QED BY <1>0, <2>1, <2>2, <2>3
<1>2. CASE Lose(w)
  BY <1>0, <1>2 DEF Lose
<1>3. CASE HeartbeatError(w)
  BY <1>0, <1>3 DEF HeartbeatError
<1>4. CASE Notified(w)
  BY <1>0, <1>4 DEF Notified
<1> QED BY <1>1, <1>2, <1>3, <1>4 DEF Heartbeat

\* A cancel request and the passing of the lease's time keep the invariant.
LEMMA EnvironmentKeepsInv ==
  ASSUME Inv, Cancel \/ Expire \/ Lapse \/ UNCHANGED vars
  PROVE  Inv'
<1>1. UNCHANGED <<log, status, pc, snap, copy, flag, how, beat, undone, owner>>
  BY DEF Cancel, Expire, Lapse, vars, store, lease, memory, bounds
<1>2. CopiesBegin'
  BY <1>1, SameJournal DEF Inv
<1>3. CASE Cancel
  <2>1. cancelReq' \in BOOLEAN /\ UNCHANGED <<expired, bounds>>
    BY <1>3 DEF Cancel, lease
  <2> QED BY <1>1, <1>2, <2>1 DEF Inv, Types, TypeOK, HowInv, LeaseInv, bounds
<1>4. CASE Expire
  <2>1. expired' \in BOOLEAN /\ UNCHANGED <<cancelReq, bounds>>
    BY <1>4 DEF Expire, store
  <2>2. LeaseInv'
    BY <1>1, <1>4, <2>1 DEF Expire, Inv, LeaseInv, bounds
  <2> QED BY <1>1, <1>2, <2>1, <2>2 DEF Inv, Types, TypeOK, HowInv, bounds
<1>5. CASE Lapse
  <2>1. expired' \in BOOLEAN /\ UNCHANGED <<cancelReq, heartbeatErrors, crashes>>
    BY <1>5 DEF Lapse, store
  <2>2. lapses' = lapses + 1 /\ lapses \in Nat
    BY <1>5 DEF Lapse, Inv, Types, TypeOK
  <2>3. LeaseInv'
    BY <2>2 DEF LeaseInv
  <2> QED BY <1>1, <1>2, <2>1, <2>2, <2>3 DEF Inv, Types, TypeOK, HowInv
<1>6. CASE UNCHANGED vars
  BY <1>1, <1>2, <1>6 DEF vars, store, lease, memory, bounds, Inv, Types, TypeOK, HowInv, LeaseInv
<1> QED BY <1>3, <1>4, <1>5, <1>6

\* Inv is inductive.
THEOREM OwnershipInvariant == Spec => []Inv
<1>1. Init => Inv
  <2> SUFFICES ASSUME Init PROVE Inv
    OBVIOUS
  <2>1. <<>> \in Seq(Events) /\ Len(<<>>) = 0
    BY EmptySeq
  <2>2. cancelReq \in BOOLEAN /\ expired \in BOOLEAN /\ status \in Statuses
    BY DEF Init, Statuses
  <2>3. TypeOK
    BY <2>1, <2>2 DEF Init, TypeOK, Places
  <2>4. HowInv /\ LeaseInv
    BY DEF Init, HowInv, LeaseInv, Holding, Driving
  <2>5. CopiesBegin
    BY <2>1 DEF Init, CopiesBegin, Begins
  <2> QED BY <2>3, <2>4, <2>5 DEF Inv, Types
<1>2. Inv /\ [Next]_vars => Inv'
  BY DriveKeepsInv, EnsureKeepsInv, LeaveOrCrashKeepsInv, HeartbeatKeepsInv, EnvironmentKeepsInv DEF Next
<1> QED BY <1>1, <1>2, PTL DEF Spec

-----------------------------------------------------------------------------
(* What follows from it *)

\* Only events of the body reach the journal, and every variable stays in its
\* domain.
THEOREM OwnershipTypes == Spec => []TypeOK
BY OwnershipInvariant, PTL DEF Inv, Types

\* However many drivers there are, they agree on the journal.
THEOREM DriversAgree == Spec => []JournalAgreement
<1>1. Inv => JournalAgreement
  BY DEF Inv, CopiesBegin, Begins, JournalAgreement
<1> QED BY <1>1, OwnershipInvariant, PTL

\* The lease is exclusive as long as it is renewed in time.
THEOREM LeaseIsExclusive == Spec => []SoleDriver
<1>1. Inv => SoleDriver
  BY DEF Inv, LeaseInv, SoleDriver, Holding
<1> QED BY <1>1, OwnershipInvariant, PTL

-----------------------------------------------------------------------------
(***************************************************************************)
(* As long as nobody cancels, the drivers implement RunLog: together they  *)
(* write the journal of one sequential execution.                          *)
(***************************************************************************)

Done(s)      == StepsWith("done", s)
Scheduled(s) == StepsWith("sched", s)
Fails(s)     == StepsWith("fail", s)

\* What holds of the journal of one execution.
Sane(s) ==
  /\ s = <<>> \/ In(Closing("start"), s)
  /\ \E n \in 0..NSteps : Done(s) = 1..n /\ Scheduled(s) \in {1..n, 1..(n + 1)}
  /\ Fails(s) \subseteq Scheduled(s) /\ Fails(s) \cap Done(s) = {}
  /\ In(Closing("completed"), s) => Done(s) = Steps
  /\ In(Closing("failed"), s) => Fails(s) # {}

\* A step has been scheduled and has not ended yet.
AtStep(s) == Fails(s) = {} /\ \E i \in Scheduled(s) : Done(s) = 1..(i - 1)

\* What a driver knows that nobody has cancelled.  One that unwinds without a
\* failure in its copy of the journal has been refused, and will be again.
DriverSane(w) ==
  /\ ~snap[w] /\ ~flag[w] /\ how[w] # "cancelled"
  /\ pc[w] \in {"body", "invoke"} => copy[w] # <<>>
  /\ pc[w] = "invoke" => AtStep(copy[w])
  /\ pc[w] \in {"undo", "undoing"} => Fails(copy[w]) # {} \/ Refused(w)
  /\ pc[w] = "mark" => In(Closing(how[w]), copy[w])

StatusSane ==
  /\ status # "CANCELLED"
  /\ status = "COMPLETED" => In(Closing("completed"), log)
  /\ status = "FAILED" => In(Closing("failed"), log)

Uncancelled == Sane(log) /\ StatusSane /\ \A w \in Workers : DriverSane(w)

ExecInv == cancelReq \/ Uncancelled

-----------------------------------------------------------------------------
(* Journals *)

LEMMA IntervalsDiffer ==
  ASSUME NEW m \in Nat, NEW n \in Nat, 1..m = 1..n
  PROVE  m = n
<1>1. CASE m < n
  <2>1. n \in 1..n /\ n \notin 1..m
    BY <1>1
  <2> QED BY <2>1
<1>2. CASE n < m
  <2>1. m \in 1..m /\ m \notin 1..n
    BY <1>2
  <2> QED BY <2>1
<1> QED BY <1>1, <1>2

LEMMA InAppended ==
  ASSUME NEW s \in Seq(Events), NEW e \in Events, NEW f
  PROVE  In(f, Append(s, e)) <=> In(f, s) \/ f = e
<1>1. /\ Len(Append(s, e)) = Len(s) + 1 /\ Append(s, e)[Len(s) + 1] = e
      /\ \A i \in 1..Len(s) : Append(s, e)[i] = s[i]
  BY AppendProperties
<1>2. Len(s) \in Nat
  BY LenProperties
<1> QED BY <1>1, <1>2 DEF In

LEMMA StepsAppended ==
  ASSUME NEW s \in Seq(Events), NEW e \in Events, NEW k
  PROVE  StepsWith(k, Append(s, e)) = StepsWith(k, s) \cup {i \in Steps : e = <<k, i>>}
<1>1. \A i \in Steps : In(<<k, i>>, Append(s, e)) <=> In(<<k, i>>, s) \/ <<k, i>> = e
  BY InAppended
<1> QED BY <1>1 DEF StepsWith

\* What is found in the beginning of a journal is found in the journal.
LEMMA InBeginning ==
  ASSUME NEW s, NEW t, Len(s) \in Nat, Len(t) \in Nat, Begins(s, t), NEW e, In(e, s)
  PROVE  In(e, t)
BY DEF Begins, In

\* What may come next keeps the journal that of one execution.
LEMMA ContinuingIsSane ==
  ASSUME NEW s \in Seq(Events), NEW e \in Events, Sane(s), Continues(e, s)
  PROVE  Sane(Append(s, e))
<1> DEFINE t == Append(s, e)
<1>1. \A f : In(f, t) <=> In(f, s) \/ f = e
  BY InAppended
<1>2. /\ Done(t) = Done(s) \cup {i \in Steps : e = <<"done", i>>}
      /\ Scheduled(t) = Scheduled(s) \cup {i \in Steps : e = <<"sched", i>>}
      /\ Fails(t) = Fails(s) \cup {i \in Steps : e = <<"fail", i>>}
  BY StepsAppended DEF Done, Scheduled, Fails
<1>3. In(Closing("start"), t)
  <2>1. CASE s = <<>>
    <3>1. \A f : ~In(f, s)
      BY <2>1 DEF In
    <3>2. StepsWith("fail", s) = {}
      BY <3>1 DEF StepsWith
    <3> QED BY <1>1, <2>1, <3>2 DEF Continues
  <2>2. CASE s # <<>>
    BY <1>1, <2>2 DEF Sane
  <2> QED BY <2>1, <2>2
<1>4. ASSUME NEW c \in {"start", "completed", "failed"}, e = Closing(c),
             c = "completed" => Done(s) = Steps, c = "failed" => Fails(s) # {}
      PROVE  Sane(t)
  <2>1. Done(t) = Done(s) /\ Scheduled(t) = Scheduled(s) /\ Fails(t) = Fails(s)
    BY <1>2, <1>4 DEF Closing
  <2>2. In(Closing("completed"), t) => Done(s) = Steps
    BY <1>1, <1>4 DEF Closing, Sane
  <2>3. In(Closing("failed"), t) => Fails(s) # {}
    BY <1>1, <1>4 DEF Closing, Sane
  <2> QED BY <1>3, <2>1, <2>2, <2>3 DEF Sane
<1>5. ASSUME NEW i \in Steps, e = <<"sched", i>>, Scheduled(s) = 1..(i - 1), Done(s) = 1..(i - 1)
      PROVE  Sane(t)
  <2>1. Done(t) = 1..(i - 1) /\ Scheduled(t) = 1..i /\ Fails(t) = Fails(s)
    <3>1. 1..(i - 1) \cup {i} = 1..i
      OBVIOUS
    <3>2. {j \in Steps : e = <<"sched", j>>} = {i} /\ {j \in Steps : e = <<"done", j>>} = {}
          /\ {j \in Steps : e = <<"fail", j>>} = {}
      BY <1>5
    <3> QED BY <1>2, <1>5, <3>1, <3>2
  <2>2. In(Closing("completed"), t) => In(Closing("completed"), s)
    BY <1>1, <1>5 DEF Closing
  <2>3. In(Closing("failed"), t) => In(Closing("failed"), s)
    BY <1>1, <1>5 DEF Closing
  <2>4. i - 1 \in 0..NSteps /\ (i - 1) + 1 = i
    BY <1>5
  <2> QED BY <1>3, <1>5, <2>1, <2>2, <2>3, <2>4 DEF Sane
<1>6. ASSUME NEW i \in Steps, e = <<"done", i>>, Scheduled(s) = 1..i, Done(s) = 1..(i - 1),
             Fails(s) = {}
      PROVE  Sane(t)
  <2>1. Done(t) = 1..i /\ Scheduled(t) = 1..i /\ Fails(t) = {}
    <3>1. 1..(i - 1) \cup {i} = 1..i
      OBVIOUS
    <3>2. {j \in Steps : e = <<"done", j>>} = {i} /\ {j \in Steps : e = <<"sched", j>>} = {}
          /\ {j \in Steps : e = <<"fail", j>>} = {}
      BY <1>6
    <3> QED BY <1>2, <1>6, <3>1, <3>2
  <2>2. ~In(Closing("completed"), t)
    <3>1. i \in Steps /\ i \notin 1..(i - 1)
      OBVIOUS
    <3> QED BY <1>1, <1>6, <3>1 DEF Closing, Sane
  <2>3. ~In(Closing("failed"), t)
    BY <1>1, <1>6 DEF Closing, Sane
  <2>4. i \in 0..NSteps
    BY <1>6
  <2> QED BY <1>3, <2>1, <2>2, <2>3, <2>4 DEF Sane
<1>7. ASSUME NEW i \in Steps, e = <<"fail", i>>, Scheduled(s) = 1..i, Done(s) = 1..(i - 1),
             Fails(s) = {}
      PROVE  Sane(t)
  <2>1. Done(t) = 1..(i - 1) /\ Scheduled(t) = 1..i /\ Fails(t) = {i}
    <3>1. {j \in Steps : e = <<"fail", j>>} = {i} /\ {j \in Steps : e = <<"sched", j>>} = {}
          /\ {j \in Steps : e = <<"done", j>>} = {}
      BY <1>7
    <3> QED BY <1>2, <1>7, <3>1
  <2>2. ~In(Closing("completed"), t)
    <3>1. i \in Steps /\ i \notin 1..(i - 1)
      OBVIOUS
    <3> QED BY <1>1, <1>7, <3>1 DEF Closing, Sane
  <2>3. i - 1 \in 0..NSteps /\ (i - 1) + 1 = i /\ i \in 1..i /\ i \notin 1..(i - 1)
    BY <1>7
  <2> QED BY <1>3, <2>1, <2>2, <2>3 DEF Sane
<1>8. ASSUME NEW i \in Steps, e = <<"undone", i>>
      PROVE  Sane(t)
  <2>1. Done(t) = Done(s) /\ Scheduled(t) = Scheduled(s) /\ Fails(t) = Fails(s)
    BY <1>2, <1>8
  <2>2. In(Closing("completed"), t) => In(Closing("completed"), s)
    BY <1>1, <1>8 DEF Closing
  <2>3. In(Closing("failed"), t) => In(Closing("failed"), s)
    BY <1>1, <1>8 DEF Closing
  <2> QED BY <1>3, <2>1, <2>2, <2>3 DEF Sane
<1> QED BY <1>4, <1>5, <1>6, <1>7, <1>8 DEF Continues, Done, Scheduled, Fails

\* RunLog's notion of a history is that of RunHistory.
LEMMA SameHistory == \A e, s : Log!Continues(e, s) <=> Continues(e, s)
BY DEF Log!Continues, Continues, Log!Closing, Closing, Log!StepsWith, StepsWith, Log!In, In,
       Log!Steps, Log!Latest, Latest, Log!Finished, Finished

LEMMA SameEvents == Log!Events = Events
BY DEF Log!Events, Events, Log!Closing, Closing, Log!Steps

-----------------------------------------------------------------------------
(* Steps *)

\* Only worker w changes, and may append to the journal.
Alone(w) ==
  /\ \A v \in Workers \ {w} :
       /\ pc'[v] = pc[v] /\ copy'[v] = copy[v] /\ how'[v] = how[v]
       /\ snap'[v] = snap[v] /\ flag'[v] = flag[v]
  /\ log' = log \/ Len(log') = Len(log) + 1

LEMMA OthersStaySane ==
  ASSUME Inv, Uncancelled, NEW w \in Workers, Alone(w),
         DriverSane(w)', Sane(log'), StatusSane'
  PROVE  Uncancelled'
<1>1. ASSUME NEW v \in Workers, v # w PROVE DriverSane(v)'
  <2>1. DriverSane(v) /\ Len(copy[v]) <= Len(log) /\ Len(log) \in Nat /\ Len(copy[v]) \in Nat
    <3>1. log \in Seq(Events) /\ copy[v] \in Seq(Events)
      BY DEF Inv, Types, TypeOK
    <3> QED BY <3>1, LenProperties DEF Uncancelled, Inv, CopiesBegin, Begins
  <2>2. pc'[v] = pc[v] /\ copy'[v] = copy[v] /\ how'[v] = how[v] /\ snap'[v] = snap[v] /\ flag'[v] = flag[v]
    BY <1>1 DEF Alone
  <2>3. Refused(v) => Refused(v)'
    BY <2>1, <2>2 DEF Refused, Alone
  <2>4. (pc[v] = "mark" => In(Closing(how[v]), copy[v]))'
    BY <2>1, <2>2 DEF DriverSane, In, Closing
  <2>5. (pc[v] \in {"undo", "undoing"} => Fails(copy[v]) # {} \/ Refused(v))'
    BY <2>1, <2>2, <2>3 DEF DriverSane, Fails, StepsWith, In
  <2>6. (pc[v] = "invoke" => AtStep(copy[v]))'
    BY <2>1, <2>2 DEF DriverSane
  <2> QED BY <2>1, <2>2, <2>4, <2>5, <2>6 DEF DriverSane
<1>2. \A v \in Workers : DriverSane(v)'
  BY <1>1
<1>3. Sane(log)'
  BY DEF Sane, Done, Scheduled, Fails, StepsWith, In, Closing
<1> QED BY <1>2, <1>3 DEF Uncancelled

\* A driver whose append is accepted has the whole journal.
LEMMA AcceptedKnowsAll ==
  ASSUME Inv, NEW w \in Workers, ~Refused(w)
  PROVE  copy[w] = log
<1>1. log \in Seq(Events) /\ copy[w] \in Seq(Events)
  BY DEF Inv, Types, TypeOK
<1>2. Begins(copy[w], log) /\ Len(copy[w]) = Len(log)
  BY DEF Inv, CopiesBegin, Refused
<1> QED BY <1>1, <1>2, SeqEqual DEF Begins

\* A driver appends what may come next, and goes on.
LEMMA AppendIsAStep ==
  ASSUME Inv, Uncancelled, NEW w \in Workers, NEW e \in Events, Write(w, e),
         Continues(e, copy[w]), UNCHANGED <<status, snap, flag>>,
         NEW p \in {"body", "undo", "mark"}, NEW h \in {"none", "completed", "failed"},
         pc' = [pc EXCEPT ![w] = p], how' = [how EXCEPT ![w] = h],
         p = "undo" => Fails(copy[w]) # {},
         p = "mark" => e = Closing(h)
  PROVE  Uncancelled' /\ Log!Next
<1>1. TypeOK /\ Sane(log) /\ StatusSane /\ DriverSane(w)
  BY DEF Inv, Types, Uncancelled
<1>2. /\ copy[w] = log /\ log' = Append(log, e) /\ copy' = [copy EXCEPT ![w] = Append(log, e)]
      /\ Continues(e, log) /\ log \in Seq(Events)
  BY <1>1, AcceptedKnowsAll DEF Write, TypeOK
<1>3. Len(log') = Len(log) + 1 /\ log' # <<>>
  BY <1>2, AppendProperties
<1>4. Alone(w)
  BY <1>1, <1>2, <1>3 DEF Alone, TypeOK
<1>5. Sane(log')
  BY <1>1, <1>2, ContinuingIsSane
<1>6. \A f : In(f, log') <=> In(f, log) \/ f = e
  BY <1>2, InAppended
<1>7. StatusSane'
  <2>1. In(Closing("completed"), log) => In(Closing("completed"), log')
    BY <1>6
  <2>2. In(Closing("failed"), log) => In(Closing("failed"), log')
    BY <1>6
  <2> QED BY <1>1, <2>1, <2>2 DEF StatusSane, In, Closing
<1>8. DriverSane(w)'
  <2>1. copy'[w] = log' /\ pc'[w] = p /\ how'[w] = h /\ snap'[w] = snap[w] /\ flag'[w] = flag[w]
    BY <1>1, <1>2 DEF TypeOK
  <2>2. p = "undo" => Fails(log') # {}
    BY <1>2, StepsAppended DEF Fails
  <2>3. p = "mark" => In(Closing(h), log')
    BY <1>6
  <2> QED BY <1>1, <1>3, <2>1, <2>2, <2>3 DEF DriverSane, Fails, StepsWith, In, Closing
<1>9. Log!Next
  BY <1>2, SameHistory, SameEvents DEF Log!Next, Log!Extend
<1> QED BY <1>4, <1>5, <1>7, <1>8, <1>9, OthersStaySane

\* A driver changes nothing in the store.
LEMMA QuietStep ==
  ASSUME Inv, Uncancelled, UNCHANGED <<log, status>>, NEW w \in Workers, Alone(w), DriverSane(w)'
  PROVE  Uncancelled'
<1>1. Sane(log') /\ StatusSane'
  BY DEF Uncancelled, StatusSane
<1> QED BY <1>1, OthersStaySane

-----------------------------------------------------------------------------
(* The actions, as long as nobody cancels *)

\* What a step of one worker has to keep.
Kept == Uncancelled' /\ (Log!Next \/ UNCHANGED <<log, status>>)

\* Where the journal of one execution stands when its step i is next.
LEMMA NextStep ==
  ASSUME NEW s, Sane(s), NEW i \in Steps, Done(s) = 1..(i - 1)
  PROVE  /\ Scheduled(s) \in {1..(i - 1), 1..i}
         /\ i \notin Scheduled(s) => Scheduled(s) = 1..(i - 1) /\ Fails(s) = {}
         /\ i \in Scheduled(s) => Scheduled(s) = 1..i
<1>1. PICK n \in 0..NSteps : Done(s) = 1..n /\ Scheduled(s) \in {1..n, 1..(n + 1)}
  BY DEF Sane
<1>2. n = i - 1
  BY <1>1, IntervalsDiffer
<1>3. Scheduled(s) \in {1..(i - 1), 1..i} /\ i \in 1..i /\ i \notin 1..(i - 1)
  BY <1>1, <1>2
<1> QED BY <1>3 DEF Sane

LEMMA BeginKeeps ==
  ASSUME Inv, Uncancelled, NEW w \in Workers, Begin(w)
  PROVE  Kept
<1>1. TypeOK /\ DriverSane(w) /\ Sane(log) /\ how[w] \in {"none", "completed", "failed"}
      /\ copy[w] \in Seq(Events)
  BY DEF Inv, Types, TypeOK, Uncancelled, DriverSane
<1>2. UNCHANGED <<status, cancelReq, snap, flag, how>> /\ how = [how EXCEPT ![w] = how[w]]
  BY <1>1 DEF Begin, TypeOK
<1>3. CASE In(Closing("start"), copy[w]) /\ Goto(w, "body") /\ UNCHANGED <<log, copy>>
  <2>1. copy[w] # <<>>
    BY <1>3 DEF In
  <2>2. Alone(w) /\ DriverSane(w)'
    BY <1>1, <1>2, <1>3, <2>1 DEF Alone, DriverSane, Goto, TypeOK
  <2> QED BY <1>2, <1>3, <2>2, QuietStep DEF Kept
<1>4. CASE ~In(Closing("start"), copy[w]) /\ Write(w, Closing("start")) /\ Goto(w, "body")
  <2>1. copy[w] = log
    BY <1>4, AcceptedKnowsAll DEF Write
  <2>2. Continues(Closing("start"), copy[w])
    BY <1>1, <1>4, <2>1 DEF Sane, Continues
  <2> QED BY <1>1, <1>2, <1>4, <2>2, KnownEvents, AppendIsAStep DEF Goto, Kept
<1>5. CASE Goto(w, "leaving") /\ UNCHANGED <<log, copy>>
  <2>1. Alone(w) /\ DriverSane(w)'
    BY <1>1, <1>2, <1>5 DEF Alone, DriverSane, Goto, TypeOK
  <2> QED BY <1>2, <1>5, <2>1, QuietStep DEF Kept
<1> QED BY <1>3, <1>4, <1>5 DEF Begin, DriverWrites

\* An append of the body that is accepted or refused.
LEMMA BodyWriteKeeps ==
  ASSUME Inv, Uncancelled, NEW w \in Workers, pc[w] \in {"body", "invoke"},
         NEW e \in Events, BodyWrites(w, e), ~Refused(w) => Continues(e, copy[w]),
         UNCHANGED <<status, snap, flag>>
  PROVE  Kept
<1>1. TypeOK /\ DriverSane(w) /\ how[w] \in {"none", "completed", "failed"}
  BY DEF Inv, Types, TypeOK, Uncancelled, DriverSane
<1>2. CASE Write(w, e) /\ Goto(w, "body") /\ UNCHANGED how
  <2>1. how' = [how EXCEPT ![w] = how[w]]
    BY <1>1, <1>2 DEF TypeOK
  <2>2. Continues(e, copy[w])
    BY <1>2 DEF Write
  <2> QED BY <1>1, <1>2, <2>1, <2>2, AppendIsAStep DEF Goto, Kept
<1>3. CASE Refused(w) /\ Unwind(w, "failed") /\ UNCHANGED <<log, copy>>
  <2>1. Refused(w)'
    BY <1>3 DEF Refused
  <2>2. Alone(w) /\ DriverSane(w)'
    BY <1>1, <1>3, <2>1 DEF Alone, DriverSane, Unwind, Goto, TypeOK
  <2> QED BY <1>3, <2>2, QuietStep DEF Kept
<1> QED BY <1>2, <1>3 DEF BodyWrites

LEMMA ScheduleKeeps ==
  ASSUME Inv, Uncancelled, NEW w \in Workers, Schedule(w)
  PROVE  Kept
<1>1. PICK i \in Steps : /\ At(w, i) /\ ~In(<<"sched", i>>, copy[w])
                         /\ BodyWrites(w, <<"sched", i>>)
  BY DEF Schedule
<1>2. /\ UNCHANGED <<status, snap, flag>> /\ pc[w] = "body" /\ copy[w] # <<>>
      /\ Done(copy[w]) = 1..(i - 1) /\ i \notin Scheduled(copy[w])
  BY <1>1 DEF Schedule, At, Done, Scheduled, StepsWith, Uncancelled, DriverSane
<1>3. ASSUME ~Refused(w) PROVE Continues(<<"sched", i>>, copy[w])
  <2>1. Sane(copy[w])
    BY <1>3, AcceptedKnowsAll DEF Uncancelled
  <2>2. Scheduled(copy[w]) = 1..(i - 1) /\ Fails(copy[w]) = {}
    BY <1>2, <2>1, NextStep
  <2> QED BY <1>2, <2>2 DEF Continues, Done, Scheduled, Fails
<1> QED BY <1>1, <1>2, <1>3, KnownEvents, BodyWriteKeeps

\* The step that a driver has invoked is the one its journal has scheduled.
LEMMA InvokedStep ==
  ASSUME Inv, Uncancelled, NEW w \in Workers, pc[w] = "invoke", ~Refused(w),
         NEW i \in Steps, Done(copy[w]) = 1..(i - 1)
  PROVE  Scheduled(copy[w]) = 1..i /\ Fails(copy[w]) = {} /\ copy[w] # <<>>
<1>1. Sane(copy[w]) /\ DriverSane(w)
  BY AcceptedKnowsAll DEF Uncancelled
<1>2. PICK j \in Scheduled(copy[w]) : Done(copy[w]) = 1..(j - 1)
  BY <1>1 DEF DriverSane, AtStep
<1>3. j \in Steps
  BY <1>2 DEF Scheduled, StepsWith
<1>4. i - 1 \in Nat /\ j - 1 \in Nat /\ 1..(i - 1) = 1..(j - 1)
  BY <1>2, <1>3
<1>5. i - 1 = j - 1
  BY <1>4, IntervalsDiffer
<1>6. i = j
  BY <1>3, <1>5
<1> QED BY <1>1, <1>2, <1>6, NextStep DEF DriverSane, AtStep

LEMMA StepEndKeeps ==
  ASSUME Inv, Uncancelled, NEW w \in Workers, StepReturns(w) \/ StepFails(w)
  PROVE  Kept
<1>1. pc[w] = "invoke" /\ UNCHANGED <<status, snap, flag>>
  BY DEF StepReturns, StepFails
<1>2. CASE StepReturns(w)
  <2>1. PICK i \in Steps : Done(copy[w]) = 1..(i - 1) /\ BodyWrites(w, <<"done", i>>)
    BY <1>2 DEF StepReturns, Done
  <2>2. ASSUME ~Refused(w) PROVE Continues(<<"done", i>>, copy[w])
    <3>1. Scheduled(copy[w]) = 1..i /\ Fails(copy[w]) = {} /\ copy[w] # <<>>
      BY <1>1, <2>1, <2>2, InvokedStep
    <3> QED BY <2>1, <3>1 DEF Continues, Done, Scheduled, Fails
  <2> QED BY <1>1, <2>1, <2>2, KnownEvents, BodyWriteKeeps
<1>3. CASE StepFails(w)
  <2>1. PICK i \in Fallible : Done(copy[w]) = 1..(i - 1) /\ BodyWrites(w, <<"fail", i>>)
    BY <1>3 DEF StepFails, Done
  <2>2. i \in Steps
    OBVIOUS
  <2>3. ASSUME ~Refused(w) PROVE Continues(<<"fail", i>>, copy[w])
    <3>1. Scheduled(copy[w]) = 1..i /\ Fails(copy[w]) = {} /\ copy[w] # <<>>
      BY <1>1, <2>1, <2>2, <2>3, InvokedStep
    <3> QED BY <2>1, <3>1 DEF Continues, Done, Scheduled, Fails
  <2> QED BY <1>1, <2>1, <2>2, <2>3, KnownEvents, BodyWriteKeeps
<1> QED BY <1>2, <1>3

LEMMA AttemptKeeps ==
  ASSUME Inv, Uncancelled, NEW w \in Workers, Attempt(w)
  PROVE  Kept
<1>1. PICK i \in Steps : At(w, i) /\ In(<<"sched", i>>, copy[w])
  BY DEF Attempt
<1>2. AtStep(copy[w])
  BY <1>1 DEF Attempt, Failed, At, AtStep, Done, Scheduled, Fails, StepsWith
<1>3. /\ UNCHANGED <<log, status, snap, copy, flag, how>> /\ pc' = [pc EXCEPT ![w] = "invoke"]
      /\ pc[w] = "body"
  BY <1>1 DEF Attempt, Goto, store, memory, At
<1>4. TypeOK /\ DriverSane(w)
  BY DEF Inv, Types, Uncancelled
<1>5. Alone(w) /\ DriverSane(w)'
  BY <1>2, <1>3, <1>4 DEF Alone, DriverSane, TypeOK
<1> QED BY <1>3, <1>5, QuietStep DEF Kept

LEMMA RaisesKeeps ==
  ASSUME Inv, Uncancelled, NEW w \in Workers, Raises(w)
  PROVE  Kept
<1>1. /\ UNCHANGED <<log, status, snap, copy, flag>> /\ pc' = [pc EXCEPT ![w] = "undo"]
      /\ how' = [how EXCEPT ![w] = "failed"] /\ Fails(copy[w]) # {}
  BY DEF Raises, Failed, Fails, Unwind, Goto, store
<1>2. TypeOK /\ DriverSane(w)
  BY DEF Inv, Types, Uncancelled
<1>3. Alone(w) /\ DriverSane(w)'
  BY <1>1, <1>2 DEF Alone, DriverSane, TypeOK
<1> QED BY <1>1, <1>3, QuietStep DEF Kept

LEMMA CompleteKeeps ==
  ASSUME Inv, Uncancelled, NEW w \in Workers, Complete(w)
  PROVE  Kept
<1>1. TypeOK /\ DriverSane(w) /\ pc[w] = "body" /\ Done(copy[w]) = Steps /\ copy[w] # <<>>
      /\ UNCHANGED <<status, snap, flag>> /\ how' = [how EXCEPT ![w] = "completed"]
  BY DEF Inv, Types, Uncancelled, DriverSane, Complete, Done
<1>2. CASE In(Closing("completed"), copy[w]) /\ Goto(w, "mark") /\ UNCHANGED <<log, copy>>
  <2>1. Alone(w) /\ DriverSane(w)'
    BY <1>1, <1>2 DEF Alone, DriverSane, Goto, TypeOK
  <2> QED BY <1>1, <1>2, <2>1, QuietStep DEF Kept
<1>3. CASE /\ ~In(Closing("completed"), copy[w]) /\ Write(w, Closing("completed"))
           /\ Goto(w, "mark")
  <2>1. Sane(copy[w])
    BY <1>3, AcceptedKnowsAll DEF Write, Uncancelled
  <2>2. Fails(copy[w]) = {}
    BY <1>1, <2>1 DEF Sane, Fails, StepsWith
  <2>3. Continues(Closing("completed"), copy[w])
    BY <1>1, <1>3, <2>2 DEF Continues, Done, Fails
  <2> QED BY <1>1, <1>3, <2>3, KnownEvents, AppendIsAStep DEF Goto, Kept
<1>4. CASE Goto(w, "leaving") /\ UNCHANGED <<log, copy>>
  <2>1. Alone(w) /\ DriverSane(w)'
    BY <1>1, <1>4 DEF Alone, DriverSane, Goto, TypeOK
  <2> QED BY <1>1, <1>4, <2>1, QuietStep DEF Kept
<1> QED BY <1>2, <1>3, <1>4 DEF Complete, DriverWrites

LEMMA UndoKeeps ==
  ASSUME Inv, Uncancelled, NEW w \in Workers, Undo(w)
  PROVE  Kept
<1>1. /\ UNCHANGED <<log, status, snap, copy, flag, how>> /\ pc' = [pc EXCEPT ![w] = "undoing"]
      /\ pc[w] = "undo"
  BY DEF Undo, Goto, store, memory
<1>2. TypeOK /\ DriverSane(w)
  BY DEF Inv, Types, Uncancelled
<1>3. Refused(w) => Refused(w)'
  BY <1>1 DEF Refused
<1>4. Alone(w) /\ DriverSane(w)'
  BY <1>1, <1>2, <1>3 DEF Alone, DriverSane, TypeOK
<1> QED BY <1>1, <1>4, QuietStep DEF Kept

LEMMA UndoReturnsKeeps ==
  ASSUME Inv, Uncancelled, NEW w \in Workers, UndoReturns(w)
  PROVE  Kept
<1>1. PICK i \in Steps : Latest(i, copy[w]) /\ DriverWrites(w, <<"undone", i>>, "undo")
  BY DEF UndoReturns
<1>2. TypeOK /\ DriverSane(w) /\ pc[w] = "undoing" /\ how[w] = "failed"
      /\ UNCHANGED <<status, snap, flag, how>>
  BY DEF Inv, Types, HowInv, Uncancelled, DriverSane, UndoReturns
<1>3. CASE Write(w, <<"undone", i>>) /\ Goto(w, "undo")
  <2>1. Fails(copy[w]) # {}
    BY <1>2, <1>3 DEF DriverSane, Write
  <2>2. Continues(<<"undone", i>>, copy[w])
    BY <1>1, <2>1 DEF Continues, Fails
  <2>3. how' = [how EXCEPT ![w] = "failed"]
    BY <1>2 DEF TypeOK
  <2> QED BY <1>2, <1>3, <2>1, <2>2, <2>3, KnownEvents, AppendIsAStep DEF Goto, Kept
<1>4. CASE Goto(w, "leaving") /\ UNCHANGED <<log, copy>>
  <2>1. Alone(w) /\ DriverSane(w)'
    BY <1>2, <1>4 DEF Alone, DriverSane, Goto, TypeOK
  <2> QED BY <1>2, <1>4, <2>1, QuietStep DEF Kept
<1> QED BY <1>1, <1>3, <1>4 DEF DriverWrites

LEMMA CloseKeeps ==
  ASSUME Inv, Uncancelled, NEW w \in Workers, Close(w)
  PROVE  Kept
<1>1. TypeOK /\ DriverSane(w) /\ pc[w] = "undo" /\ how[w] = "failed"
      /\ UNCHANGED <<status, snap, flag, how>> /\ Finished(copy[w]) = {}
  BY DEF Inv, Types, HowInv, Uncancelled, DriverSane, Close
<1>2. CASE In(Closing("failed"), copy[w]) /\ Goto(w, "mark") /\ UNCHANGED <<log, copy>>
  <2>1. Alone(w) /\ DriverSane(w)'
    BY <1>1, <1>2 DEF Alone, DriverSane, Goto, TypeOK
  <2> QED BY <1>1, <1>2, <2>1, QuietStep DEF Kept
<1>3. CASE /\ ~In(Closing("failed"), copy[w]) /\ Write(w, Closing("failed"))
           /\ Goto(w, "mark")
  <2>1. Fails(copy[w]) # {}
    BY <1>1, <1>3 DEF DriverSane, Write
  <2>2. Continues(Closing("failed"), copy[w])
    BY <1>1, <1>3, <2>1 DEF Continues, Fails
  <2>3. how' = [how EXCEPT ![w] = "failed"]
    BY <1>1 DEF TypeOK
  <2> QED BY <1>1, <1>3, <2>2, <2>3, KnownEvents, AppendIsAStep DEF Goto, Kept
<1>4. CASE Goto(w, "leaving") /\ UNCHANGED <<log, copy>>
  <2>1. Alone(w) /\ DriverSane(w)'
    BY <1>1, <1>4 DEF Alone, DriverSane, Goto, TypeOK
  <2> QED BY <1>1, <1>4, <2>1, QuietStep DEF Kept
<1> QED BY <1>1, <1>2, <1>3, <1>4 DEF Close, DriverWrites

\* The status that a driver marks is the one the journal was closed with, so a
\* second one marks it anew at most.
LEMMA MarkStatusKeeps ==
  ASSUME Inv, Uncancelled, NEW w \in Workers, MarkStatus(w)
  PROVE  Kept
<1>1. /\ TypeOK /\ DriverSane(w) /\ Sane(log) /\ StatusSane /\ how[w] \in {"completed", "failed"}
      /\ pc[w] = "mark" /\ Begins(copy[w], log)
  BY DEF Inv, Types, TypeOK, HowInv, CopiesBegin, Uncancelled, DriverSane, MarkStatus
<1>2. /\ UNCHANGED <<log, snap, copy, flag, how>> /\ pc' = [pc EXCEPT ![w] = "leaving"]
      /\ status' = IF how[w] = "completed" THEN "COMPLETED" ELSE "FAILED"
  BY <1>1 DEF MarkStatus, Goto, memory
<1>3. Alone(w) /\ DriverSane(w)'
  BY <1>1, <1>2 DEF Alone, DriverSane, TypeOK
<1>4. In(Closing(how[w]), log)
  <2>1. In(Closing(how[w]), copy[w])
    BY <1>1 DEF DriverSane
  <2>2. Len(copy[w]) \in Nat /\ Len(log) \in Nat
    BY <1>1, LenProperties DEF TypeOK
  <2> QED BY <1>1, <2>1, <2>2, InBeginning
<1>5. StatusSane'
  BY <1>1, <1>2, <1>4 DEF StatusSane
<1>6. ~(In(Closing("completed"), log) /\ In(Closing("failed"), log))
  BY <1>1 DEF Sane, Fails, StepsWith
<1>7. Log!Mark \/ UNCHANGED <<log, status>>
  <2>1. status \in {"RUNNING", "COMPLETED", "FAILED"}
    BY <1>1 DEF TypeOK, Statuses, StatusSane
  <2>2. status # "RUNNING" => status' = status
    BY <1>1, <1>2, <1>4, <1>6, <2>1 DEF StatusSane
  <2>3. \A k : Log!In(Log!Closing(k), log) <=> In(Closing(k), log)
    BY DEF Log!In, In, Log!Closing, Closing
  <2>4. status = "RUNNING" => Log!Mark
    BY <1>1, <1>2, <1>4, <2>3 DEF Log!Mark
  <2> QED BY <1>2, <2>2, <2>4
<1> QED BY <1>1, <1>2, <1>3, <1>5, <1>7, OthersStaySane DEF Kept, Log!Next

LEMMA LeaveKeeps ==
  ASSUME Inv, Uncancelled, NEW w \in Workers, Leave(w) \/ Crash(w)
  PROVE  Kept
<1>1. /\ UNCHANGED <<log, status>> /\ Forget(w)
      /\ \E p \in {"down", "dead"} : pc' = [pc EXCEPT ![w] = p]
  BY DEF Leave, Crash, Goto, store
<1>2. TypeOK /\ DriverSane(w)
  BY DEF Inv, Types, Uncancelled
<1>3. Alone(w) /\ DriverSane(w)'
  BY <1>1, <1>2 DEF Alone, DriverSane, Forget, TypeOK
<1> QED BY <1>1, <1>3, QuietStep DEF Kept

\* Nobody has read a record with a cancel request.
LEMMA EnsureKeeps ==
  ASSUME Inv, Uncancelled, ~cancelReq, NEW w \in Workers, Ensure(w)
  PROVE  Kept
<1>1. TypeOK /\ DriverSane(w)
  BY DEF Inv, Types, Uncancelled
<1>2. CASE Read(w)
  <2>1. /\ UNCHANGED <<log, status, copy, flag, how>> /\ snap' = [snap EXCEPT ![w] = FALSE]
        /\ pc' = [pc EXCEPT ![w] = "read"]
    <3>1. cancelReq = FALSE
      BY <1>1 DEF TypeOK
    <3> QED BY <1>2, <3>1 DEF Read, Goto, store
  <2>2. Alone(w) /\ DriverSane(w)'
    BY <1>1, <2>1 DEF Alone, DriverSane, TypeOK
  <2> QED BY <2>1, <2>2, QuietStep DEF Kept
<1>3. CASE Acquire(w)
  <2>1. /\ UNCHANGED <<log, status, snap, copy, flag, how>>
        /\ \E p \in {"loading", "down"} : pc' = [pc EXCEPT ![w] = p]
    BY <1>3 DEF Acquire, Goto, store, memory
  <2>2. Alone(w) /\ DriverSane(w)'
    BY <1>1, <2>1 DEF Alone, DriverSane, TypeOK
  <2> QED BY <2>1, <2>2, QuietStep DEF Kept
<1>4. CASE Load(w)
  <2>1. /\ UNCHANGED <<log, status, snap>> /\ copy' = [copy EXCEPT ![w] = log]
        /\ flag' = [flag EXCEPT ![w] = snap[w]] /\ how' = [how EXCEPT ![w] = "none"]
        /\ pc' = [pc EXCEPT ![w] = "begin"]
    BY <1>4 DEF Load, Goto, store
  <2>2. Alone(w) /\ DriverSane(w)'
    BY <1>1, <2>1 DEF Alone, DriverSane, TypeOK
  <2> QED BY <2>1, <2>2, QuietStep DEF Kept
<1> QED BY <1>2, <1>3, <1>4 DEF Ensure

\* A driver that has lost its lease finds no cancel flag set, and ends.
LEMMA HeartbeatKeeps ==
  ASSUME Inv, Uncancelled, ~cancelReq, NEW w \in Workers, Heartbeat(w)
  PROVE  Kept
<1>1. TypeOK /\ DriverSane(w)
  BY DEF Inv, Types, Uncancelled
<1>2. CASE Renew(w) \/ HeartbeatError(w)
  <2>1. UNCHANGED <<log, status, pc, snap, copy, how>> /\ flag' \in {flag, [flag EXCEPT ![w] = FALSE]}
    BY <1>1, <1>2 DEF Renew, HeartbeatError, store, DriverSane
  <2>2. Refused(w) => Refused(w)'
    BY <2>1 DEF Refused
  <2>3. Alone(w) /\ DriverSane(w)'
    BY <1>1, <2>1, <2>2 DEF Alone, DriverSane, TypeOK
  <2> QED BY <2>1, <2>3, QuietStep DEF Kept
<1>3. CASE Lose(w)
  <2>1. UNCHANGED <<log, status, snap, copy, flag, how>> /\ pc' = [pc EXCEPT ![w] = "leaving"]
    BY <1>1, <1>3 DEF Lose, Goto, store, DriverSane
  <2>2. Alone(w) /\ DriverSane(w)'
    BY <1>1, <2>1 DEF Alone, DriverSane, TypeOK
  <2> QED BY <2>1, <2>2, QuietStep DEF Kept
<1> QED BY <1>2, <1>3 DEF Heartbeat, Notified

LEMMA DriveKeeps ==
  ASSUME Inv, Uncancelled, NEW w \in Workers, Drive(w)
  PROVE  Kept
<1>1. ~ObserveCancel(w)
  BY DEF ObserveCancel, Uncancelled, DriverSane
<1>2. CASE Begin(w) \/ Schedule(w) \/ Attempt(w) \/ StepReturns(w) \/ StepFails(w)
  BY <1>2, BeginKeeps, ScheduleKeeps, AttemptKeeps, StepEndKeeps
<1>3. CASE Raises(w) \/ Complete(w) \/ Undo(w) \/ UndoReturns(w) \/ Close(w)
  BY <1>3, RaisesKeeps, CompleteKeeps, UndoKeeps, UndoReturnsKeeps, CloseKeeps
<1>4. CASE MarkStatus(w) \/ Leave(w)
  BY <1>4, MarkStatusKeeps, LeaveKeeps
<1> QED BY <1>1, <1>2, <1>3, <1>4 DEF Drive

\* Time passes and leases run out.
LEMMA TimeKeeps ==
  ASSUME Inv, Uncancelled, Expire \/ Lapse \/ UNCHANGED vars
  PROVE  Kept
<1>1. UNCHANGED <<log, status, pc, snap, copy, flag, how>>
  BY DEF Expire, Lapse, vars, store, memory
<1>2. StatusSane'
  BY <1>1 DEF Uncancelled, StatusSane
<1>3. ASSUME NEW w \in Workers PROVE DriverSane(w)'
  <2>1. DriverSane(w)
    BY DEF Uncancelled
  <2>2. Refused(w)' <=> Refused(w)
    BY <1>1 DEF Refused
  <2> QED BY <1>1, <2>1, <2>2 DEF DriverSane
<1> QED BY <1>1, <1>2, <1>3 DEF Uncancelled, Kept

-----------------------------------------------------------------------------

\* A cancel request is never taken back.
LEMMA CancelStays ==
  ASSUME cancelReq, [Next]_vars
  PROVE  cancelReq'
<1>1. ASSUME NEW w \in Workers, Drive(w) PROVE cancelReq'
  BY <1>1 DEF Drive, Begin, ObserveCancel, Schedule, Attempt, StepReturns, StepFails, Raises,
     Complete, Undo, UndoReturns, Close, MarkStatus, Leave, store
<1>2. ASSUME NEW w \in Workers, Ensure(w) \/ Heartbeat(w) \/ Crash(w) PROVE cancelReq'
  BY <1>2 DEF Ensure, Read, Acquire, Load, Heartbeat, Renew, Lose, HeartbeatError, Notified,
     Crash, store
<1>3. CASE Cancel \/ Expire \/ Lapse \/ UNCHANGED vars
  BY <1>3 DEF Cancel, Expire, Lapse, vars, store
<1> QED BY <1>1, <1>2, <1>3 DEF Next

LEMMA StepsOfRunLog ==
  ASSUME Inv, ExecInv, [Next]_vars
  PROVE  ExecInv' /\ [cancelReq \/ Log!Next]_<<log, status>>
<1>1. CASE cancelReq
  BY <1>1, CancelStays DEF ExecInv
<1>2. CASE Cancel
  BY <1>2 DEF Cancel, ExecInv
<1>3. CASE ~cancelReq /\ ~Cancel
  <2>1. Uncancelled
    BY <1>3 DEF ExecInv
  <2>2. Kept
    BY <1>3, <2>1, DriveKeeps, EnsureKeeps, HeartbeatKeeps, LeaveKeeps, TimeKeeps DEF Next
  <2> QED BY <2>2 DEF Kept, ExecInv
<1> QED BY <1>1, <1>2, <1>3

\* Whatever lapses, crashes and takes over, as long as nobody cancels the
\* drivers together write the journal of one sequential execution.
THEOREM WorkersExecuteOnce == Spec => OneExecution
<1>1. Init => ExecInv /\ Log!Init
  <2> SUFFICES ASSUME Init PROVE ExecInv /\ Log!Init
    OBVIOUS
  <2>1. log = <<>> /\ status = "RUNNING"
    BY DEF Init
  <2>2. \A e : ~In(e, log)
    BY <2>1 DEF In
  <2>3. \A k : StepsWith(k, log) = {}
    BY <2>2 DEF StepsWith
  <2>4. 0 \in 0..NSteps /\ 1..0 = {}
    OBVIOUS
  <2>5. Sane(log)
    BY <2>1, <2>2, <2>3, <2>4 DEF Sane, Done, Scheduled, Fails
  <2>6. \A w \in Workers : DriverSane(w)
    BY DEF Init, DriverSane
  <2> QED BY <2>1, <2>5, <2>6 DEF ExecInv, Uncancelled, StatusSane, Log!Init
<1>2. Inv /\ ExecInv /\ [Next]_vars => ExecInv' /\ [cancelReq \/ Log!Next]_<<log, status>>
  BY StepsOfRunLog
<1> QED BY <1>1, <1>2, OwnershipInvariant, PTL DEF Spec, OneExecution

=============================================================================
