--------------------------- MODULE RunEngineProofs ---------------------------
(***************************************************************************)
(* Proofs about RunEngine.                                                 *)
(***************************************************************************)
EXTENDS RunEngine, SequenceTheorems, TLAPS

USE ConstantsOK DEF ConstantsOK, Ops

-----------------------------------------------------------------------------
(* What one appended event changes *)

\* Journal.append adds one kind to one operation and nothing else.
LEMMA AppendFacts ==
  ASSUME TypeOK, NEW o \in Ops, NEW kind \in OpKinds, Append1(kind, o)
  PROVE  /\ journal' \in [Ops -> SUBSET OpKinds]
         /\ \A p \in Ops, x \in OpKinds :
              Has(x, p)' <=> (Has(x, p) \/ (p = o /\ x = kind))
BY DEF TypeOK, Append1, Has

\* The event that settles an operation, or settles one of its compensations,
\* or defines a value, keeps the journal well formed.
LEMMA AppendKeepsJournal ==
  ASSUME TypeOK, JournalInv, NEW o \in Ops, NEW kind \in OpKinds,
         kind \in KindsOf(o), Append1(kind, o),
         \A p \in Ops : p < o => Passed(p),
         \/ kind = DefiningKind(o) /\ ~Recorded(o)
         \/ /\ Recorded(o) /\ ~Settled(o)
            /\ kind \notin {"COMP_COMPLETED", "COMP_FAILED"}
         \/ /\ Owed(o) /\ ~Undone(o)
            /\ kind \in {"COMP_COMPLETED", "COMP_FAILED"}
  PROVE  /\ JournalInv'
         /\ \A p \in Ops : p # o => /\ Recorded(p)' <=> Recorded(p)
                                    /\ Settled(p)' <=> Settled(p)
                                    /\ Returned(p)' <=> Returned(p)
                                    /\ Errored(p)' <=> Errored(p)
                                    /\ Passed(p)' <=> Passed(p)
                                    /\ Owed(p)' <=> Owed(p)
                                    /\ Undone(p)' <=> Undone(p)
<1>1. \A p \in Ops, x \in OpKinds : Has(x, p)' <=> (Has(x, p) \/ (p = o /\ x = kind))
  BY AppendFacts
<1>2. \A p \in Ops : p # o => journal'[p] = journal[p]
  BY DEF Append1, TypeOK
<1>3. \A p \in Ops : p # o => /\ Recorded(p)' <=> Recorded(p)
                              /\ Settled(p)' <=> Settled(p)
                              /\ Returned(p)' <=> Returned(p)
                              /\ Errored(p)' <=> Errored(p)
                              /\ Passed(p)' <=> Passed(p)
                              /\ Owed(p)' <=> Owed(p)
                              /\ Undone(p)' <=> Undone(p)
  BY <1>2 DEF Recorded, DefiningKind, Settled, Returned, Errored, Passed, Owed, Undone, Has
<1>4. OneOutcome'
  BY <1>1 DEF OneOutcome, OpKinds, JournalInv, Recorded, DefiningKind, Settled, Returned, Errored, Owed, Undone, KindsOf
<1>5. journal'[o] \subseteq KindsOf(o)
  BY DEF Append1, TypeOK, JournalInv
<1>6. Settled(o)' => Recorded(o)'
  BY <1>1 DEF OpKinds, JournalInv, Recorded, DefiningKind, Settled, Returned, Errored, KindsOf
<1>7. Undone(o)' => Owed(o)'
  BY <1>1 DEF OpKinds, JournalInv, DefiningKind, Owed, Undone
<1>8. Passed(o) => Passed(o)'
  BY <1>1, <1>4 DEF OpKinds, Passed, Returned, Errored
<1>9. \A q, p \in Ops : p < q /\ Recorded(q)' => Passed(p)'
  BY <1>3, <1>8 DEF JournalInv
<1> QED
  BY <1>2, <1>3, <1>4, <1>5, <1>6, <1>7, <1>9 DEF JournalInv, KindsOf

-----------------------------------------------------------------------------
(* Steps several actions are built from *)

\* Going on past operation op: the stack stays what the passed operations
\* registered, whether op registered a compensation or not.
LEMMA AdvanceKeepsStack ==
  ASSUME TypeOK, StackInv, NEW o \in Ops, o = op, op' = o + 1,
         Passed(o)',
         \A p \in Ops : p # o => (Passed(p)' <=> Passed(p)) /\ (Owed(p)' <=> Owed(p)),
         stack' = IF Owed(o)' THEN Append(stack, o) ELSE stack
  PROVE  /\ StackInv'
         /\ stack' \in Seq(Ops) /\ op' \in 1..(NOps + 1) /\ Len(stack') >= Len(stack)
<1>1. stack \in Seq(Ops) /\ Len(stack) \in Nat
  BY DEF TypeOK
<1>2. stack' \in Seq(Ops) /\ op' \in 1..(NOps + 1) /\ Len(stack') >= Len(stack)
  <2>1. Append(stack, o) \in Seq(Ops) /\ Len(Append(stack, o)) = Len(stack) + 1
    BY <1>1
  <2>2. op' \in 1..(NOps + 1)
    OBVIOUS
  <2>3. CASE Owed(o)'
    BY <1>1, <2>1, <2>2, <2>3
  <2>4. CASE ~Owed(o)'
    BY <1>1, <2>2, <2>4
  <2> QED BY <2>3, <2>4
<1>3. \A p \in Ops : p < op' => Passed(p)'
  BY DEF StackInv
<1>4. CASE Owed(o)'
  <2>1. /\ Len(stack') = Len(stack) + 1
        /\ stack'[Len(stack) + 1] = o
        /\ \A i \in 1..Len(stack) : stack'[i] = stack[i] /\ stack[i] \in Ops
    BY <1>1, <1>4
  <2>2. \A i \in 1..Len(stack') : stack'[i] < op' /\ Owed(stack[i])'
    <3> SUFFICES ASSUME NEW i \in 1..Len(stack')
                 PROVE  stack'[i] < op' /\ Owed(stack[i])'
      OBVIOUS
    <3>1. CASE i = Len(stack) + 1
      BY <1>1, <1>4, <2>1, <3>1
    <3>2. CASE i \in 1..Len(stack)
      <4>1. stack'[i] = stack[i] /\ stack[i] \in Ops /\ stack[i] < o /\ Owed(stack[i])
        BY <2>1, <3>2 DEF StackInv
      <4> DEFINE s == stack[i]
      <4> HIDE DEF s
      <4>2. \A p \in Ops : p # o => (Owed(p)' <=> Owed(p))
        OBVIOUS
      <4> QED BY <4>1, <4>2
    <3> QED BY <1>1, <2>1, <3>1, <3>2
  <2>3. \A i, j \in 1..Len(stack') : i < j => stack'[i] < stack'[j]
    BY <1>1, <2>1 DEF StackInv
  <2>4. \A p \in Ops : p < op' /\ Owed(p)' => \E i \in 1..Len(stack') : stack'[i] = p
    <3> SUFFICES ASSUME NEW p \in Ops, p < op', Owed(p)'
                 PROVE  \E i \in 1..Len(stack') : stack'[i] = p
      OBVIOUS
    <3>1. CASE p = o
      BY <1>1, <2>1, <3>1
    <3>2. CASE p # o
      <4>1. PICK i \in 1..Len(stack) : stack[i] = p
        BY <3>2 DEF StackInv
      <4> QED BY <1>1, <2>1, <4>1
    <3> QED BY <3>1, <3>2
  <2> QED BY <1>2, <1>3, <2>2, <2>3, <2>4 DEF StackInv
<1>5. CASE ~Owed(o)'
  BY <1>1, <1>2, <1>3, <1>5 DEF StackInv
<1> QED BY <1>2, <1>4, <1>5

\* A driver that stays at its operation keeps its stack.
LEMMA StayKeepsStack ==
  ASSUME TypeOK, StackInv, op' = op, stack' = stack,
         \A p \in Ops : p < op => (Passed(p) => Passed(p)') /\ (Owed(p)' <=> Owed(p))
  PROVE  StackInv'
<1>1. \A i \in 1..Len(stack) : stack[i] \in Ops
  BY ElementOfSeq DEF TypeOK
<1>2. \A p \in Ops : p < op' => Passed(p)'
  BY DEF StackInv
<1>3. \A i \in 1..Len(stack') : stack'[i] < op' /\ Owed(stack[i])'
  <2> SUFFICES ASSUME NEW i \in 1..Len(stack)
               PROVE  stack[i] < op /\ Owed(stack[i])'
    OBVIOUS
  <2>1. stack[i] \in Ops /\ stack[i] < op /\ Owed(stack[i])
    BY <1>1 DEF StackInv
  <2>2. \A p \in Ops : p < op /\ Owed(p) => Owed(p)'
    OBVIOUS
  <2> QED BY <2>1, <2>2
<1> QED BY <1>2, <1>3 DEF StackInv

\* A completed run has passed every operation.
LEMMA NotCompleted ==
  ASSUME IInv, op <= NOps, ~Passed(op)
  PROVE  status # "COMPLETED"
BY DEF IInv, TypeOK, StatusInv

\* A driver that does not mark the run keeps what holds of its status.
LEMMA KeepsStatus ==
  ASSUME IInv, UNCHANGED <<status, reopened, outcome>>, pc # "down",
         \A p \in Ops : Passed(p) => Passed(p)'
  PROVE  StatusInv'
BY DEF IInv, StatusInv, Compensated

\* The body ended without returning at an operation that has not passed.
LEMMA RaiseStep ==
  ASSUME IInv, NEW how \in {"fail", "cancel"}, Raise(how),
         pc \in BodyPCs, how = "cancel" => cancelReq, status # "COMPLETED",
         UNCHANGED <<status, cancelReq, runJournal, tries, compTries, sent>>,
         journal' \in [Ops -> SUBSET OpKinds], JournalInv', StackInv',
         (op <= NOps => ~Passed(op))',
         due' = due, closing' \in BOOLEAN, crashes' \in Nat, storeErrors' \in Nat,
         UNCHANGED <<reopened, staleStarts>>
  PROVE  IInv'
<1>2. TypeOK'
  <2>1. stack' \in Seq(Ops) /\ op' \in 1..(NOps + 1) /\ attempt' \in 0..MaxAttempts
    BY DEF IInv, TypeOK, Raise
  <2>2. Len(stack) \in Nat
    BY DEF IInv, TypeOK
  <2>3. k' \in 0..Len(stack')
    BY <2>2 DEF Raise
  <2>4. /\ pc' \in PCs /\ outcome' \in Outcomes
        /\ flag' \in BOOLEAN /\ event' \in BOOLEAN /\ compFailed' \in BOOLEAN
    BY DEF IInv, TypeOK, Raise, PCs, UndoPCs, Outcomes
  <2> QED BY <2>1, <2>3, <2>4 DEF IInv, TypeOK
<1>4. PlaceInv'
  BY DEF Raise, PlaceInv, UndoPCs, BodyPCs
<1>5. AttemptInv'
  BY DEF IInv, AttemptInv, AttemptBudget, Raise
<1>6. UndoInv'
  <2>1. Len(stack) \in Nat
    BY DEF IInv, TypeOK
  <2> QED BY <2>1 DEF UndoInv, Raise
<1>7. FlagInv' /\ StatusInv'
  BY DEF IInv, FlagInv, StatusInv, Compensated, CancelledOnlyIfAsked, Raise, BodyPCs
<1> QED BY <1>2, <1>4, <1>5, <1>6, <1>7 DEF IInv

\* An operation returned live: its result is journaled, its compensation
\* registered, and the driver goes on.
LEMMA SettleStep ==
  ASSUME IInv, pc \in BodyPCs, NEW o \in Ops, o = op, NEW kind \in OpKinds, Settle(kind),
         \/ /\ OpType[o] \in {"value", "register"}
            /\ kind = DefiningKind(o) /\ ~Recorded(o)
         \/ /\ Recorded(o) /\ ~Settled(o)
            /\ \/ OpType[o] = "step"  /\ kind = "STEP_COMPLETED"
               \/ OpType[o] = "sleep" /\ kind = "TIMER_FIRED"
               \/ OpType[o] = "wait"  /\ kind = "EVENT_CONSUMED",
         UNCHANGED <<status, cancelReq, runJournal, tries, compTries, sent, due, bounds>>
  PROVE  IInv'
<1>1. Append1(kind, o) /\ journal' \in [Ops -> SUBSET OpKinds]
  BY AppendFacts DEF Settle, IInv
<1>2. kind \in KindsOf(o) /\ kind \notin {"COMP_COMPLETED", "COMP_FAILED"}
  BY DEF KindsOf, DefiningKind
<1>3. \A p \in Ops : p < o => Passed(p)
  BY DEF IInv, StackInv
<1>4. /\ JournalInv'
      /\ \A p \in Ops : p # o => (Passed(p)' <=> Passed(p)) /\ (Owed(p)' <=> Owed(p))
  BY <1>1, <1>2, <1>3, AppendKeepsJournal DEF IInv
<1>5. \A x \in OpKinds : Has(x, o)' <=> (Has(x, o) \/ x = kind)
  BY <1>1, AppendFacts DEF IInv
<1>6. Passed(o)'
  BY <1>5 DEF Passed, Returned, OpKinds, DefiningKind
<1>7. Owed(o)' <=> (kind = "STEP_COMPLETED" /\ o \in Compensable) \/ kind = "COMP_REGISTERED"
  <2>1. ~Has("STEP_COMPLETED", o) /\ ~Has("COMP_REGISTERED", o)
    BY DEF IInv, JournalInv, Recorded, DefiningKind, Settled, Returned
  <2> QED BY <1>5, <2>1 DEF Owed, OpKinds
<1>8. /\ StackInv'
      /\ stack' \in Seq(Ops) /\ op' \in 1..(NOps + 1) /\ Len(stack') >= Len(stack)
  BY <1>4, <1>6, <1>7, AdvanceKeepsStack DEF IInv, Settle
<1>9. k' = 0 /\ k' \in 0..Len(stack')
  BY <1>8 DEF IInv, PlaceInv, Settle, TypeOK
<1>10. TypeOK'
  <2>1. /\ pc' \in PCs /\ outcome' \in Outcomes /\ attempt' \in 0..MaxAttempts
        /\ flag' \in BOOLEAN /\ event' \in BOOLEAN /\ compFailed' \in BOOLEAN /\ closing' \in BOOLEAN
    BY DEF IInv, TypeOK, Settle, PCs, BodyPCs
  <2> QED BY <1>1, <1>8, <1>9, <2>1 DEF IInv, TypeOK, bounds
<1>11. PlaceInv' /\ UndoInv'
  BY <1>9 DEF IInv, Settle, PlaceInv, UndoInv, BodyPCs, UndoPCs
<1>12. AttemptInv'
  BY DEF IInv, AttemptInv, AttemptBudget, Settle
<1>13. FlagInv' /\ StatusInv'
  <2>1. \A p \in Ops : Passed(p) => Passed(p)'
    BY <1>4, <1>6
  <2>2. FlagInv' /\ UNCHANGED <<status, reopened, outcome>> /\ pc # "down"
    BY DEF IInv, FlagInv, CancelledOnlyIfAsked, Settle, BodyPCs, bounds
  <2> QED BY <2>1, <2>2, KeepsStatus
<1> QED BY <1>4, <1>8, <1>10, <1>11, <1>12, <1>13 DEF IInv

\* An operation whose error is in the journal throws it into the body.
LEMMA ThrowStep ==
  ASSUME IInv, pc \in BodyPCs, NEW o \in Ops, o = op, Throw,
         JournalInv', journal' \in [Ops -> SUBSET OpKinds],
         \A p \in Ops : p # o => (Passed(p)' <=> Passed(p)) /\ (Owed(p)' <=> Owed(p)),
         Errored(o)', OpType[o] \in {"step", "wait"}, Passed(o) => Passed(o)',
         UNCHANGED <<status, cancelReq, runJournal, tries, compTries, sent, due,
                     closing, bounds>>
  PROVE  IInv'
<1>1. ~Returned(o)' /\ ~Owed(o)'
  BY DEF JournalInv, OneOutcome, KindsOf, Owed, Returned, Has
<1>2. Passed(o)' <=> o \in Caught
  BY <1>1 DEF Passed
<1>3. CASE o \in Caught
  <2>1. /\ op' = o + 1 /\ pc' = "body" /\ attempt' = 0
        /\ UNCHANGED <<stack, flag, event, outcome, k, compFailed>>
    BY <1>3 DEF Throw
  <2>2. StackInv' /\ stack' \in Seq(Ops) /\ op' \in 1..(NOps + 1)
    BY <1>1, <1>2, <1>3, <2>1, AdvanceKeepsStack DEF IInv
  <2>3. TypeOK'
    <3>1. /\ pc' \in PCs /\ outcome' \in Outcomes /\ attempt' \in 0..MaxAttempts
          /\ flag' \in BOOLEAN /\ event' \in BOOLEAN /\ compFailed' \in BOOLEAN /\ k' \in 0..Len(stack')
      BY <2>1 DEF IInv, TypeOK, PCs, BodyPCs
    <3> QED BY <2>2, <3>1 DEF IInv, TypeOK, bounds
  <2>4. PlaceInv' /\ UndoInv'
    BY <2>1 DEF IInv, PlaceInv, UndoInv, BodyPCs, UndoPCs
  <2>5. AttemptInv'
    BY <2>1 DEF IInv, AttemptInv, AttemptBudget
  <2>6. FlagInv' /\ StatusInv'
    <3>1. \A p \in Ops : Passed(p) => Passed(p)'
      OBVIOUS
    <3>2. FlagInv' /\ UNCHANGED <<status, reopened, outcome>> /\ pc # "down"
      BY <2>1 DEF IInv, FlagInv, CancelledOnlyIfAsked, BodyPCs, bounds
    <3> QED BY <3>1, <3>2, KeepsStatus
  <2> QED BY <2>2, <2>3, <2>4, <2>5, <2>6 DEF IInv
<1>4. CASE o \notin Caught
  <2>1. Raise("fail")
    BY <1>4 DEF Throw
  <2>2. op' = op /\ stack' = stack
    BY <2>1 DEF Raise
  <2>3. StackInv'
    BY <2>2, StayKeepsStack DEF IInv
  <2>4. (op <= NOps => ~Passed(op))'
    BY <1>2, <1>4, <2>2
  <2>5. closing' \in BOOLEAN /\ crashes' \in Nat /\ storeErrors' \in Nat
        /\ UNCHANGED <<reopened, staleStarts>>
    BY DEF IInv, TypeOK, bounds
  <2>6. status # "COMPLETED"
    BY <1>2, <1>4 DEF IInv, StatusInv
  <2> QED BY <2>1, <2>3, <2>4, <2>5, <2>6, RaiseStep
<1> QED BY <1>3, <1>4

\* The driver is gone; the store is as it was, but for a final status.
LEMMA VanishStep ==
  ASSUME IInv, Vanish,
         UNCHANGED <<cancelReq, journal, runJournal, tries, compTries, sent>>,
         due' = due, closing' \in BOOLEAN, crashes' \in Nat, storeErrors' \in Nat,
         UNCHANGED <<reopened, staleStarts>>,
         status' \in Statuses, ~reopened => Compensated', CancelledOnlyIfAsked',
         status' = "COMPLETED" => (\A o \in Ops : Passed(o)) /\ ~Raises
  PROVE  IInv'
<1>1. TypeOK'
  <2>1. op' \in 1..(NOps + 1) /\ attempt' \in 0..MaxAttempts
    BY DEF Vanish
  <2>2. stack' \in Seq(Ops) /\ k' \in 0..Len(stack')
    BY EmptySeq DEF Vanish
  <2>3. /\ pc' \in PCs /\ outcome' \in Outcomes
        /\ flag' \in BOOLEAN /\ event' \in BOOLEAN /\ compFailed' \in BOOLEAN
    BY DEF Vanish, PCs, Outcomes
  <2> QED BY <2>1, <2>2, <2>3 DEF IInv, TypeOK
<1>2. JournalInv'
  BY DEF IInv, JournalInv, OneOutcome, Has, Recorded, DefiningKind, KindsOf,
         Settled, Returned, Errored, Passed, Owed, Undone
<1>3. StackInv'
  BY DEF Vanish, StackInv
<1>4. PlaceInv' /\ UndoInv'
  BY DEF Vanish, PlaceInv, UndoInv, BodyPCs, UndoPCs
<1>5. AttemptInv'
  BY DEF IInv, AttemptInv, AttemptBudget, Vanish
<1>6. FlagInv'
  BY DEF IInv, FlagInv, Vanish
<1>7. StatusInv'
  BY DEF StatusInv, Vanish, Passed, Returned, Errored, Has
<1> QED BY <1>1, <1>2, <1>3, <1>4, <1>5, <1>6, <1>7 DEF IInv

\* One entry of the stack has been visited: it was done with already, or the
\* compensation has just succeeded or given up.
LEMMA VisitStep ==
  ASSUME IInv, pc \in {"undo", "undoInvoke"}, k > 0, NEW o \in Ops, o = Entry,
         pc' = "undo", k' = k - 1,
         compFailed' = (compFailed \/ Has("COMP_FAILED", o)'),
         attempt' \in 0..MaxAttempts,
         JournalInv', journal' \in [Ops -> SUBSET OpKinds], Undone(o)',
         \A p \in Ops : /\ Passed(p)' <=> Passed(p)
                        /\ Owed(p)' <=> Owed(p),
         \A p \in Ops : p # o => /\ Undone(p)' <=> Undone(p)
                                 /\ Has("COMP_FAILED", p)' <=> Has("COMP_FAILED", p),
         UNCHANGED <<status, cancelReq, runJournal, tries, compTries, sent, due, op,
                     stack, flag, event, outcome, closing, bounds>>
  PROVE  IInv'
<1>1. /\ stack \in Seq(Ops) /\ Len(stack) \in Nat /\ k \in 1..Len(stack)
      /\ \A i \in 1..Len(stack) : stack[i] \in Ops
      /\ o = stack[k]
  <2>1. stack \in Seq(Ops) /\ k \in 0..Len(stack)
    BY DEF IInv, TypeOK
  <2>2. Len(stack) \in Nat /\ \A i \in 1..Len(stack) : stack[i] \in Ops
    BY <2>1, ElementOfSeq
  <2> QED BY <2>1, <2>2 DEF Entry
<1>2. TypeOK'
  <2>1. k' \in 0..Len(stack') /\ pc' \in PCs /\ compFailed' \in BOOLEAN
    BY <1>1 DEF PCs, UndoPCs, IInv, TypeOK, Has
  <2> QED BY <2>1 DEF IInv, TypeOK, bounds
<1>3. StackInv'
  BY StayKeepsStack DEF IInv
<1>4. \A i \in 1..Len(stack) : i > k => stack[i] # o
  BY <1>1 DEF IInv, StackInv
<1>5. UndoInv'
  <2>1. PICK n \in 1..Len(stack) : n = k
    BY <1>1
  <2>2. /\ \A i \in (n + 1)..Len(stack) : Undone(stack[i])
        /\ compFailed <=> \E i \in (n + 1)..Len(stack) : Has("COMP_FAILED", stack[i])
    BY <2>1 DEF IInv, UndoInv, PlaceInv, UndoPCs
  <2>3. stack'[n] = o
    BY <1>1, <2>1
  <2>4. \A i \in (n + 1)..Len(stack') :
           /\ Undone(stack[i])'
           /\ Has("COMP_FAILED", stack[i])' <=> Has("COMP_FAILED", stack[i])
    <3> SUFFICES ASSUME NEW i \in (n + 1)..Len(stack)
                 PROVE  /\ Undone(stack[i])'
                        /\ Has("COMP_FAILED", stack[i])' <=> Has("COMP_FAILED", stack[i])
      OBVIOUS
    <3>1. stack[i] \in Ops /\ stack[i] # o /\ Undone(stack[i])
      BY <1>1, <1>4, <2>1, <2>2
    <3> QED BY <3>1
  <2>5. \A i \in n..Len(stack') : i = n \/ i \in (n + 1)..Len(stack')
    BY <1>1
  <2>6. n \in n..Len(stack') /\ \A i \in (n + 1)..Len(stack') : i \in n..Len(stack')
    BY <1>1
  <2>7. \A i \in n..Len(stack') : Undone(stack[i])'
    BY <2>3, <2>4, <2>5
  <2>8. compFailed' <=> \E i \in n..Len(stack') : Has("COMP_FAILED", stack[i])'
    BY <2>2, <2>3, <2>4, <2>5, <2>6
  <2>9. k' + 1 = n
    BY <1>1, <2>1
  <2> QED BY <2>7, <2>8, <2>9 DEF UndoInv
<1>6. PlaceInv'
  <2>1. outcome \in {"fail", "cancel"} /\ (op <= NOps => ~Passed(op))
    BY DEF IInv, PlaceInv, UndoPCs
  <2>2. (op <= NOps => ~Passed(op))'
    <3>1. \A p \in Ops : ~Passed(p) => ~Passed(p)'
      OBVIOUS
    <3>2. op <= NOps => op \in Ops
      BY DEF IInv, TypeOK
    <3> QED BY <2>1, <3>1, <3>2
  <2> QED BY <2>1, <2>2 DEF PlaceInv, UndoPCs, BodyPCs
<1>7. AttemptInv'
  BY DEF IInv, AttemptInv, AttemptBudget
<1>8. FlagInv' /\ StatusInv'
  <2>1. FlagInv' /\ UNCHANGED <<status, reopened, outcome>>
    BY DEF IInv, FlagInv, CancelledOnlyIfAsked, bounds
  <2> QED BY <2>1, KeepsStatus
<1> QED BY <1>2, <1>3, <1>5, <1>6, <1>7, <1>8 DEF IInv

\* A step that neither writes the journal nor moves in the body or the stack.
LEMMA MoveStep ==
  ASSUME IInv, UNCHANGED <<journal, status, op, stack, outcome, k, compFailed>>,
         TypeOK', PlaceInv', AttemptInv', FlagInv',
         reopened => reopened', ~reopened' /\ status # "RUNNING" => pc' = "down",
         pc' \in UndoPCs \cup {"close", "mark"} => pc \in UndoPCs \cup {"close", "mark"}
  PROVE  IInv'
<1>1. JournalInv'
  BY DEF IInv, JournalInv, OneOutcome, Has, Recorded, DefiningKind, KindsOf,
         Settled, Returned, Errored, Passed, Owed, Undone
<1>2. StackInv'
  BY StayKeepsStack DEF IInv, Passed, Returned, Errored, Owed, Has
<1>3. UndoInv'
  BY DEF IInv, UndoInv, Undone, Has
<1>4. StatusInv'
  BY DEF IInv, StatusInv, Compensated, Passed, Returned, Errored, Owed, Undone, Has
<1> QED BY <1>1, <1>2, <1>3, <1>4 DEF IInv

\* The same, when the step only changes pc and the local attempt number.
LEMMA GotoStep ==
  ASSUME IInv, pc' \in PCs \ {"down"}, attempt' \in 0..MaxAttempts,
         UNCHANGED <<store, due, op, stack, flag, event, outcome, k, compFailed, closing, bounds>>,
         pc # "down", PlaceInv', AttemptInv',
         pc' \in UndoPCs \cup {"close", "mark"} => pc \in UndoPCs \cup {"close", "mark"}
  PROVE  IInv'
<1>1. TypeOK' /\ FlagInv' /\ (~reopened' /\ status # "RUNNING" => pc' = "down") /\ (reopened => reopened')
  BY DEF IInv, TypeOK, FlagInv, CancelledOnlyIfAsked, StatusInv, store, bounds
<1> QED BY <1>1, MoveStep DEF store

-----------------------------------------------------------------------------
(* The invariant is inductive *)

\* A run that has just been created satisfies the invariant.
LEMMA InitEstablishes == Init => IInv
<1> SUFFICES ASSUME Init PROVE IInv
  OBVIOUS
<1>1. TypeOK
  <2>1. stack \in Seq(Ops) /\ k \in 0..Len(stack)
    BY EmptySeq DEF Init
  <2>2. op \in 1..(NOps + 1) /\ attempt \in 0..MaxAttempts /\ sent \in Nat
        /\ crashes \in Nat /\ storeErrors \in Nat
    BY DEF Init
  <2> QED BY <2>1, <2>2 DEF Init, TypeOK, Statuses, PCs, Outcomes
<1>2. JournalInv /\ StackInv
  BY DEF Init, JournalInv, StackInv, OneOutcome, Has, Recorded, DefiningKind, Settled,
         Returned, Errored, Undone
<1>3. PlaceInv /\ AttemptInv /\ UndoInv
  BY DEF Init, PlaceInv, AttemptInv, AttemptBudget, UndoInv, BodyPCs, UndoPCs
<1>4. FlagInv /\ StatusInv
  BY DEF Init, FlagInv, StatusInv, Compensated, CancelledOnlyIfAsked
<1> QED BY <1>1, <1>2, <1>3, <1>4 DEF IInv

\* Every step of the driver inside the workflow body keeps the invariant.
LEMMA BodyKeepsInv == IInv /\ Body => IInv'
<1> SUFFICES ASSUME IInv, Body PROVE IInv'
  OBVIOUS
<1>1. CASE ObserveCancel \/ (WaitIsCancelled /\ flag)
  <2>1. Raise("cancel") /\ cancelReq /\ UNCHANGED <<op, stack, journal>> /\ pc \in BodyPCs
    BY <1>1 DEF ObserveCancel, WaitIsCancelled, Raise, IInv, FlagInv, BodyPCs, store
  <2>2. JournalInv' /\ StackInv'
    BY <2>1, StayKeepsStack DEF IInv, JournalInv, OneOutcome, Has, Recorded, DefiningKind, KindsOf,
         Settled, Returned, Errored, Passed, Owed, Undone
  <2>3. op <= NOps /\ ~Passed(op)
    BY <1>1 DEF ObserveCancel, WaitIsCancelled, IInv, PlaceInv, WorksOn, JournalInv, Passed, Settled, TypeOK
  <2>4. (op <= NOps => ~Passed(op))'
    BY <2>1, <2>3 DEF Passed, Returned, Errored, Has
  <2> QED BY <1>1, <2>1, <2>2, <2>3, <2>4, NotCompleted, RaiseStep
          DEF ObserveCancel, WaitIsCancelled, IInv, TypeOK, store, bounds
<1>14. CASE WaitIsCancelled /\ ~flag
  <2>1. Vanish /\ UNCHANGED <<store, due, closing, bounds>>
    BY <1>14 DEF WaitIsCancelled
  <2>2. /\ ~reopened => Compensated'
        /\ CancelledOnlyIfAsked'
        /\ status = "COMPLETED" => (\A o \in Ops : Passed(o)) /\ ~Raises
    BY <2>1 DEF store, IInv, StatusInv, FlagInv, Compensated, CancelledOnlyIfAsked, Owed, Undone, Has
  <2> QED BY <2>1, <2>2, VanishStep DEF store, bounds, IInv, TypeOK
<1>2. CASE Schedule
  <2>1. PlaceInv' /\ AttemptInv'
    BY <1>2 DEF Schedule, Goto, IInv, PlaceInv, AttemptInv, AttemptBudget, WorksOn, BodyPCs, UndoPCs,
         store, Boundary, Recorded, DefiningKind, Settled, Returned, Errored, Has
  <2>2. attempt' \in 0..MaxAttempts
    BY <1>2 DEF Schedule, Goto, IInv, TypeOK
  <2> QED BY <1>2, <2>1, <2>2, GotoStep DEF Schedule, Goto, PCs, BodyPCs, UndoPCs
<1>15. CASE Scheduled
  <2>1. PICK o \in Ops : o = op
    BY <1>15 DEF Scheduled, IInv, PlaceInv, TypeOK
  <2>2. DefiningKind(o) \in OpKinds \cap KindsOf(o) /\ Append1(DefiningKind(o), o)
    BY <1>15, <2>1 DEF Scheduled, DefiningKind, OpKinds, KindsOf
  <2>3. journal' \in [Ops -> SUBSET OpKinds]
    BY <2>2, AppendFacts DEF IInv
  <2>4. \A p \in Ops : p < o => Passed(p)
    BY <2>1 DEF IInv, StackInv
  <2>5. JournalInv' /\ \A p \in Ops : p # o => (Passed(p)' <=> Passed(p)) /\ (Owed(p)' <=> Owed(p))
    BY <1>15, <2>1, <2>2, <2>4, AppendKeepsJournal DEF IInv, Scheduled, PlaceInv
  <2>6. StackInv'
    BY <1>15, <2>1, <2>5, StayKeepsStack DEF IInv, Scheduled, Goto
  <2>7. TypeOK'
    BY <1>15, <2>3 DEF IInv, Scheduled, Goto, TypeOK, bounds, PCs, BodyPCs
  <2>8. PlaceInv' /\ UndoInv' /\ AttemptInv'
    BY <1>15 DEF IInv, Scheduled, Goto, PlaceInv, UndoInv, AttemptInv, AttemptBudget, BodyPCs, UndoPCs
  <2>9. FlagInv' /\ StatusInv'
    <3>1. ~Passed(o)
      BY <1>15, <2>1 DEF Scheduled, IInv, PlaceInv, JournalInv, Settled, Passed
    <3>2. \A p \in Ops : Passed(p) => Passed(p)'
      BY <2>5, <3>1
    <3>3. FlagInv' /\ UNCHANGED <<status, reopened, outcome>> /\ pc # "down"
      BY <1>15 DEF IInv, Scheduled, Goto, FlagInv, CancelledOnlyIfAsked, bounds
    <3> QED BY <3>2, <3>3, KeepsStatus
  <2> QED BY <2>5, <2>6, <2>7, <2>8, <2>9 DEF IInv
<1>3. CASE RecordValue
  <2>1. PICK o \in Ops : o = op
    BY <1>3 DEF RecordValue, IInv, TypeOK
  <2>2. OpType[o] \in {"value", "register"} /\ DefiningKind(o) \in OpKinds
    BY <1>3, <2>1 DEF RecordValue, Boundary, DefiningKind, OpKinds
  <2> QED BY <1>3, <2>1, <2>2, SettleStep DEF RecordValue, BodyPCs
<1>4. CASE ReplayReturn
  <2>1. PICK o \in Ops : o = op
    BY <1>4 DEF ReplayReturn, IInv, TypeOK
  <2>2. UNCHANGED journal /\ op' = o + 1
    BY <1>4, <2>1 DEF ReplayReturn, store
  <2>3. /\ Passed(o)'
        /\ Owed(o)' <=> Owed(o)
        /\ \A p \in Ops : p # o => (Passed(p)' <=> Passed(p)) /\ (Owed(p)' <=> Owed(p))
    BY <1>4, <2>1, <2>2 DEF ReplayReturn, Passed, Owed, Returned, Errored, Has
  <2>4. stack' = IF Owed(o)' THEN Append(stack, o) ELSE stack
    BY <1>4, <2>1, <2>3 DEF ReplayReturn, Reregistered
  <2>5. /\ StackInv'
        /\ stack' \in Seq(Ops) /\ op' \in 1..(NOps + 1) /\ Len(stack') >= Len(stack)
    BY <2>1, <2>2, <2>3, <2>4, AdvanceKeepsStack DEF IInv
  <2>6. TypeOK'
    <3>1. k' \in 0..Len(stack')
      BY <1>4, <2>5 DEF ReplayReturn, IInv, TypeOK
    <3> QED BY <1>4, <2>5, <3>1 DEF ReplayReturn, IInv, TypeOK, store, bounds
  <2>7. JournalInv'
    BY <2>2 DEF IInv, JournalInv, OneOutcome, Has, Recorded, DefiningKind, KindsOf,
                Settled, Returned, Errored, Passed, Owed, Undone
  <2>8. PlaceInv' /\ UndoInv' /\ AttemptInv'
    BY <1>4 DEF IInv, ReplayReturn, PlaceInv, UndoInv, AttemptInv, AttemptBudget, BodyPCs, UndoPCs, store
  <2>9. FlagInv' /\ StatusInv'
    <3>1. \A p \in Ops : Passed(p) => Passed(p)'
      BY <2>1, <2>3
    <3>2. FlagInv' /\ UNCHANGED <<status, reopened, outcome>> /\ pc # "down"
      BY <1>4 DEF IInv, ReplayReturn, FlagInv, CancelledOnlyIfAsked, store, bounds
    <3> QED BY <3>1, <3>2, KeepsStatus
  <2> QED BY <2>5, <2>6, <2>7, <2>8, <2>9 DEF IInv
<1>5. CASE ReplayError
  <2>1. PICK o \in Ops : o = op
    BY <1>5 DEF ReplayError, IInv, TypeOK
  <2>2. UNCHANGED journal /\ Errored(o)
    BY <1>5, <2>1 DEF ReplayError, store
  <2>3. /\ JournalInv' /\ journal' \in [Ops -> SUBSET OpKinds] /\ Errored(o)'
        /\ \A p \in Ops : (Passed(p)' <=> Passed(p)) /\ (Owed(p)' <=> Owed(p))
    BY <2>2 DEF IInv, TypeOK, JournalInv, OneOutcome, Has, Recorded, DefiningKind, KindsOf,
                Settled, Returned, Errored, Passed, Owed, Undone
  <2>4. OpType[o] \in {"step", "wait"}
    BY <2>2 DEF IInv, JournalInv, Errored, Has, KindsOf
  <2> QED BY <1>5, <2>1, <2>3, <2>4, ThrowStep DEF ReplayError, store, BodyPCs
<1>6. CASE EnterStep
  <2>1. op \in Ops /\ attempt' \in 0..MaxAttempts
    BY <1>6 DEF EnterStep, Unsettled, StepAttempts, IInv, TypeOK, AttemptInv, AttemptBudget
  <2>2. PlaceInv' /\ AttemptInv'
    BY <1>6, <2>1 DEF EnterStep, Unsettled, StepAttempts, IInv, PlaceInv, AttemptInv, AttemptBudget,
         WorksOn, BodyPCs, UndoPCs, store, Recorded, DefiningKind, Settled, Returned, Errored, Has
  <2> QED BY <1>6, <2>1, <2>2, GotoStep DEF EnterStep, Unsettled, PCs, BodyPCs, UndoPCs
<1>7. CASE BackoffOver \/ Attempt
  <2>1. op \in Ops /\ attempt' \in 0..MaxAttempts
    BY <1>7 DEF BackoffOver, Attempt, Goto, IInv, TypeOK, PlaceInv, WorksOn, AttemptInv, AttemptBudget
  <2>2. PlaceInv' /\ AttemptInv'
    BY <1>7, <2>1 DEF BackoffOver, Attempt, Goto, IInv, PlaceInv, AttemptInv, AttemptBudget,
         WorksOn, BodyPCs, UndoPCs, store, Recorded, DefiningKind, Settled, Returned, Errored, Has
  <2> QED BY <1>7, <2>1, <2>2, GotoStep DEF BackoffOver, Attempt, Goto, PCs, BodyPCs, UndoPCs
<1>8. CASE StepReturns
  <2>1. PICK o \in Ops : o = op /\ OpType[o] = "step" /\ Recorded(o) /\ ~Settled(o)
    BY <1>8 DEF StepReturns, IInv, TypeOK, PlaceInv, WorksOn
  <2>2. pc \in BodyPCs /\ "STEP_COMPLETED" \in OpKinds
    BY <1>8 DEF StepReturns, BodyPCs, OpKinds
  <2> QED BY <1>8, <2>1, <2>2, SettleStep DEF StepReturns
<1>9. CASE StepRetries
  <2>1. op \in Ops /\ WorksOn("step") /\ attempt = tries[op] + 1 /\ k = 0
    BY <1>9 DEF StepRetries, IInv, TypeOK, PlaceInv, WorksOn, AttemptInv, BodyPCs
  <2>2. tries' \in [Ops -> Nat] /\ tries'[op] = attempt
        /\ \A p \in Ops : p # op => tries'[p] = tries[p]
    BY <1>9, <2>1 DEF StepRetries, IInv, TypeOK
  <2>3. TypeOK'
    BY <1>9, <2>2 DEF StepRetries, Goto, IInv, TypeOK, PCs, BodyPCs, bounds
  <2>4. AttemptInv'
    BY <1>9, <2>1, <2>2 DEF StepRetries, Goto, ShouldRetry, IInv, TypeOK, AttemptInv, AttemptBudget
  <2>5. PlaceInv'
    BY <1>9, <2>1 DEF IInv, StepRetries, Goto, PlaceInv, WorksOn, BodyPCs, UndoPCs,
         Recorded, DefiningKind, Settled, Returned, Errored, Has
  <2>6. FlagInv' /\ (~reopened => status = "RUNNING") /\ reopened' = reopened
    BY <1>9 DEF StepRetries, Goto, IInv, FlagInv, CancelledOnlyIfAsked, StatusInv, bounds
  <2> QED BY <1>9, <2>3, <2>4, <2>5, <2>6, MoveStep DEF StepRetries, Goto, UndoPCs
<1>10. CASE StepFails \/ WaitTimesOut
  <2>1. PICK o \in Ops : o = op /\ OpType[o] \in {"step", "wait"} /\ Recorded(o) /\ ~Settled(o)
                         /\ (OpType[o] = "step" <=> StepFails)
    BY <1>10 DEF StepFails, WaitTimesOut, IInv, TypeOK, PlaceInv, WorksOn
  <2>2. PICK kind \in OpKinds : /\ Append1(kind, o) /\ kind \in KindsOf(o)
                                /\ kind \in {"STEP_FAILED", "WAIT_TIMED_OUT"}
    BY <1>10, <2>1 DEF StepFails, WaitTimesOut, OpKinds, KindsOf
  <2>3. \A p \in Ops : p < o => Passed(p)
    BY <2>1 DEF IInv, StackInv
  <2>4. JournalInv' /\ \A p \in Ops : p # o => (Passed(p)' <=> Passed(p)) /\ (Owed(p)' <=> Owed(p))
    BY <2>1, <2>2, <2>3, AppendKeepsJournal DEF IInv
  <2>5. journal' \in [Ops -> SUBSET OpKinds] /\ Errored(o)'
    BY <2>2, AppendFacts DEF IInv, Errored, OpKinds
  <2>6. pc \in BodyPCs
    BY <1>10 DEF StepFails, WaitTimesOut, BodyPCs
  <2>7. ~Passed(o)
    BY <2>1 DEF Settled, Passed
  <2> QED BY <1>10, <2>1, <2>4, <2>5, <2>6, <2>7, ThrowStep DEF StepFails, WaitTimesOut
<1>11. CASE TimerFires \/ Consume
  <2>1. PICK o \in Ops : o = op /\ Recorded(o) /\ ~Settled(o)
                         /\ OpType[o] = IF TimerFires THEN "sleep" ELSE "wait"
    BY <1>11 DEF TimerFires, Consume, Unsettled, IInv, TypeOK, PlaceInv, WorksOn
  <2>2. pc \in BodyPCs /\ {"TIMER_FIRED", "EVENT_CONSUMED"} \subseteq OpKinds
    BY <1>11 DEF TimerFires, Consume, Unsettled, BodyPCs, OpKinds
  <2> QED BY <1>11, <2>1, <2>2, SettleStep DEF TimerFires, Consume
<1>12. CASE EnterTimer \/ EnterWait \/ ScanFindsNothing \/ WaitGoesOn \/ WaitWakes
  <2>1. PlaceInv' /\ AttemptInv'
    BY <1>12 DEF EnterTimer, EnterWait, ScanFindsNothing, WaitGoesOn, WaitWakes, Unsettled, Goto,
         IInv, PlaceInv, AttemptInv, AttemptBudget, WorksOn, BodyPCs, UndoPCs, store,
         Recorded, DefiningKind, Settled, Returned, Errored, Has
  <2>2. attempt' \in 0..MaxAttempts
    BY <1>12 DEF EnterTimer, EnterWait, ScanFindsNothing, WaitGoesOn, WaitWakes, Goto, IInv, TypeOK
  <2> QED BY <1>12, <2>1, <2>2, GotoStep DEF EnterTimer, EnterWait, ScanFindsNothing, WaitGoesOn, WaitWakes,
             Unsettled, Goto, PCs, BodyPCs, UndoPCs
<1>13. CASE BodyEnds
  <2>1. UNCHANGED <<store, due, op, stack, closing, bounds>> /\ pc = "body" /\ op = NOps + 1
    BY <1>13 DEF BodyEnds, Raise
  <2>2. /\ JournalInv' /\ StackInv' /\ journal' \in [Ops -> SUBSET OpKinds]
        /\ (op <= NOps => ~Passed(op))'
    <3>1. JournalInv' /\ journal' \in [Ops -> SUBSET OpKinds]
      BY <2>1 DEF IInv, JournalInv, OneOutcome, Has, Recorded, DefiningKind, KindsOf,
           Settled, Returned, Errored, Passed, Owed, Undone, store, TypeOK
    <3>2. StackInv'
      BY <2>1, StayKeepsStack DEF IInv, Passed, Returned, Errored, Owed, Has, store
    <3>3. ~(op' <= NOps)
      BY <2>1
    <3> QED BY <3>1, <3>2, <3>3
  <2>3. CASE Raises
    <3>1. status # "COMPLETED"
      BY <2>3 DEF IInv, StatusInv
    <3> QED BY <1>13, <2>1, <2>2, <2>3, <3>1, RaiseStep DEF BodyEnds, BodyPCs, store, bounds, IInv, TypeOK
  <2>4. CASE ~Raises
    <3>1. /\ pc' = "close" /\ outcome' = "return" /\ k' = 0
          /\ UNCHANGED <<attempt, flag, event, k, compFailed>>
      BY <1>13, <2>4 DEF BodyEnds, IInv, PlaceInv, BodyPCs
    <3>2. TypeOK'
      BY <2>1, <3>1 DEF IInv, TypeOK, PCs, Outcomes, store, bounds
    <3>3. PlaceInv' /\ UndoInv' /\ AttemptInv'
      BY <2>1, <2>4, <3>1 DEF IInv, PlaceInv, UndoInv, AttemptInv, AttemptBudget, BodyPCs, UndoPCs, store
    <3>4. FlagInv' /\ StatusInv'
      BY <2>1, <2>4, <3>1 DEF IInv, FlagInv, StatusInv, Compensated, CancelledOnlyIfAsked, store, bounds,
         Passed, Returned, Errored, Owed, Undone, Has
    <3> QED BY <2>2, <3>2, <3>3, <3>4 DEF IInv
  <2> QED BY <2>3, <2>4
<1> QED BY <1>1, <1>2, <1>3, <1>4, <1>5, <1>6, <1>7, <1>8, <1>9, <1>10, <1>11, <1>12, <1>13, <1>14, <1>15 DEF Body

\* Every step of _run_compensations keeps the invariant.
LEMMA SagaKeepsInv == IInv /\ Saga => IInv'
<1> SUFFICES ASSUME IInv, Saga PROVE IInv'
  OBVIOUS
<1> DEFINE JournalSame ==
      /\ JournalInv' /\ journal' \in [Ops -> SUBSET OpKinds]
      /\ \A p \in Ops : /\ Passed(p)' <=> Passed(p)
                        /\ Owed(p)' <=> Owed(p)
                        /\ Undone(p)' <=> Undone(p)
                        /\ Has("COMP_FAILED", p)' <=> Has("COMP_FAILED", p)
<1>0. k > 0 => Entry \in Ops
  <2>1. stack \in Seq(Ops) /\ k \in 0..Len(stack)
    BY DEF IInv, TypeOK
  <2> QED BY <2>1, ElementOfSeq DEF Entry
<1>1. CASE UndoSkips
  <2>1. PICK o \in Ops : o = Entry
    BY <1>0, <1>1 DEF UndoSkips
  <2>2. JournalSame
    BY <1>1 DEF UndoSkips, IInv, JournalInv, OneOutcome, Has, Recorded, DefiningKind, KindsOf,
         Settled, Returned, Errored, Passed, Owed, Undone, store, TypeOK
  <2>3. Undone(o)' /\ (Has("COMP_FAILED", o)' <=> ~Has("COMP_COMPLETED", o))
    BY <1>1, <2>1, <2>2 DEF UndoSkips, IInv, JournalInv, OneOutcome, Undone
  <2>4. compFailed' = (compFailed \/ Has("COMP_FAILED", o)')
    BY <1>1, <2>1, <2>3 DEF UndoSkips
  <2>5. attempt' \in 0..MaxAttempts
    BY <1>1 DEF UndoSkips, IInv, TypeOK
  <2> QED BY <1>1, <2>1, <2>2, <2>3, <2>4, <2>5, VisitStep DEF UndoSkips, store
<1>2. CASE EnterUndo \/ UndoBackoffOver
  <2>1. k > 0 /\ Entry \in Ops
    BY <1>0, <1>2 DEF EnterUndo, UndoBackoffOver, IInv, PlaceInv
  <2>2. attempt' \in 0..MaxAttempts
    <3>1. compTries[Entry] \in Nat /\ compTries[Entry] < MaxAttempts
      BY <2>1 DEF IInv, TypeOK, AttemptInv, AttemptBudget
    <3>2. attempt' \in {compTries[Entry], compTries[Entry] + 1}
      BY <1>2 DEF EnterUndo, UndoBackoffOver, IInv, AttemptInv
    <3> QED BY <3>1, <3>2
  <2>3. Entry' = Entry /\ (Undone(Entry)' <=> Undone(Entry))
    BY <1>2 DEF EnterUndo, UndoBackoffOver, Entry, Undone, Has, store
  <2>4. PlaceInv'
    BY <1>2, <2>1, <2>3 DEF EnterUndo, UndoBackoffOver, IInv, PlaceInv, BodyPCs, UndoPCs, store,
         Passed, Returned, Errored, Has
  <2>5. AttemptInv'
    BY <1>2, <2>1, <2>3 DEF EnterUndo, UndoBackoffOver, IInv, TypeOK, AttemptInv, AttemptBudget, store
  <2> QED BY <1>2, <2>2, <2>4, <2>5, GotoStep DEF EnterUndo, UndoBackoffOver, PCs, UndoPCs
<1>3. CASE UndoReturns \/ UndoFails
  <2>1. PICK o \in Ops : o = Entry /\ ~Undone(o) /\ k > 0 /\ pc = "undoInvoke"
    BY <1>0, <1>3 DEF UndoReturns, UndoFails, IInv, PlaceInv
  <2>2. Owed(o) /\ o < op
    <3>1. stack \in Seq(Ops) /\ k \in 1..Len(stack)
      BY <2>1 DEF IInv, TypeOK
    <3> QED BY <2>1, <3>1 DEF IInv, StackInv, Entry
  <2>3. PICK kind \in {"COMP_COMPLETED", "COMP_FAILED"} :
           Append1(kind, o) /\ (kind = "COMP_FAILED" <=> ~UndoReturns)
    BY <1>3, <2>1 DEF UndoReturns, UndoFails
  <2>4. kind \in KindsOf(o) \cap OpKinds
    <3>1. OpType[o] \in {"step", "register"}
      BY <2>2 DEF Owed, IInv, JournalInv, KindsOf, Has
    <3> QED BY <3>1 DEF KindsOf, OpKinds
  <2>5. \A p \in Ops : p < o => Passed(p)
    BY <2>2 DEF IInv, StackInv, TypeOK
  <2>6. JournalInv' /\ journal' \in [Ops -> SUBSET OpKinds]
    BY <2>1, <2>2, <2>3, <2>4, <2>5, AppendKeepsJournal, AppendFacts DEF IInv
  <2>7. \A p \in Ops, x \in OpKinds : Has(x, p)' <=> (Has(x, p) \/ (p = o /\ x = kind))
    BY <2>3, <2>4, AppendFacts DEF IInv
  <2>8. \A p \in Ops : /\ Passed(p)' <=> Passed(p)
                       /\ Owed(p)' <=> Owed(p)
    BY <2>7 DEF Passed, Returned, Errored, Owed, OpKinds
  <2>9. \A p \in Ops : p # o => /\ Undone(p)' <=> Undone(p)
                                /\ Has("COMP_FAILED", p)' <=> Has("COMP_FAILED", p)
    BY <2>7 DEF Undone, OpKinds
  <2>10. Undone(o)' /\ (Has("COMP_FAILED", o)' <=> ~UndoReturns)
    BY <2>1, <2>3, <2>7 DEF Undone, OpKinds
  <2>11. compFailed' = (compFailed \/ Has("COMP_FAILED", o)')
    BY <1>3, <2>10 DEF UndoReturns, UndoFails, IInv, TypeOK
  <2>12. attempt' \in 0..MaxAttempts
    BY <1>3 DEF UndoReturns, UndoFails, IInv, TypeOK
  <2> QED BY <1>3, <2>1, <2>6, <2>8, <2>9, <2>10, <2>11, <2>12, VisitStep DEF UndoReturns, UndoFails
<1>4. CASE UndoRetries
  <2>1. PICK o \in Ops : o = Entry /\ k > 0 /\ attempt = compTries[o] + 1
    BY <1>0, <1>4 DEF UndoRetries, IInv, PlaceInv, AttemptInv
  <2>2. compTries' \in [Ops -> Nat] /\ compTries'[o] = attempt
        /\ \A p \in Ops : p # o => compTries'[p] = compTries[p]
    BY <1>4, <2>1 DEF UndoRetries, IInv, TypeOK
  <2>3. TypeOK'
    BY <1>4, <2>2 DEF UndoRetries, Goto, IInv, TypeOK, PCs, UndoPCs, bounds
  <2>4. Entry' = o
    BY <1>4, <2>1 DEF UndoRetries, Goto, Entry
  <2>5. AttemptInv'
    BY <1>4, <2>1, <2>2, <2>4 DEF UndoRetries, Goto, ShouldRetry, IInv, TypeOK, AttemptInv, AttemptBudget
  <2>6. PlaceInv'
    BY <1>4 DEF UndoRetries, Goto, IInv, PlaceInv, BodyPCs, UndoPCs, Passed, Returned, Errored, Undone, Has, Entry
  <2>7. FlagInv' /\ (~reopened => status = "RUNNING") /\ reopened' = reopened
    BY <1>4 DEF UndoRetries, Goto, IInv, FlagInv, CancelledOnlyIfAsked, StatusInv, bounds
  <2> QED BY <1>4, <2>3, <2>5, <2>6, <2>7, MoveStep DEF UndoRetries, Goto, UndoPCs
<1>5. CASE UndoDone
  <2>1. PlaceInv' /\ AttemptInv' /\ attempt' \in 0..MaxAttempts
    BY <1>5 DEF UndoDone, Goto, IInv, TypeOK, PlaceInv, AttemptInv, AttemptBudget, BodyPCs, UndoPCs, store,
         Passed, Returned, Errored, Has
  <2> QED BY <1>5, <2>1, GotoStep DEF UndoDone, Goto, PCs, UndoPCs
<1> QED BY <1>1, <1>2, <1>3, <1>4, <1>5 DEF Saga

\* Whichever driver marks the run leaves it compensated.
LEMMA MarkCompensates ==
  ASSUME IInv, MarkStatus
  PROVE  /\ Compensated'
         /\ status' \in Statuses
         /\ status' = "CANCELLED" => cancelReq
         /\ status' = "COMPLETED" => (\A o \in Ops : Passed(o)) /\ ~Raises
         /\ status = "COMPLETED" => status' = "COMPLETED"
<1>1. outcome # "none" /\ k = 0 /\ (outcome = "return" => op = NOps + 1)
  BY DEF MarkStatus, IInv, PlaceInv, UndoPCs, StatusInv
<1>2. /\ \A p \in Ops : p < op /\ Owed(p) => \E i \in 1..Len(stack) : stack[i] = p
      /\ \A i \in 1..Len(stack) : stack[i] \in Ops
  BY ElementOfSeq DEF IInv, TypeOK, StackInv
<1>3. \A p \in Ops : Owed(p) => p < op
  <2> SUFFICES ASSUME NEW p \in Ops, Owed(p), ~(p < op) PROVE FALSE
    OBVIOUS
  <2>1. outcome # "return" /\ op \in Ops /\ ~Passed(op)
    <3>1. pc = "mark" /\ op \in 1..(NOps + 1)
      BY DEF MarkStatus, IInv, TypeOK
    <3>2. outcome # "return" /\ op \in Ops
      BY <1>1, <3>1 DEF Ops, ConstantsOK
    <3> QED BY <3>1, <3>2 DEF IInv, PlaceInv, Ops
  <2>2. Passed(p) /\ Recorded(p)
    BY DEF IInv, JournalInv, Owed, Passed, Settled, Returned
  <2>3. op < p
    BY <2>1, <2>2 DEF IInv, TypeOK
  <2> QED BY <2>1, <2>2, <2>3 DEF IInv, JournalInv
<1>4. outcome # "return" =>
        /\ \A p \in Ops : Owed(p) => Undone(p)
        /\ compFailed => \E p \in Ops : Has("COMP_FAILED", p)
        /\ ~compFailed => \A p \in Ops : Owed(p) => ~Has("COMP_FAILED", p)
  <2> SUFFICES ASSUME outcome # "return"
               PROVE  /\ \A p \in Ops : Owed(p) => Undone(p)
                      /\ compFailed => \E p \in Ops : Has("COMP_FAILED", p)
                      /\ ~compFailed => \A p \in Ops : Owed(p) => ~Has("COMP_FAILED", p)
    OBVIOUS
  <2>1. /\ \A i \in 1..Len(stack) : Undone(stack[i])
        /\ compFailed <=> \E i \in 1..Len(stack) : Has("COMP_FAILED", stack[i])
    BY <1>1 DEF MarkStatus, IInv, UndoInv
  <2>2. \A p \in Ops : Owed(p) => \E i \in 1..Len(stack) : stack[i] = p
    BY <1>2, <1>3
  <2> QED BY <1>2, <2>1, <2>2
<1>5. UNCHANGED <<cancelReq, journal>> /\ Vanish
  BY DEF MarkStatus
<1>6. /\ status' \in Statuses
      /\ status' \in {"FAILED", "CANCELLED"} => outcome # "return" /\ ~compFailed
      /\ status' = "COMPENSATION_FAILED" => outcome # "return" /\ compFailed
      /\ status' = "CANCELLED" => outcome = "cancel"
      /\ status' = "COMPLETED" => outcome = "return"
  BY <1>1 DEF MarkStatus, Statuses, Outcomes, IInv, TypeOK
<1>7. Compensated'
  BY <1>4, <1>5, <1>6 DEF Compensated, Owed, Undone, Has
<1>8. status' = "CANCELLED" => cancelReq
  BY <1>6 DEF IInv, FlagInv
<1>9. status' = "COMPLETED" => (\A o \in Ops : Passed(o)) /\ ~Raises
  <2> SUFFICES ASSUME status' = "COMPLETED" PROVE (\A o \in Ops : Passed(o)) /\ ~Raises
    OBVIOUS
  <2>1. outcome = "return" /\ op = NOps + 1
    BY <1>1, <1>6
  <2> QED BY <2>1 DEF IInv, StackInv, PlaceInv
<1>10. status = "COMPLETED" => status' = "COMPLETED"
  BY <1>1, <1>6 DEF IInv, StatusInv, MarkStatus
<1> QED BY <1>6, <1>7, <1>8, <1>9, <1>10

\* So does every other step: becoming the driver, closing the journal, marking
\* the status, and everything the environment does.
LEMMA OtherStepsKeepInv ==
  ASSUME IInv, Ensure \/ EnsureStale \/ JournalStart \/ JournalClose \/ MarkStatus \/ Environment
  PROVE  IInv'
<1>1. CASE Ensure \/ EnsureStale
  <2>1. PICK request \in {FALSE, cancelReq} : Spawn(request)
    BY <1>1 DEF Ensure, EnsureStale, IInv, TypeOK
  <2>2. staleStarts' \in Nat /\ reopened' \in BOOLEAN /\ (reopened => reopened')
    <3>1. CASE Ensure
      BY <3>1 DEF Ensure, IInv, TypeOK
    <3>2. CASE EnsureStale
      BY <3>2 DEF EnsureStale, IInv, TypeOK
    <3> QED BY <1>1, <3>1, <3>2
  <2>3. ~reopened' => status = "RUNNING"
    BY <1>1 DEF Ensure, EnsureStale
  <2>4. TypeOK' /\ FlagInv'
    <3>1. /\ pc' = "start" /\ flag' \in BOOLEAN /\ event' \in BOOLEAN
          /\ flag' => event'
          /\ event' => cancelReq
          /\ UNCHANGED <<status, cancelReq, journal, runJournal, tries, compTries, sent, due, op, attempt,
                        stack, outcome, k, compFailed, closing, crashes, storeErrors>>
      <4>1. cancelReq \in BOOLEAN /\ request \in BOOLEAN /\ (request => cancelReq)
        <5>1. cancelReq \in BOOLEAN
          BY DEF IInv, TypeOK
        <5>2. CASE request = FALSE
          BY <5>1, <5>2
        <5>3. CASE request = cancelReq
          BY <5>1, <5>3
        <5> QED BY <5>2, <5>3
      <4>2. pc' = "start" /\ flag' = request /\ event' \in {request, cancelReq}
        BY <2>1 DEF Spawn
      <4>3. flag' \in BOOLEAN /\ event' \in BOOLEAN /\ (flag' => event') /\ (event' => cancelReq)
        BY <4>1, <4>2
      <4>4. UNCHANGED <<status, cancelReq, journal, runJournal, tries, compTries, sent, due, op, attempt,
                        stack, outcome, k, compFailed, closing, crashes, storeErrors>>
        BY <2>1 DEF Spawn, store
      <4> QED BY <4>2, <4>3, <4>4
    <3> QED BY <2>2, <3>1 DEF IInv, TypeOK, FlagInv, CancelledOnlyIfAsked, PCs
  <2>5. PlaceInv' /\ AttemptInv'
    BY <2>1 DEF Spawn, IInv, PlaceInv, AttemptInv, AttemptBudget, BodyPCs, UndoPCs, store
  <2> QED BY <2>1, <2>2, <2>3, <2>4, <2>5, MoveStep DEF Spawn, store, UndoPCs
<1>2. CASE JournalStart \/ JournalClose
  <2>1. TypeOK'
    BY <1>2 DEF JournalStart, JournalClose, ClosingKind, Goto, IInv, TypeOK, PlaceInv, RunKinds, Outcomes, PCs, BodyPCs, bounds
  <2>2. FlagInv' /\ (~reopened => status = "RUNNING") /\ reopened' = reopened
    BY <1>2 DEF JournalStart, JournalClose, Goto, IInv, FlagInv, StatusInv, CancelledOnlyIfAsked, bounds
  <2>3. PlaceInv' /\ AttemptInv'
    BY <1>2 DEF JournalStart, JournalClose, Goto, IInv, PlaceInv, AttemptInv, AttemptBudget, BodyPCs, UndoPCs,
         Passed, Returned, Errored, Has
  <2> QED BY <1>2, <2>1, <2>2, <2>3, MoveStep DEF JournalStart, JournalClose, Goto, UndoPCs
<1>3. CASE MarkStatus
  <2>1. CancelledOnlyIfAsked'
    BY <1>3, MarkCompensates DEF MarkStatus, CancelledOnlyIfAsked
  <2> QED BY <1>3, <2>1, MarkCompensates, VanishStep DEF MarkStatus, IInv, TypeOK, bounds
<1>4. CASE Signal \/ Cancel \/ Notice \/ Restart \/ \E o \in Ops : TimePasses(o)
  <2>1. UNCHANGED <<status, journal, op, attempt, stack, outcome, k, compFailed, pc, tries, compTries,
                    reopened, staleStarts>>
    BY <1>4 DEF Signal, Cancel, Notice, Restart, TimePasses, store, driver, bounds
  <2>2. TypeOK'
    <3>1. sent' \in Nat /\ cancelReq' \in BOOLEAN /\ flag' \in BOOLEAN /\ event' \in BOOLEAN
          /\ closing' \in BOOLEAN /\ due' \subseteq Ops /\ UNCHANGED <<runJournal, crashes, storeErrors>>
      <4>1. CASE Signal
        BY <4>1 DEF Signal, driver, bounds, IInv, TypeOK
      <4>2. CASE Cancel
        BY <4>2 DEF Cancel, driver, bounds, IInv, TypeOK
      <4>3. CASE Notice
        BY <4>3 DEF Notice, store, bounds, IInv, TypeOK
      <4>4. CASE Restart
        BY <4>4 DEF Restart, store, bounds, IInv, TypeOK
      <4>5. CASE \E o \in Ops : TimePasses(o)
        BY <4>5 DEF TimePasses, store, driver, bounds, IInv, TypeOK
      <4> QED BY <1>4, <4>1, <4>2, <4>3, <4>4, <4>5
    <3> QED BY <2>1, <3>1 DEF IInv, TypeOK
  <2>3. FlagInv'
    <3>1. \/ UNCHANGED <<flag, event, cancelReq>>
          \/ cancelReq' = TRUE /\ UNCHANGED <<flag, event>>
          \/ cancelReq /\ cancelReq' = cancelReq /\ pc # "down" /\ event' = TRUE
      BY <1>4 DEF Signal, Cancel, Notice, Restart, TimePasses, store, driver
    <3>2. /\ flag => event
          /\ event => cancelReq /\ pc # "down"
          /\ outcome = "cancel" => cancelReq
          /\ status = "CANCELLED" => cancelReq
      BY DEF IInv, FlagInv, CancelledOnlyIfAsked
    <3>3. /\ flag' => event'
          /\ event' => cancelReq' /\ pc # "down"
          /\ cancelReq => cancelReq'
      BY <3>1, <3>2
    <3> QED BY <2>1, <3>2, <3>3 DEF FlagInv, CancelledOnlyIfAsked
  <2>4. PlaceInv' /\ AttemptInv'
    <3>1. PlaceInv'
      BY <2>1 DEF IInv, PlaceInv, WorksOn, Entry, Recorded, DefiningKind, Settled, Returned, Errored,
           Passed, Undone, Has
    <3>2. AttemptInv'
      BY <2>1 DEF IInv, AttemptInv, AttemptBudget, Entry
    <3> QED BY <3>1, <3>2
  <2>5. ~reopened /\ status # "RUNNING" => pc' = "down"
    BY <2>1 DEF IInv, StatusInv
  <2> QED BY <2>1, <2>2, <2>3, <2>4, <2>5, MoveStep
<1>5. CASE Crash \/ Shutdown \/ StoreError
  <2>1. /\ UNCHANGED <<store, due, reopened, staleStarts>>
        /\ closing' \in BOOLEAN /\ crashes' \in Nat /\ storeErrors' \in Nat
    <3>1. CASE Crash
      <4>1. closing' = FALSE /\ crashes' = crashes + 1 /\ storeErrors' = storeErrors
            /\ UNCHANGED <<store, due, reopened, staleStarts>>
        BY <3>1 DEF Crash
      <4>2. crashes \in Nat /\ storeErrors \in Nat
        BY DEF IInv, TypeOK
      <4>3. crashes + 1 \in Nat
        BY <4>2
      <4> QED BY <4>1, <4>2, <4>3
    <3>2. CASE Shutdown
      BY <3>2 DEF Shutdown, IInv, TypeOK
    <3>3. CASE StoreError
      BY <3>3 DEF StoreError, IInv, TypeOK
    <3> QED BY <1>5, <3>1, <3>2, <3>3
  <2>2. \/ Vanish
        \/ Raise("cancel") /\ TakenForCancel /\ Suspended
        \/ Raise("fail") /\ AwaitsStore
    BY <1>5 DEF Crash, Shutdown, StoreError
  <2>3. CASE Vanish
    <3>1. /\ ~reopened => Compensated'
          /\ CancelledOnlyIfAsked'
          /\ status = "COMPLETED" => (\A o \in Ops : Passed(o)) /\ ~Raises
      BY <2>1 DEF store, IInv, StatusInv, FlagInv, Compensated, CancelledOnlyIfAsked, Owed, Undone, Has
    <3> QED BY <2>1, <2>3, <3>1, VanishStep DEF store, IInv, TypeOK
  <2>4. CASE (Raise("cancel") /\ TakenForCancel /\ Suspended) \/ (Raise("fail") /\ AwaitsStore)
    <3>1. pc \in BodyPCs /\ (Raise("cancel") /\ TakenForCancel => cancelReq)
      BY <2>4 DEF TakenForCancel, AwaitsStore, Unsettled, BodyPCs, IInv, FlagInv
    <3>2. op <= NOps /\ ~Passed(op)
      BY <2>4, <3>1 DEF AwaitsStore, Suspended, Unsettled, BodyPCs, IInv, PlaceInv, WorksOn, JournalInv,
           Passed, Settled, TypeOK
    <3>3. UNCHANGED <<op, stack, journal>>
      BY <2>1, <2>4 DEF Raise, store
    <3>4. (op <= NOps => ~Passed(op))'
      BY <3>2, <3>3 DEF Passed, Returned, Errored, Has
    <3>5. JournalInv' /\ journal' \in [Ops -> SUBSET OpKinds]
      BY <3>3 DEF IInv, TypeOK, JournalInv, OneOutcome, Has, Recorded, DefiningKind, KindsOf,
           Settled, Returned, Errored, Passed, Owed, Undone
    <3>6. StackInv'
      BY <3>3, StayKeepsStack DEF IInv, Passed, Returned, Errored, Owed, Has
    <3>7. status # "COMPLETED"
      BY <3>2, NotCompleted
    <3> QED BY <2>1, <2>4, <3>1, <3>4, <3>5, <3>6, <3>7, RaiseStep DEF store
  <2> QED BY <2>2, <2>3, <2>4
<1> QED BY <1>1, <1>2, <1>3, <1>4, <1>5 DEF Environment

\* The invariant depends on the variables of the specification only.
LEMMA StutterKeepsInv == IInv /\ UNCHANGED vars => IInv'
<1> SUFFICES ASSUME IInv, UNCHANGED vars PROVE IInv'
  OBVIOUS
<1>1. UNCHANGED <<status, cancelReq, journal, runJournal, tries, compTries, sent, due, pc, op,
                  attempt, stack, flag, event, outcome, k, compFailed, closing, reopened, crashes, storeErrors,
                  staleStarts>>
  BY DEF vars, store, driver, bounds
<1>2. TypeOK' /\ FlagInv' /\ (~reopened' /\ status # "RUNNING" => pc' = "down") /\ (reopened => reopened')
  BY <1>1 DEF IInv, TypeOK, FlagInv, CancelledOnlyIfAsked, StatusInv
<1>3. PlaceInv' /\ AttemptInv'
  BY <1>1 DEF IInv, PlaceInv, AttemptInv, AttemptBudget, WorksOn, Entry, Recorded, DefiningKind,
       Settled, Returned, Errored, Passed, Undone, Has
<1> QED BY <1>1, <1>2, <1>3, MoveStep

\* IInv is an inductive invariant of the engine: no interleaving of a driver
\* with crashes, shutdowns, store errors, cancellation and time breaks it.
THEOREM InductiveInvariant == Spec => []IInv
<1>1. Init => IInv
  BY InitEstablishes
<1>2. IInv /\ [Next]_vars => IInv'
  BY BodyKeepsInv, SagaKeepsInv, OtherStepsKeepInv, StutterKeepsInv DEF Next, Drive
<1> QED BY <1>1, <1>2, PTL DEF Spec

-----------------------------------------------------------------------------
(* What follows from it *)

\* Every variable stays in its domain and no local attempt number passes
\* max_attempts, for every body and every bound.
THEOREM TypeCorrect == Spec => []TypeOK
BY InductiveInvariant, PTL DEF IInv

\* Attempt counts survive crashes: the retry budget is never exceeded.
THEOREM AttemptsBounded == Spec => []AttemptBudget
<1>1. IInv => AttemptBudget
  BY DEF IInv, AttemptInv
<1> QED BY <1>1, InductiveInvariant, PTL

\* No settled step and no finished compensation is executed again.
THEOREM ReplayNeverReexecutes == Spec => []FinishedNeverReruns
<1>1. IInv => FinishedNeverReruns
  <2> SUFFICES ASSUME IInv PROVE FinishedNeverReruns
    OBVIOUS
  <2>1. pc = "invoke" => ~Settled(op) /\ \A p \in 1..(op - 1) : Passed(p)
    BY DEF IInv, TypeOK, PlaceInv, WorksOn, StackInv
  <2>2. pc = "undoInvoke" => ~Has("COMP_COMPLETED", Entry) /\ ~Has("COMP_FAILED", Entry)
    BY DEF IInv, PlaceInv, Undone
  <2> QED BY <2>1, <2>2 DEF FinishedNeverReruns
<1> QED BY <1>1, InductiveInvariant, PTL

\* Compensations run in reverse order of the operations they undo.
THEOREM CompensationsReverse == Spec => []UndoneInReverse
<1>1. IInv => UndoneInReverse
  <2> SUFFICES ASSUME IInv, pc = "undoInvoke", NEW p \in Ops, p > Entry, Owed(p)
               PROVE  Undone(p)
    BY DEF UndoneInReverse
  <2>1. stack \in Seq(Ops) /\ Len(stack) \in Nat /\ k \in 1..Len(stack)
    BY DEF IInv, TypeOK, PlaceInv
  <2>2. outcome \in {"fail", "cancel"} /\ (op <= NOps => ~Passed(op)) /\ op \in 1..(NOps + 1)
    BY DEF IInv, TypeOK, PlaceInv, UndoPCs
  <2>3. Passed(p) /\ Recorded(p)
    BY DEF IInv, JournalInv, Owed, Passed, Settled, Returned
  <2>4. p < op
    BY <2>2, <2>3 DEF IInv, JournalInv
  <2>5. PICK i \in 1..Len(stack) : stack[i] = p
    BY <2>4 DEF IInv, StackInv
  <2>6. i > k
    <3>1. \A j \in 1..Len(stack) : j < k => stack[j] < stack[k]
      BY <2>1 DEF IInv, StackInv
    <3>2. stack[k] \in Ops
      BY <2>1, ElementOfSeq
    <3> QED BY <2>1, <2>5, <3>1, <3>2 DEF Entry
  <2> QED BY <2>1, <2>2, <2>5, <2>6 DEF IInv, UndoInv, UndoPCs
<1> QED BY <1>1, InductiveInvariant, PTL

\* Whichever driver marks the run FAILED or CANCELLED has undone everything
\* that registered a compensation (COMPENSATION_FAILED: all that could be
\* undone), and so it stays until a stale record reopens the run.
THEOREM SagaIsComplete == Spec => SagaComplete
<1> DEFINE Kept == MarkStatus \/ (Compensated /\ ~reopened') => Compensated'
<1>1. IInv /\ IInv' /\ [Next]_vars => [Kept]_vars
  BY MarkCompensates DEF IInv, StatusInv
<1> QED BY <1>1, InductiveInvariant, PTL DEF Spec, SagaComplete

\* The journal never holds two outcomes of one operation.
THEOREM OutcomeIsUnique == Spec => []OneOutcome
<1>1. IInv => OneOutcome
  BY DEF IInv, JournalInv
<1> QED BY <1>1, InductiveInvariant, PTL

\* A crash or shutdown never turns into a cancellation by itself.
THEOREM CancelledWasAsked == Spec => []CancelledOnlyIfAsked
<1>1. IInv => CancelledOnlyIfAsked
  BY DEF IInv, FlagInv
<1> QED BY <1>1, InductiveInvariant, PTL

\* A COMPLETED run stays COMPLETED, whatever stale record, cancel request,
\* shutdown or store error meets it: a driver that reopens it only replays.
THEOREM CompletedStays == Spec => CompletedIsFinal
<1> DEFINE Stays == status = "COMPLETED" => status' = "COMPLETED"
<1>1. IInv /\ [Next]_vars => Stays
  <2>1. ASSUME UNCHANGED status PROVE Stays
    BY <2>1
  <2>2. ASSUME IInv, MarkStatus PROVE Stays
    BY <2>2, MarkCompensates
  <2>3. Body \/ Saga \/ UNCHANGED vars => UNCHANGED status
    BY DEF Body, ObserveCancel, WaitIsCancelled, Schedule, Scheduled, RecordValue, ReplayReturn, ReplayError,
         EnterStep, BackoffOver, Attempt, StepReturns, StepRetries, StepFails, EnterTimer, TimerFires,
         EnterWait, Consume, ScanFindsNothing, WaitGoesOn, WaitWakes, WaitTimesOut, BodyEnds,
         Saga, UndoSkips, EnterUndo, UndoBackoffOver, UndoReturns, UndoRetries, UndoFails, UndoDone,
         store, vars
  <2>4. Ensure \/ EnsureStale \/ JournalStart \/ JournalClose \/ Environment => UNCHANGED status
    BY DEF Ensure, EnsureStale, Spawn, JournalStart, JournalClose, Environment, Signal, Cancel, Notice,
         Crash, Shutdown, Restart, StoreError, TimePasses, store
  <2> QED BY <2>1, <2>2, <2>3, <2>4 DEF Next, Drive
<1>2. IInv /\ [Next]_vars => [Stays]_vars
  BY <1>1
<1> QED BY <1>2, InductiveInvariant, PTL DEF Spec, CompletedIsFinal

=============================================================================
