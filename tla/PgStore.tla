------------------------------ MODULE PgStore ------------------------------
(***************************************************************************)
(* PostgresStore: statements over one connection per worker, which may be  *)
(* lost at any moment.  The call is then run again, once, on a new         *)
(* connection, whether or not its first run had taken effect; a second     *)
(* loss, or an outage, is an error of the call.                            *)
(*                                                                         *)
(* One statement is atomic.  update_tags is a transaction that reads and   *)
(* writes under a row lock; the insert of a signal picks its number before *)
(* it can collide with another worker's; delete_run empties its tables one *)
(* by one in autocommit mode.  What a connection has not sent when it is   *)
(* lost never happens.                                                     *)
(***************************************************************************)
EXTENDS Database

CONSTANT MaxLosses   \* bound: connections lost

ASSUME MaxLossesAssumption == MaxLosses \in Nat

VARIABLES
  db,        \* the tables
  asked,     \* calls made so far
  result,    \* what a call's last effect would be answered with
  answer,    \* what its caller was told
  at,        \* at[c]: where a call stands
  seen,      \* seen[c]: the tags it read, or the tables it emptied so far
  seq,       \* seq[c]: the number a signal has picked
  spent,     \* calls that have used up the retry of _with_conn
  retried,   \* history: calls that were run again on a new connection
  lock,      \* the worker that has locked the row of the run
  losses,
  before     \* history: before[c], the signals acknowledged when c was made

vars == <<db, asked, result, answer, at, seen, seq, spent, retried, lock, losses, before>>

Calling == INSTANCE StoreCalls

Places == {"idle", "open", "half", "done", "over"}

Move(c, p) == at' = [at EXCEPT ![c] = p]

Init ==
  /\ Calling!Init
  /\ at = [c \in Calls |-> "idle"]
  /\ seen = [c \in Calls |-> {}] /\ seq = [c \in Calls |-> 0]
  /\ spent = {} /\ retried = {} /\ lock = Nobody /\ losses = 0
  /\ before = [c \in Calls |-> {}]

\* _with_conn takes the store's lock and runs the call.  A worker makes its
\* calls in their order.
Ask(c) ==
  /\ Calling!Ask(c)
  /\ \A d \in Calls : d < c /\ Call[d].by = Call[c].by => d \in asked
  /\ Move(c, "open")
  /\ before' = [before EXCEPT ![c] =
                  {s \in Calls : Call[s].op = "signal" /\ answer[s] = "ok"}]
  /\ UNCHANGED <<seen, seq, spent, retried, lock, losses>>

\* The call has done what it does: its answer is on the way.
Done(c, a) == Move(c, "done") /\ result' = [result EXCEPT ![c] = a]

\* A call of one statement, and create_run, whose transaction reads nothing.
Execute(c) ==
  /\ at[c] = "open" /\ Call[c].op \notin {"tag", "signal", "delete"}
  /\ \E e \in Effects(c, db) : db' = e[1] /\ Done(c, e[2])
  /\ UNCHANGED <<asked, answer, seen, seq, spent, retried, lock, losses, before>>

\* Mutant: the tags are read without FOR UPDATE.
NoRowLock(c) == lock

\* SELECT ... FOR UPDATE waits for the lock and takes it.
RowLock(c) == IF lock = Nobody THEN Call[c].by ELSE "wait"

ReadTags(c) ==
  /\ at[c] = "open" /\ Call[c].op = "tag"
  /\ \/ ~db.runs /\ Done(c, "no") /\ UNCHANGED <<seen, lock>>
     \/ /\ db.runs /\ RowLock(c) # "wait"
        /\ lock' = RowLock(c)
        /\ seen' = [seen EXCEPT ![c] = db.tags]
        /\ Move(c, "half") /\ UNCHANGED result
  /\ UNCHANGED <<db, asked, answer, seq, spent, retried, losses, before>>

WriteTags(c) ==
  /\ at[c] = "half" /\ Call[c].op = "tag"
  /\ db' = Tagged(db, Merged(seen[c], c))
  /\ lock' = Nobody
  /\ Done(c, "ok")
  /\ UNCHANGED <<asked, answer, seen, seq, spent, retried, losses, before>>

PickSeq(c) ==
  /\ at[c] = "open" /\ Call[c].op = "signal" /\ Above(db.signals) # {}
  /\ seq' = [seq EXCEPT ![c] = NextSeq(db.signals)]
  /\ Move(c, "half")
  /\ UNCHANGED <<db, asked, result, answer, seen, spent, retried, lock, losses, before>>

\* Mutant: the next number is taken for free without a look at the rows.
NeverCollides(c) == FALSE

Collides(c) == Taken(db.signals, seq[c])

\* Mutant: INSERT ... ON CONFLICT DO NOTHING.
CollisionIgnored(c) == Done(c, "ok") /\ UNCHANGED spent

\* UniqueViolation only means "pick the next seq"; _with_conn starts afresh.
PickAgain(c) == Move(c, "open") /\ spent' = spent \ {c} /\ UNCHANGED result

InsertSignal(c) ==
  /\ at[c] = "half" /\ Call[c].op = "signal"
  /\ IF Collides(c) THEN PickAgain(c) /\ UNCHANGED db
     ELSE db' = AddSignal(db, c, seq[c]) /\ Done(c, "ok") /\ UNCHANGED spent
  /\ UNCHANGED <<asked, answer, seen, seq, retried, lock, losses, before>>

\* One DELETE; the row of the run may be locked.
DeleteNext(c) ==
  /\ at[c] = "open" /\ Call[c].op = "delete"
  /\ LET n == Cardinality(seen[c]) + 1 IN
       /\ Tables[n] = "runs" => lock = Nobody
       /\ db' = Cleared(db, Tables[n])
       /\ seen' = [seen EXCEPT ![c] = @ \cup {Tables[n]}]
       /\ IF n = Len(Tables) THEN Done(c, "ok")
          ELSE result' = [result EXCEPT ![c] = "ok"] /\ UNCHANGED at
  /\ UNCHANGED <<asked, answer, seq, spent, retried, lock, losses, before>>

Reply(c) ==
  /\ at[c] = "done"
  /\ answer' = [answer EXCEPT ![c] = result[c]]
  /\ Move(c, "over")
  /\ UNCHANGED <<db, asked, result, seen, seq, spent, retried, lock, losses, before>>

\* Mutant: the transaction of a lost connection keeps its row lock.
LockOutlivesLoss(w) == lock

\* A lost connection ends its transaction.
LockAfterLoss(w) == IF lock = w THEN Nobody ELSE lock

\* OperationalError: the call is run again from its start, on the connection
\* that _reconnect opens; a second loss, or an outage that five attempts do
\* not survive, is an error of the call.
Lose(c) ==
  /\ losses < MaxLosses /\ at[c] \in {"open", "half", "done"}
  /\ losses' = losses + 1
  /\ lock' = LockAfterLoss(Call[c].by)
  /\ \/ /\ c \notin spent
        /\ spent' = spent \cup {c} /\ retried' = retried \cup {c}
        /\ seen' = [seen EXCEPT ![c] = {}]
        /\ Move(c, "open") /\ UNCHANGED answer
     \/ /\ answer' = [answer EXCEPT ![c] = "error"]
        /\ Move(c, "over") /\ UNCHANGED <<seen, spent, retried>>
  /\ UNCHANGED <<db, asked, result, seq, before>>

Expire == /\ Calling!Expire
          /\ UNCHANGED <<at, seen, seq, spent, retried, lock, losses, before>>

Step(c) == \/ Execute(c) \/ ReadTags(c) \/ WriteTags(c) \/ PickSeq(c)
           \/ InsertSignal(c) \/ DeleteNext(c) \/ Reply(c)

Next == Expire \/ \E c \in Calls : Ask(c) \/ Step(c) \/ Lose(c)

Serve(w) == \E c \in Calls : Call[c].by = w /\ Step(c)

Spec == Init /\ [][Next]_vars /\ \A w \in Workers : WF_vars(Serve(w))

-----------------------------------------------------------------------------

\* Whatever connections are lost, every call takes effect as a whole between
\* other calls before it is answered: two workers' update_tags do not mix,
\* two workers' signals do not take one number (pg.py: `Read-merge-write
\* under a row lock', `a primary-key conflict just means "pick the next seq"').
Atomically == Calling!Spec

DeleteAsked == \E c \in asked : Call[c].op = "delete"

\* A tag somebody was told is set stays set while nobody drops it or deletes
\* the run, and the search index is in step with the tags.
TagsKept ==
  ~DeleteAsked =>
    /\ db.run_tags = db.tags
    /\ \A c \in Calls, k \in Keys :
         /\ Call[c].op = "tag" /\ answer[c] = "ok" /\ k \in Call[c].set \ Call[c].drop
         /\ ~\E d \in asked : Call[d].op = "tag" /\ k \in Call[d].drop
         => k \in db.tags

RowsOf(c) == {row \in db.signals : row[2] = c}

\* An acknowledged signal is in the inbox, behind those that were
\* acknowledged before it was sent; it is there twice only when the call was
\* run again.
SignalsKept ==
  ~DeleteAsked => \A c \in Calls : Call[c].op = "signal" /\ answer[c] = "ok" =>
    /\ RowsOf(c) # {}
    /\ c \notin retried => Cardinality(RowsOf(c)) = 1
    /\ \A row \in RowsOf(c) : \A p \in before[c] : \E earlier \in RowsOf(p) : earlier[1] < row[1]

\* Every call is answered: nobody waits for ever for a row lock or a number.
CallsAnswered == []<>(\A w \in Workers : ~Calling!Busy(w))

=============================================================================
