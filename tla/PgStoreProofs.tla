---------------------------- MODULE PgStoreProofs ----------------------------
(***************************************************************************)
(* What a PostgresStore keeps of the tags and signals it has acknowledged, *)
(* and that its calls are atomic, for any calls of any number of workers   *)
(* and any number of lost connections, as long as no run is deleted.       *)
(***************************************************************************)
EXTENDS PgStore, FiniteSetTheorems, WellFoundedInduction, TLAPS

USE MaxLossesAssumption

-----------------------------------------------------------------------------
(* The inductive invariant *)

Results == {"none", "ok", "conflict", "no"}

Rowset == [runs : BOOLEAN, tags : SUBSET Keys, run_tags : SUBSET Keys, events : SUBSET (Nat \X Calls),
           signals : SUBSET (Numbers \X Calls), lease : Workers \cup {Nobody}, expired : BOOLEAN,
           fire : Nat]

Types ==
  /\ db \in Rowset
  /\ asked \subseteq Calls /\ spent \subseteq Calls /\ retried \subseteq Calls
  /\ result \in [Calls -> Results] /\ answer \in [Calls -> Results \cup {"error"}]
  /\ at \in [Calls -> Places]
  /\ seen \in [Calls -> SUBSET Keys] /\ seq \in [Calls -> Nat]
  /\ lock \in Workers \cup {Nobody}
  /\ before \in [Calls -> SUBSET Calls]

Running(c) == at[c] \in {"open", "half", "done"}

\* Where a call stands, and what is known of its answer.
Standing(c) ==
  /\ Running(c) <=> c \in asked /\ answer[c] = "none"
  /\ c \notin asked => at[c] = "idle" /\ answer[c] = "none" /\ result[c] = "none"
  /\ c \in retried => c \in asked
  /\ at[c] = "half" => Call[c].op \in {"tag", "signal"}
  /\ at[c] = "done" => result[c] # "none"
  /\ answer[c] \in {"none", "error", result[c]}
  /\ Call[c].op = "signal" => result[c] \in {"none", "ok"}
  /\ c \notin retried /\ at[c] \in {"idle", "open", "half"} => result[c] = "none"

OneAtATime == \A c, d \in Calls : Running(c) /\ Running(d) /\ Call[c].by = Call[d].by => c = d

Dropped(k) == \E d \in asked : Call[d].op = "tag" /\ k \in Call[d].drop

\* Who is to write the tags has locked their row, and knows them.
Locked(c) ==
  at[c] = "half" /\ Call[c].op = "tag" => lock = Call[c].by /\ db.runs /\ seen[c] = db.tags

TagSet(c) ==
  Call[c].op = "tag" /\ result[c] = "ok" =>
    /\ db.runs
    /\ \A k \in Call[c].set \ Call[c].drop : ~Dropped(k) => k \in db.tags

TagsInv ==
  /\ db.run_tags = db.tags
  /\ ~db.runs => db.tags = {}
  /\ \A c \in Calls : Locked(c) /\ TagSet(c)

\* No number below a signal's, or below one that was picked, is free.
Dense(n) == \A m \in Numbers : m < n => Taken(db.signals, m)

Behind(n, c) == \A p \in before[c] : \E row \in RowsOf(p) : row[1] < n

\* The rows a signal has, and where they are.
Sent(c) ==
  Call[c].op = "signal" =>
    /\ at[c] = "half" => seq[c] \in Numbers /\ Dense(seq[c]) /\ Behind(seq[c], c)
    /\ \A p \in before[c] : RowsOf(p) # {}
    /\ \A row \in RowsOf(c) : Behind(row[1], c)
    /\ result[c] = "ok" => RowsOf(c) # {}
    /\ c \notin retried =>
         RowsOf(c) = {} \/ (result[c] = "ok" /\ \E row \in db.signals : RowsOf(c) = {row})

SignalsInv ==
  /\ \A row \in db.signals : Dense(row[1])
  /\ \A c \in Calls : Sent(c)

IInv ==
  /\ asked \subseteq Calls
  /\ ~DeleteAsked =>
       Types /\ (\A c \in Calls : Standing(c)) /\ OneAtATime /\ TagsInv /\ SignalsInv

-----------------------------------------------------------------------------
(* Calls, numbers, rows *)

\* What a call is.
LEMMA CallFacts ==
  \A c \in Calls : /\ Call[c].op \in Ops /\ Call[c].by \in Workers /\ Call[c].at \in Nat
                   /\ Call[c].set \subseteq Keys /\ Call[c].drop \subseteq Keys
<1> DEFINE R == [op : Ops, by : Workers, set : SUBSET Keys, drop : SUBSET Keys, at : Nat]
<1>1. Call \in Seq(R)
  BY CallsAssumption DEF CallsAssumption
<1>2. ASSUME NEW c \in Calls PROVE Call[c] \in R
  <2> HIDE DEF R
  <2> QED BY <1>1 DEF Calls
<1> QED BY <1>2

\* A nonempty set of numbers has a smallest one.
LEMMA LeastNumber ==
  ASSUME NEW T, T \subseteq Nat, T # {}
  PROVE  \E s \in T : \A t \in T : s <= t
<1>1. \E s \in T : \A t \in T : ~ (<<t, s>> \in OpToRel(<, Nat))
  BY NatLessThanWellFounded, WFMin, Zenon
<1>2. \A s, t \in Nat : t < s => <<t, s>> \in OpToRel(<, Nat)
  BY Zenon DEF OpToRel
<1>3. \A s \in T : \A t \in T : ~ (<<t, s>> \in OpToRel(<, Nat)) => ~ (t < s)
  BY <1>2
<1>4. \E s \in T : \A t \in T : ~ (t < s)
  BY <1>1, <1>3, Zenon
<1> QED BY <1>4

\* The number that is picked is above those in use, and the least of those.
LEMMA NextIsLeast ==
  ASSUME NEW rows, Above(rows) # {}
  PROVE  NextSeq(rows) \in Above(rows) /\ \A m \in Above(rows) : NextSeq(rows) <= m
<1>1. Above(rows) \subseteq Nat
  BY CallsAssumption DEF CallsAssumption, Above
<1>2. \E n \in Above(rows) : \A m \in Above(rows) : n <= m
  BY <1>1, LeastNumber
<1> QED BY <1>2 DEF NextSeq

\* The abstract store is one of the same calls, over the same rows.
LEMMA SameStore ==
  /\ Calling!Calls = Calls /\ Calling!Empty = Empty
  /\ \A c, d : Calling!Effects(c, d) = Effects(c, d)
<1>1. Calling!Calls = Calls /\ Calling!Empty = Empty
  BY DEF Calling!Calls, Calls, Calling!Empty, Empty
<1>2. ASSUME NEW c, NEW d PROVE Calling!Effects(c, d) = Effects(c, d)
  BY <1>1, Zenon DEF Calling!Effects, Effects, Calling!Exists, Exists, Calling!Created, Created,
     Calling!Merged, Merged, Calling!Tagged, Tagged, Calling!AddEvent, AddEvent,
     Calling!AddSignal, AddSignal, Calling!Released, Released, Calling!FreeFor, FreeFor,
     Calling!Leased, Leased, Calling!Claimed, Claimed, Calling!Cleared, Cleared,
     Calling!Tables, Tables, Calling!Taken, Taken, Calling!Above, Above
<1> QED BY <1>1, <1>2

\* What the calls of one statement do to the rows.
LEMMA ExecuteFacts ==
  ASSUME Types, NEW c \in Calls, Execute(c), Call[c].op # "delete"
  PROVE  /\ db' \in Rowset /\ db'.signals = db.signals
         /\ \/ UNCHANGED <<db.runs, db.tags, db.run_tags>>
            \/ /\ Call[c].op = "create" /\ ~db.runs
               /\ db'.runs /\ db'.tags = Call[c].set /\ db'.run_tags = Call[c].set
         /\ \E a \in Results \ {"none"} : result' = [result EXCEPT ![c] = a]
<1>1. db \in Rowset /\ result \in [Calls -> Results]
  BY DEF Types
<1>2. PICK e \in Effects(c, db) : db' = e[1] /\ result' = [result EXCEPT ![c] = e[2]]
  BY DEF Execute, Done
<1>3. /\ Call[c].by \in Workers /\ Call[c].at \in Nat /\ Call[c].set \subseteq Keys
      /\ Call[c].op \in {"create", "append", "acquire", "renew", "release", "claim"}
  BY CallFacts DEF Ops, Execute
<1> USE DEF Rowset, Results
<1>10. ASSUME db' \in {db, Leased(db, Call[c].by)}
       PROVE  /\ db' \in Rowset /\ db'.signals = db.signals
              /\ UNCHANGED <<db.runs, db.tags, db.run_tags>>
  BY <1>1, <1>3, <1>10 DEF Leased
<1>4. CASE Call[c].op = "create"
  <2>1. Effects(c, db) = {IF Exists(db, c) THEN <<db, "conflict">> ELSE <<Created(db, c), "ok">>}
    BY <1>4 DEF Effects
  <2>2. \/ db' = db /\ e[2] = "conflict"
        \/ db' = Created(db, c) /\ e[2] = "ok" /\ ~Exists(db, c)
    BY <1>2, <2>1
  <2> QED BY <1>1, <1>2, <1>3, <1>4, <2>2 DEF Exists, Created
<1>5. CASE Call[c].op = "append"
  <2>1. Effects(c, db) = {IF Taken(db.events, Call[c].at) THEN <<db, "conflict">> ELSE <<AddEvent(db, c), "ok">>}
    BY <1>5 DEF Effects
  <2>2. \/ db' = db /\ e[2] = "conflict"
        \/ db' = AddEvent(db, c) /\ e[2] = "ok"
    BY <1>2, <2>1
  <2>3. db.events \cup {<<Call[c].at, c>>} \in SUBSET (Nat \X Calls)
    BY <1>1, <1>3
  <2>4. AddEvent(db, c) = [db EXCEPT !.events = db.events \cup {<<Call[c].at, c>>}]
    BY <1>1 DEF AddEvent
  <2>5. ASSUME NEW x \in SUBSET (Nat \X Calls), db' = [db EXCEPT !.events = x]
        PROVE  /\ db' \in Rowset /\ db'.signals = db.signals
               /\ UNCHANGED <<db.runs, db.tags, db.run_tags>>
    BY <1>1, <2>5
  <2>6. /\ db' \in Rowset /\ db'.signals = db.signals
        /\ UNCHANGED <<db.runs, db.tags, db.run_tags>>
    BY <1>1, <2>2, <2>3, <2>4, <2>5
  <2> QED BY <1>2, <2>2, <2>6
<1>6. CASE Call[c].op = "acquire"
  <2>1. Effects(c, db) = {IF FreeFor(db, Call[c].by) THEN <<Leased(db, Call[c].by), "ok">> ELSE <<db, "no">>}
    BY <1>6 DEF Effects
  <2>2. e[2] \in {"no", "ok"} /\ db' \in {db, Leased(db, Call[c].by)}
    BY <1>2, <2>1
  <2> QED BY <1>2, <1>10, <2>2
<1>7. CASE Call[c].op = "renew"
  <2>1. Effects(c, db) = {IF db.lease = Call[c].by THEN <<Leased(db, Call[c].by), "ok">> ELSE <<db, "no">>}
    BY <1>7 DEF Effects
  <2>2. e[2] \in {"no", "ok"} /\ db' \in {db, Leased(db, Call[c].by)}
    BY <1>2, <2>1
  <2> QED BY <1>2, <1>10, <2>2
<1>8. CASE Call[c].op = "release"
  <2>1. Effects(c, db) = {<<Released(db, Call[c].by), "ok">>}
    BY <1>8 DEF Effects
  <2>2. e[2] = "ok" /\ (db' = db \/ db' = [db EXCEPT !.lease = Nobody])
    BY <1>2, <2>1 DEF Released
  <2>3. /\ db' \in Rowset /\ db'.signals = db.signals
        /\ UNCHANGED <<db.runs, db.tags, db.run_tags>>
    BY <1>1, <2>2
  <2> QED BY <1>2, <2>2, <2>3
<1>9. CASE Call[c].op = "claim"
  <2>1. Effects(c, db) = {IF db.fire = Call[c].at THEN <<Claimed(db), "ok">> ELSE <<db, "no">>}
    BY <1>9 DEF Effects
  <2>2. \/ db' = db /\ e[2] = "no"
        \/ db' = Claimed(db) /\ e[2] = "ok"
    BY <1>2, <2>1
  <2>3. db.fire + 1 \in Nat
    BY <1>1
  <2>4. Claimed(db) = [db EXCEPT !.fire = db.fire + 1]
    BY <1>1 DEF Claimed
  <2>5. ASSUME NEW x \in Nat, db' = [db EXCEPT !.fire = x]
        PROVE  /\ db' \in Rowset /\ db'.signals = db.signals
               /\ UNCHANGED <<db.runs, db.tags, db.run_tags>>
    BY <1>1, <2>5
  <2>6. /\ db' \in Rowset /\ db'.signals = db.signals
        /\ UNCHANGED <<db.runs, db.tags, db.run_tags>>
    BY <1>1, <2>2, <2>3, <2>4, <2>5
  <2> QED BY <1>2, <2>2, <2>6
<1> QED BY <1>3, <1>4, <1>5, <1>6, <1>7, <1>8, <1>9

-----------------------------------------------------------------------------
(* Steps *)

Stands == \A c \in Calls : Standing(c)

\* A deletion stays asked for, and until it is nothing is deleted.
LEMMA AskedStays == Next => asked \subseteq asked' /\ asked' \subseteq asked \cup Calls
BY SameStore DEF Next, Expire, Ask, Calling!Ask, Calling!Expire, Step, Execute, ReadTags, WriteTags, PickSeq,
   InsertSignal, DeleteNext, Reply, Lose

\* A call that runs does not delete, while no deletion was asked for.
LEMMA NothingDeleted ==
  ASSUME Types, Stands, ~DeleteAsked, NEW c \in Calls, Running(c)
  PROVE  Call[c].op # "delete"
BY DEF Stands, Standing, DeleteAsked

\* Every step keeps the types.
LEMMA TypesStep ==
  ASSUME Types, Stands, SignalsInv, ~DeleteAsked, Next
  PROVE  Types'
<1> USE DEF Types, Places, Results
<1>1. \A c \in Calls : /\ Call[c].op \in Ops /\ Call[c].by \in Workers
                       /\ Call[c].set \subseteq Keys /\ Call[c].drop \subseteq Keys
  BY CallFacts
<1>2. CASE Expire
  BY <1>2 DEF Expire, Calling!Expire, Rowset
<1>3. ASSUME NEW c \in Calls, Ask(c) PROVE Types'
  <2>1. {s \in Calls : Call[s].op = "signal" /\ answer[s] = "ok"} \in SUBSET Calls
    OBVIOUS
  <2> QED BY <1>3, <2>1 DEF Ask, Calling!Ask, Move
<1>4. ASSUME NEW c \in Calls, Execute(c) PROVE Types'
  <2>1. Call[c].op # "delete"
    BY <1>4 DEF Execute
  <2>2. db' \in Rowset /\ \E a \in Results \ {"none"} : result' = [result EXCEPT ![c] = a]
    BY <1>4, <2>1, ExecuteFacts
  <2>3. result' \in [Calls -> Results]
    BY <2>2
  <2>4. at' = [at EXCEPT ![c] = "done"]
    BY <1>4 DEF Execute, Done, Move
  <2>5. UNCHANGED <<asked, answer, seen, seq, spent, retried, lock, before>>
    BY <1>4 DEF Execute
  <2> QED BY <2>2, <2>3, <2>4, <2>5
<1>5. ASSUME NEW c \in Calls, ReadTags(c) PROVE Types'
  <2>1. db.tags \in SUBSET Keys
    BY DEF Rowset
  <2> QED BY <1>1, <1>5, <2>1 DEF ReadTags, Done, Move, RowLock
<1>6. ASSUME NEW c \in Calls, WriteTags(c) PROVE Types'
  <2>1. Merged(seen[c], c) \in SUBSET Keys
    BY <1>1 DEF Merged
  <2>2. db' \in Rowset
    BY <1>6, <2>1 DEF WriteTags, Tagged, Rowset
  <2> QED BY <1>6, <2>2 DEF WriteTags, Done, Move
<1>7. ASSUME NEW c \in Calls, PickSeq(c) PROVE Types'
  <2>1. NextSeq(db.signals) \in Nat
    BY <1>7, NextIsLeast, CallsAssumption DEF PickSeq, Above, CallsAssumption
  <2> QED BY <1>7, <2>1 DEF PickSeq, Move
<1>8. ASSUME NEW c \in Calls, InsertSignal(c) PROVE Types'
  <2>1. db.signals \cup {<<seq[c], c>>} \in SUBSET (Numbers \X Calls)
    BY <1>8 DEF Rowset, InsertSignal, SignalsInv, Sent
  <2>2. AddSignal(db, c, seq[c]) \in Rowset
    BY <2>1 DEF AddSignal, Rowset
  <2> QED BY <1>8, <2>2 DEF InsertSignal, Done, Move, PickAgain
<1>9. ASSUME NEW c \in Calls, Reply(c) PROVE Types'
  BY <1>9 DEF Reply, Move
<1>10. ASSUME NEW c \in Calls, Lose(c) PROVE Types'
  BY <1>10 DEF Lose, Move, LockAfterLoss
<1>11. ASSUME NEW c \in Calls PROVE ~DeleteNext(c)
  BY NothingDeleted DEF DeleteNext, Running
<1> QED BY <1>2, <1>3, <1>4, <1>5, <1>6, <1>7, <1>8, <1>9, <1>10, <1>11 DEF Next, Step

\* A call's step leaves every other call where it stands.
LEMMA OneMoves ==
  ASSUME Types, Stands, ~DeleteAsked, NEW c \in Calls, Ask(c) \/ Step(c) \/ Lose(c)
  PROVE  /\ \A d \in Calls : d # c =>
              /\ at'[d] = at[d] /\ result'[d] = result[d] /\ answer'[d] = answer[d]
              /\ seen'[d] = seen[d] /\ seq'[d] = seq[d] /\ before'[d] = before[d]
              /\ d \in asked' <=> d \in asked
              /\ d \in retried' <=> d \in retried
         /\ ~Ask(c) => before' = before
<1> USE DEF Types, Move, Done
<1>1. CASE Ask(c)
  BY <1>1 DEF Ask, Calling!Ask
<1>2. CASE Execute(c)
  <2>1. \E a : result' = [result EXCEPT ![c] = a]
    BY <1>2 DEF Execute
  <2> QED BY <1>2, <2>1 DEF Execute
<1>3. CASE ReadTags(c) \/ WriteTags(c) \/ PickSeq(c)
  BY <1>3 DEF ReadTags, WriteTags, PickSeq
<1>4. CASE InsertSignal(c) \/ Reply(c)
  BY <1>4 DEF InsertSignal, PickAgain, Reply
<1>5. CASE Lose(c)
  BY <1>5 DEF Lose
<1>6. ~DeleteNext(c)
  BY NothingDeleted DEF DeleteNext, Running
<1> QED BY <1>1, <1>2, <1>3, <1>4, <1>5, <1>6 DEF Step

\* Every step leaves each call at a place that fits its answers.
LEMMA StandsStep ==
  ASSUME Types, Stands, ~DeleteAsked, Next
  PROVE  Stands'
<1> USE DEF Types, Standing, Running, Move, Done, Results
<1>1. CASE Expire
  BY <1>1 DEF Expire, Calling!Expire, Stands
<1>2. ASSUME NEW c \in Calls, Ask(c) \/ Step(c) \/ Lose(c) PROVE Stands'
  <2>1. \A d \in Calls : d # c => Standing(d)'
    BY <1>2, OneMoves DEF Stands
  <2>2. Standing(c)
    BY DEF Stands
  <2> SUFFICES Standing(c)'
    BY <2>1 DEF Stands
  <2>3. CASE Ask(c)
    BY <2>2, <2>3 DEF Ask, Calling!Ask
  <2>4. CASE Execute(c)
    <3>1. \E a \in Results \ {"none"} : result' = [result EXCEPT ![c] = a]
      BY <2>4, ExecuteFacts DEF Execute
    <3> QED BY <2>2, <2>4, <3>1 DEF Execute
  <2>5. CASE ReadTags(c) \/ WriteTags(c) \/ PickSeq(c)
    BY <2>2, <2>5 DEF ReadTags, WriteTags, PickSeq
  <2>6. CASE InsertSignal(c)
    BY <2>2, <2>6 DEF InsertSignal, PickAgain
  <2>7. CASE Reply(c)
    BY <2>2, <2>7 DEF Reply
  <2>8. CASE Lose(c)
    BY <2>2, <2>8 DEF Lose
  <2>9. ~DeleteNext(c)
    BY NothingDeleted DEF DeleteNext
  <2> QED BY <1>2, <2>3, <2>4, <2>5, <2>6, <2>7, <2>8, <2>9 DEF Step
<1> QED BY <1>1, <1>2 DEF Next

\* A store serves the calls of its worker one at a time.
LEMMA OneAtATimeStep ==
  ASSUME Types, Stands, OneAtATime, ~DeleteAsked, Next
  PROVE  OneAtATime'
<1> USE DEF Types, Running, Move, Done
<1>1. CASE Expire
  BY <1>1 DEF Expire, OneAtATime
<1>2. ASSUME NEW c \in Calls, Step(c) \/ Lose(c) PROVE OneAtATime'
  <2>1. \A d \in Calls : Running(d)' => Running(d)
    <3>1. \A d \in Calls : d # c => (Running(d)' <=> Running(d))
      BY <1>2, OneMoves
    <3>2. Running(c)
      BY <1>2 DEF Step, Execute, ReadTags, WriteTags, PickSeq, InsertSignal, DeleteNext, Reply, Lose
    <3> QED BY <3>1, <3>2
  <2> QED BY <2>1 DEF OneAtATime
<1>3. ASSUME NEW c \in Calls, Ask(c) PROVE OneAtATime'
  <2>1. \A d \in Calls : Running(d) => Call[d].by # Call[c].by
    BY <1>3 DEF Ask, Calling!Ask, Calling!Busy, Stands, Standing
  <2>2. \A d \in Calls : d # c => (Running(d)' <=> Running(d))
    BY <1>3, OneMoves
  <2> QED BY <2>1, <2>2 DEF OneAtATime
<1> QED BY <1>1, <1>2, <1>3 DEF Next

-----------------------------------------------------------------------------
(* Tags *)

\* What a call is told of tags stays true while nobody drops them.
LEMMA DroppedStays == Next => \A k : Dropped(k) => Dropped(k)'
BY AskedStays DEF Dropped

\* Without a write to the tags, what is known of them is still so.
LEMMA TagsKeep ==
  ASSUME TagsInv, Next, UNCHANGED <<db.runs, db.tags, db.run_tags>>,
         \A c \in Calls : \/ at'[c] = at[c] /\ seen'[c] = seen[c] /\ result'[c] = result[c]
                          \/ Call[c].op # "tag"
                          \/ at'[c] # "half" /\ result'[c] \in {result[c], "no"},
         \A c \in Calls : at'[c] = "half" /\ Call[c].op = "tag" => lock' = lock
  PROVE  TagsInv'
<1>1. ASSUME NEW c \in Calls PROVE Locked(c)'
  BY DEF TagsInv, Locked
<1>2. ASSUME NEW c \in Calls PROVE TagSet(c)'
  BY DroppedStays DEF TagsInv, TagSet
<1> QED BY <1>1, <1>2 DEF TagsInv

\* Every step keeps the tags and their index.
LEMMA TagsStep ==
  ASSUME Types, Stands, OneAtATime, TagsInv, ~DeleteAsked, Next
  PROVE  TagsInv'
<1> USE DEF Types
<1>1. CASE Expire
  <2>1. UNCHANGED <<db.runs, db.tags, db.run_tags, at, seen, result, lock>>
    BY <1>1 DEF Expire, Calling!Expire, Rowset
  <2> QED BY <2>1, TagsKeep
<1>2. ASSUME NEW c \in Calls, Ask(c) PROVE TagsInv'
  <2>1. UNCHANGED <<db, seen, result, lock>> /\ at'[c] = "open"
    BY <1>2 DEF Ask, Calling!Ask, Move
  <2>2. \A d \in Calls : d # c => at'[d] = at[d]
    BY <1>2, OneMoves
  <2> QED BY <2>1, <2>2, TagsKeep
<1>3. ASSUME NEW c \in Calls, Execute(c) PROVE TagsInv'
  <2>1. /\ Call[c].op \notin {"tag", "delete"} /\ lock' = lock
    BY <1>3 DEF Execute
  <2>2. \A d \in Calls : d # c => at'[d] = at[d] /\ seen'[d] = seen[d] /\ result'[d] = result[d]
    BY <1>3, OneMoves DEF Step
  <2>3. CASE UNCHANGED <<db.runs, db.tags, db.run_tags>>
    BY <2>1, <2>2, <2>3, TagsKeep
  <2>4. CASE ~db.runs /\ db'.runs /\ db'.tags = Call[c].set /\ db'.run_tags = Call[c].set
    <3>1. \A d \in Calls : Locked(d)' /\ TagSet(d)'
      BY <2>1, <2>2, <2>4 DEF TagsInv, Locked, TagSet
    <3> QED BY <2>4, <3>1 DEF TagsInv
  <2> QED BY <1>3, <2>1, <2>3, <2>4, ExecuteFacts
<1>4. ASSUME NEW c \in Calls, ReadTags(c) PROVE TagsInv'
  <2>1. \A d \in Calls : d # c => at'[d] = at[d] /\ seen'[d] = seen[d] /\ result'[d] = result[d]
    BY <1>4, OneMoves DEF Step
  <2>2. UNCHANGED db
    BY <1>4 DEF ReadTags
  <2>3. CASE ~db.runs
    <3>1. at'[c] = "done" /\ result'[c] = "no" /\ UNCHANGED lock
      BY <1>4, <2>3 DEF ReadTags, Done, Move
    <3> QED BY <2>1, <2>2, <3>1, TagsKeep
  <2>4. CASE db.runs
    <3>1. /\ lock = Nobody /\ lock' = Call[c].by /\ seen'[c] = db.tags /\ UNCHANGED result
      BY <1>4, <2>4 DEF ReadTags, RowLock
    <3>2. \A d \in Calls : d # c /\ at[d] = "half" => Call[d].op # "tag"
      <4>1. \A d \in Calls : Call[d].by # Nobody
        BY CallFacts, CallsAssumption DEF CallsAssumption
      <4> QED BY <3>1, <4>1 DEF TagsInv, Locked
    <3>3. \A d \in Calls : Locked(d)'
      BY <2>1, <2>2, <2>4, <3>1, <3>2 DEF Locked
    <3>4. \A d \in Calls : TagSet(d)'
      BY <2>2, <3>1, DroppedStays DEF TagSet, TagsInv
    <3> QED BY <2>2, <3>3, <3>4 DEF TagsInv
  <2> QED BY <2>3, <2>4
<1>5. ASSUME NEW c \in Calls, WriteTags(c) PROVE TagsInv'
  <2>1. \A d \in Calls : d # c => at'[d] = at[d] /\ seen'[d] = seen[d] /\ result'[d] = result[d]
    BY <1>5, OneMoves DEF Step
  <2>2. /\ Call[c].op = "tag" /\ lock = Call[c].by /\ db.runs /\ seen[c] = db.tags /\ c \in asked
        /\ Running(c)
    BY <1>5 DEF WriteTags, TagsInv, Locked, Stands, Standing, Running
  <2>3. /\ db'.runs = db.runs /\ db'.tags = (db.tags \cup Call[c].set) \ Call[c].drop
        /\ db'.run_tags = db'.tags
    BY <1>5, <2>2 DEF WriteTags, Tagged, Merged, Rowset
  <2>4. at'[c] = "done" /\ UNCHANGED asked
    BY <1>5 DEF WriteTags, Done, Move
  <2>5. ASSUME NEW d \in Calls PROVE Locked(d)'
    <3>1. d # c /\ at[d] = "half" => Call[d].by # Call[c].by
      BY <2>2 DEF OneAtATime, Running
    <3> QED BY <2>1, <2>2, <2>4, <3>1 DEF TagsInv, Locked
  <2>6. ASSUME NEW d \in Calls PROVE TagSet(d)'
    <3>1. \A k : Dropped(k)' <=> Dropped(k)
      BY <2>4 DEF Dropped
    <3>2. \A k : ~Dropped(k) => k \notin Call[c].drop
      BY <2>2 DEF Dropped
    <3>3. CASE d = c
      BY <2>2, <2>3, <3>3 DEF TagSet
    <3>4. CASE d # c
      BY <2>1, <2>2, <2>3, <3>1, <3>2, <3>4 DEF TagSet, TagsInv
    <3> QED BY <3>3, <3>4
  <2> QED BY <2>2, <2>3, <2>5, <2>6 DEF TagsInv
<1>6. ASSUME NEW c \in Calls, PickSeq(c) \/ InsertSignal(c) PROVE TagsInv'
  <2>1. Call[c].op # "tag" /\ UNCHANGED lock /\ UNCHANGED <<db.runs, db.tags, db.run_tags>>
    BY <1>6 DEF PickSeq, InsertSignal, AddSignal, Rowset
  <2>2. \A d \in Calls : d # c => at'[d] = at[d] /\ seen'[d] = seen[d] /\ result'[d] = result[d]
    BY <1>6, OneMoves DEF Step
  <2> QED BY <2>1, <2>2, TagsKeep
<1>7. ASSUME NEW c \in Calls, Reply(c) PROVE TagsInv'
  <2>1. UNCHANGED <<db, lock, result, seen>> /\ at'[c] = "over"
    BY <1>7 DEF Reply, Move
  <2>2. \A d \in Calls : d # c => at'[d] = at[d]
    BY <1>7, OneMoves DEF Step
  <2> QED BY <2>1, <2>2, TagsKeep
<1>8. ASSUME NEW c \in Calls, Lose(c) PROVE TagsInv'
  <2>1. UNCHANGED <<db, result>> /\ at'[c] \in {"open", "over"} /\ lock' = LockAfterLoss(Call[c].by)
    BY <1>8 DEF Lose, Move
  <2>2. \A d \in Calls : d # c => at'[d] = at[d] /\ seen'[d] = seen[d]
    BY <1>8, OneMoves
  <2>3. \A d \in Calls : d # c /\ at[d] = "half" => Call[d].by # Call[c].by
    BY <1>8 DEF Lose, OneAtATime, Running
  <2>4. \A d \in Calls : at'[d] = "half" /\ Call[d].op = "tag" => lock' = lock
    BY <2>1, <2>2, <2>3 DEF LockAfterLoss, TagsInv, Locked
  <2> QED BY <2>1, <2>2, <2>4, TagsKeep
<1>9. ASSUME NEW c \in Calls PROVE ~DeleteNext(c)
  BY NothingDeleted DEF DeleteNext, Running
<1> QED BY <1>1, <1>2, <1>3, <1>4, <1>5, <1>6, <1>7, <1>8, <1>9 DEF Next, Step

-----------------------------------------------------------------------------
(* Signals *)

\* Without a new row, what is known of the rows is still so.
LEMMA SignalsKeep ==
  ASSUME Types, SignalsInv, db'.signals = db.signals, NEW c \in Calls,
         \A d \in Calls : d # c => /\ at'[d] = at[d] /\ result'[d] = result[d] /\ seq'[d] = seq[d]
                                   /\ before'[d] = before[d]
                                   /\ d \in retried' <=> d \in retried,
         Sent(c)'
  PROVE  SignalsInv'
<1>1. \A d : RowsOf(d)' = RowsOf(d)
  BY DEF RowsOf
<1>2. \A n : Dense(n)' <=> Dense(n)
  BY DEF Dense
<1>3. ASSUME NEW d \in Calls, d # c PROVE Sent(d)'
  <2>1. before'[d] = before[d]
    BY <1>3
  <2>2. \A n : Behind(n, d)' <=> Behind(n, d)
    BY <1>1, <2>1 DEF Behind
  <2>3. Sent(d)
    BY DEF SignalsInv
  <2> QED BY <1>1, <1>2, <1>3, <2>1, <2>2, <2>3 DEF Sent
<1> QED BY <1>2, <1>3 DEF SignalsInv

\* A number that was picked and is not taken is above all rows.
LEMMA PickedIsAbove ==
  ASSUME Types, SignalsInv, NEW c \in Calls, Call[c].op = "signal", at[c] = "half", ~Collides(c)
  PROVE  seq[c] \in Above(db.signals)
<1>1. seq[c] \in Numbers /\ Numbers \subseteq Nat
  BY CallsAssumption DEF SignalsInv, Sent, CallsAssumption
<1>2. ASSUME NEW row \in db.signals PROVE row[1] < seq[c]
  <2>1. row[1] \in Nat
    BY <1>1 DEF Types, Rowset
  <2>2. row[1] # seq[c]
    BY DEF Collides, Taken
  <2>3. ~ (seq[c] < row[1])
    BY <1>1 DEF SignalsInv, Dense, Collides
  <2>4. seq[c] \in Nat
    BY <1>1
  <2> HIDE DEF Types
  <2> QED BY <2>1, <2>2, <2>3, <2>4
<1> QED BY <1>1, <1>2 DEF Above

\* Every step keeps the inbox in the order of the acknowledgements.
LEMMA SignalsStep ==
  ASSUME Types, Stands, SignalsInv, ~DeleteAsked, Next
  PROVE  SignalsInv'
<1> USE DEF Types
<1>1. CASE Expire
  <2>1. UNCHANGED <<db.signals, at, seq, result, before, retried>>
    BY <1>1 DEF Expire, Calling!Expire, Rowset
  <2> QED BY <2>1 DEF SignalsInv, Sent, Dense, Behind, RowsOf, Taken
<1>2. ASSUME NEW c \in Calls, Ask(c) PROVE SignalsInv'
  <2>1. /\ UNCHANGED <<db, result, seq, retried>> /\ at'[c] = "open"
        /\ before'[c] = {s \in Calls : Call[s].op = "signal" /\ answer[s] = "ok"}
    BY <1>2 DEF Ask, Calling!Ask, Move
  <2>2. \A d : RowsOf(d)' = RowsOf(d)
    BY <2>1 DEF RowsOf
  <2>3. \A p \in before'[c] : RowsOf(p) # {}
    BY <2>1 DEF Stands, Standing, SignalsInv, Sent
  <2>4. Call[c].op = "signal" => RowsOf(c) = {}
    <3>1. c \notin asked
      BY <1>2 DEF Ask, Calling!Ask
    <3> QED BY <3>1 DEF Stands, Standing, SignalsInv, Sent
  <2>5. Sent(c)'
    BY <2>1, <2>2, <2>3, <2>4 DEF Sent, SignalsInv
  <2> QED BY <1>2, <2>1, <2>5, OneMoves, SignalsKeep
<1>3. ASSUME NEW c \in Calls, Execute(c) PROVE SignalsInv'
  <2>1. Call[c].op # "signal" /\ Call[c].op # "delete"
    BY <1>3 DEF Execute
  <2>2. db'.signals = db.signals
    BY <1>3, <2>1, ExecuteFacts
  <2>3. Sent(c)'
    BY <2>1 DEF Sent
  <2> QED BY <1>3, <2>2, <2>3, OneMoves, SignalsKeep DEF Step
<1>4. ASSUME NEW c \in Calls, ReadTags(c) \/ WriteTags(c) PROVE SignalsInv'
  <2>1. Call[c].op # "signal" /\ db'.signals = db.signals
    BY <1>4 DEF ReadTags, WriteTags, Tagged, Rowset
  <2>2. Sent(c)'
    BY <2>1 DEF Sent
  <2> QED BY <1>4, <2>1, <2>2, OneMoves, SignalsKeep DEF Step
<1>5. ASSUME NEW c \in Calls, PickSeq(c) PROVE SignalsInv'
  <2> DEFINE n == NextSeq(db.signals)
  <2>1. /\ UNCHANGED <<db, result, retried, before>> /\ seq'[c] = n /\ at'[c] = "half"
        /\ Call[c].op = "signal"
    BY <1>5 DEF PickSeq, Move
  <2>2. n \in Above(db.signals) /\ \A m \in Above(db.signals) : n <= m
    BY <1>5, NextIsLeast DEF PickSeq
  <2>3. n \in Numbers /\ Numbers \subseteq Nat
    BY <2>2, CallsAssumption DEF Above, CallsAssumption
  <2>4. Dense(n)
    <3> SUFFICES ASSUME NEW m \in Numbers, m < n PROVE Taken(db.signals, m)
      BY DEF Dense
    <3>1. m \notin Above(db.signals)
      <4>1. m \in Nat /\ n \in Nat
        BY <2>3
      <4> HIDE DEF n, Types
      <4> QED BY <2>2, <4>1
    <3>2. PICK row \in db.signals : ~ (row[1] < m)
      BY <3>1 DEF Above
    <3>3. row[1] \in Nat /\ Dense(row[1])
      BY <2>3 DEF Rowset, SignalsInv
    <3>4. CASE row[1] = m
      BY <3>4 DEF Taken
    <3>5. CASE m < row[1]
      BY <3>3, <3>5 DEF Dense
    <3> QED BY <2>3, <3>2, <3>3, <3>4, <3>5
  <2>5. Behind(n, c)
    <3> SUFFICES ASSUME NEW p \in before[c] PROVE \E row \in RowsOf(p) : row[1] < n
      BY DEF Behind
    <3>1. \A row \in db.signals : row[1] < n
      BY <2>2 DEF Above
    <3>2. RowsOf(p) # {} /\ RowsOf(p) \subseteq db.signals
      BY <2>1 DEF SignalsInv, Sent, RowsOf
    <3> QED BY <3>1, <3>2
  <2>6. \A d : RowsOf(d)' = RowsOf(d)
    BY <2>1 DEF RowsOf
  <2>7. Dense(n)' /\ \A x : Behind(x, c)' <=> Behind(x, c)
    BY <2>1, <2>4, <2>6 DEF Dense, Behind
  <2>8. Sent(c)
    BY DEF SignalsInv
  <2>9. Sent(c)'
    BY <2>1, <2>3, <2>5, <2>6, <2>7, <2>8 DEF Sent
  <2> HIDE DEF n
  <2> QED BY <1>5, <2>1, <2>9, OneMoves, SignalsKeep DEF Step
<1>6. ASSUME NEW c \in Calls, InsertSignal(c) PROVE SignalsInv'
  <2>1. /\ UNCHANGED <<retried, before, seq>> /\ Call[c].op = "signal" /\ at[c] = "half"
    BY <1>6 DEF InsertSignal
  <2>2. Sent(c)
    BY DEF SignalsInv
  <2>3. CASE Collides(c)
    <3>1. UNCHANGED <<db, result>> /\ at'[c] = "open"
      BY <1>6, <2>3 DEF InsertSignal, PickAgain, Move
    <3>2. Sent(c)'
      BY <2>1, <2>2, <3>1 DEF Sent, RowsOf, Behind
    <3> QED BY <1>6, <2>1, <3>1, <3>2, OneMoves, SignalsKeep DEF Step
  <2>4. CASE ~Collides(c)
    <3> DEFINE new == <<seq[c], c>>
    <3>1. /\ db'.signals = db.signals \cup {new} /\ result' = [result EXCEPT ![c] = "ok"]
          /\ at' = [at EXCEPT ![c] = "done"]
      BY <1>6, <2>4 DEF InsertSignal, AddSignal, Done, Move, Rowset
    <3>2. /\ RowsOf(c)' = RowsOf(c) \cup {new}
          /\ \A d \in Calls : d # c => RowsOf(d)' = RowsOf(d)
          /\ \A d : RowsOf(d) \subseteq RowsOf(d)'
      BY <3>1 DEF RowsOf
    <3>3. \A n : Dense(n) => Dense(n)'
      BY <3>1 DEF Dense, Taken
    <3>4. \A n, d : Behind(n, d) => Behind(n, d)'
      BY <2>1, <3>2 DEF Behind
    <3>5. \A row \in db'.signals : Dense(row[1])'
      BY <2>1, <2>2, <3>1, <3>3 DEF SignalsInv, Sent
    <3>6. ASSUME NEW d \in Calls, d # c PROVE Sent(d)'
      <4>1. Sent(d) /\ at'[d] = at[d] /\ result'[d] = result[d]
        BY <3>1, <3>6 DEF SignalsInv
      <4>2. \A p \in before[d] : RowsOf(p) \subseteq RowsOf(p)'
        BY <3>2
      <4> QED BY <2>1, <3>1, <3>2, <3>3, <3>4, <3>6, <4>1, <4>2 DEF Sent
    <3>7. Sent(c)'
      <4>1. \A row \in RowsOf(c)' : Behind(row[1], c)'
        BY <2>1, <2>2, <3>2, <3>4 DEF Sent
      <4>2. c \notin retried => RowsOf(c) = {}
        BY <2>1, <2>2 DEF Sent, Stands, Standing
      <4>3. new \in db'.signals /\ result'[c] = "ok" /\ at'[c] = "done"
        BY <3>1
      <4>4. \A p \in before[c] : RowsOf(p)' # {}
        BY <2>1, <2>2, <3>2 DEF Sent
      <4> QED BY <2>1, <3>2, <4>1, <4>2, <4>3, <4>4 DEF Sent
    <3> QED BY <3>5, <3>6, <3>7 DEF SignalsInv
  <2> QED BY <2>3, <2>4
<1>7. ASSUME NEW c \in Calls, Reply(c) \/ Lose(c) PROVE SignalsInv'
  <2>1. UNCHANGED <<db, result, seq, before>> /\ at'[c] # "half" /\ retried \subseteq retried'
    BY <1>7 DEF Reply, Lose, Move
  <2>2. Sent(c)
    BY DEF SignalsInv
  <2>3. Sent(c)'
    BY <2>1, <2>2 DEF Sent, RowsOf, Behind
  <2> QED BY <1>7, <2>1, <2>3, OneMoves, SignalsKeep DEF Step
<1>8. ASSUME NEW c \in Calls PROVE ~DeleteNext(c)
  BY NothingDeleted DEF DeleteNext, Running
<1> QED BY <1>1, <1>2, <1>3, <1>4, <1>5, <1>6, <1>7, <1>8 DEF Next, Step

-----------------------------------------------------------------------------
(* The theorems *)

\* It holds of the empty database.
LEMMA InitInv == Init => IInv
<1> SUFFICES ASSUME Init PROVE Types /\ Stands /\ OneAtATime /\ TagsInv /\ SignalsInv
  BY SameStore DEF IInv, Stands, Init, Calling!Init
<1> USE SameStore DEF Init, Calling!Init
<1>1. Types
  BY DEF Types, Rowset, Empty, Results, Places
<1>2. Stands /\ OneAtATime
  BY DEF Stands, Standing, Running, OneAtATime
<1>3. TagsInv
  BY DEF TagsInv, Locked, TagSet, Empty
<1>4. db.signals = {}
  BY DEF Empty
<1>5. \A c \in Calls : before[c] = {} /\ at[c] = "idle" /\ result[c] = "none" /\ RowsOf(c) = {}
  BY <1>4 DEF RowsOf
<1>6. SignalsInv
  BY <1>4, <1>5 DEF SignalsInv, Sent
<1> QED BY <1>1, <1>2, <1>3, <1>6

\* Every step keeps it.
LEMMA StepInv == IInv /\ [Next]_vars => IInv'
<1>0. ASSUME IInv, [Next]_vars PROVE (asked \subseteq Calls)'
  BY <1>0, AskedStays DEF IInv, vars
<1> SUFFICES ASSUME IInv, [Next]_vars, ~DeleteAsked'
             PROVE  (Types /\ Stands /\ OneAtATime /\ TagsInv /\ SignalsInv)'
  BY <1>0 DEF IInv, Stands
<1>1. CASE Next
  <2>1. ~DeleteAsked
    BY <1>1, AskedStays DEF DeleteAsked
  <2>2. Types /\ Stands /\ OneAtATime /\ TagsInv /\ SignalsInv
    BY <2>1 DEF IInv, Stands
  <2> QED BY <1>1, <2>1, <2>2, TypesStep, StandsStep, OneAtATimeStep, TagsStep, SignalsStep
<1>2. CASE UNCHANGED vars
  <2>1. ~DeleteAsked
    BY <1>2 DEF DeleteAsked, vars
  <2>2. Types /\ Stands /\ OneAtATime /\ TagsInv /\ SignalsInv
    BY <2>1 DEF IInv, Stands
  <2>3. (Types /\ Stands /\ OneAtATime)'
    BY <1>2, <2>2 DEF vars, Types, Stands, Standing, Running, OneAtATime
  <2>4. TagsInv'
    BY <1>2, <2>2 DEF vars, TagsInv, Locked, TagSet, Dropped
  <2>5. SignalsInv'
    BY <1>2, <2>2 DEF vars, SignalsInv, Sent, Dense, Behind, RowsOf, Taken
  <2> QED BY <2>3, <2>4, <2>5
<1> QED BY <1>1, <1>2

\* It holds of every state.
LEMMA Inductive == Spec => []IInv
BY InitInv, StepInv, PTL DEF Spec

\* pg.py update_tags, `Read-merge-write under a row lock': whatever
\* connections are lost, no write of the tags undoes what another call was
\* told is set, and the search index is in step.
THEOREM PgTagsKept == Spec => []TagsKept
<1>1. IInv => TagsKept
  <2> SUFFICES ASSUME IInv, ~DeleteAsked PROVE TagsKept
    BY DEF TagsKept
  <2>1. TagsInv /\ Stands
    BY DEF IInv, Stands
  <2>2. \A c \in Calls : answer[c] = "ok" => result[c] = "ok"
    BY <2>1 DEF Stands, Standing
  <2> QED BY <2>1, <2>2 DEF TagsKept, TagsInv, TagSet, Dropped
<1> QED BY <1>1, Inductive, PTL

\* pg.py append_signal: a signal whose sender was told so is in the inbox,
\* once unless its call was run again, behind all that were acknowledged
\* before it was sent.
THEOREM PgSignalsKept == Spec => []SignalsKept
<1>1. IInv => SignalsKept
  <2> SUFFICES ASSUME IInv, ~DeleteAsked, NEW c \in Calls, Call[c].op = "signal", answer[c] = "ok"
               PROVE  /\ RowsOf(c) # {}
                      /\ c \notin retried => Cardinality(RowsOf(c)) = 1
                      /\ \A row \in RowsOf(c) : \A p \in before[c] :
                           \E earlier \in RowsOf(p) : earlier[1] < row[1]
    BY DEF SignalsKept
  <2>1. Sent(c) /\ Standing(c)
    BY DEF IInv, SignalsInv
  <2>2. result[c] = "ok"
    BY <2>1 DEF Standing
  <2>3. RowsOf(c) # {} /\ \A row \in RowsOf(c) : Behind(row[1], c)
    BY <2>1, <2>2 DEF Sent
  <2>4. ASSUME c \notin retried PROVE Cardinality(RowsOf(c)) = 1
    <3>1. PICK row \in db.signals : RowsOf(c) = {row}
      BY <2>1, <2>3, <2>4 DEF Sent
    <3> QED BY <3>1, FS_Singleton
  <2> QED BY <2>3, <2>4 DEF Behind
<1> QED BY <1>1, Inductive, PTL

-----------------------------------------------------------------------------
(* The refinement *)

\* No call deletes a run.
NoDeletes == \A c \in Calls : Call[c].op # "delete"

\* A step is one of the abstract store, or none that its callers can see.
LEMMA AbstractStep ==
  ASSUME NoDeletes, IInv, Next
  PROVE  [Calling!Next]_<<db, asked, result, answer>>
<1> USE SameStore DEF Types
<1>1. ~DeleteAsked /\ Types /\ Stands /\ TagsInv /\ SignalsInv
  <2>1. ~DeleteAsked
    BY DEF NoDeletes, DeleteAsked, IInv
  <2> QED BY <2>1 DEF IInv, Stands
<1>2. CASE Expire
  BY <1>2 DEF Expire, Calling!Next
<1>3. ASSUME NEW c \in Calls, Ask(c) PROVE Calling!Next
  BY <1>3 DEF Ask, Calling!Next
<1>4. ASSUME NEW c \in Calls, Running(c), NEW e \in Effects(c, db), db' = e[1],
             result' = [result EXCEPT ![c] = e[2]], UNCHANGED <<asked, answer>>
      PROVE  Calling!Next
  <2>1. c \in asked /\ answer[c] = "none"
    BY <1>1, <1>4 DEF Stands, Standing
  <2> QED BY <1>4, <2>1 DEF Calling!Apply, Calling!Next
<1>5. ASSUME NEW c \in Calls, Execute(c) PROVE Calling!Next
  BY <1>4, <1>5 DEF Execute, Done, Running
<1>6. ASSUME NEW c \in Calls, ReadTags(c) PROVE Calling!Next \/ UNCHANGED <<db, asked, result, answer>>
  <2>1. CASE ~db.runs
    <3>1. Effects(c, db) = {<<db, "no">>}
      BY <1>6, <2>1 DEF ReadTags, Effects
    <3>2. /\ db' = db /\ result' = [result EXCEPT ![c] = "no"] /\ UNCHANGED <<asked, answer>>
          /\ Running(c)
      BY <1>6, <2>1 DEF ReadTags, Done, Running
    <3>3. <<db, "no">> \in Effects(c, db) /\ <<db, "no">>[1] = db /\ <<db, "no">>[2] = "no"
      BY <3>1
    <3> QED BY <1>4, <3>2, <3>3
  <2>2. CASE db.runs
    BY <1>6, <2>2 DEF ReadTags
  <2> QED BY <2>1, <2>2
<1>7. ASSUME NEW c \in Calls, WriteTags(c) PROVE Calling!Next
  <2> DEFINE e == <<Tagged(db, Merged(db.tags, c)), "ok">>
  <2>1. db.runs /\ seen[c] = db.tags
    BY <1>1, <1>7 DEF WriteTags, TagsInv, Locked
  <2>2. Effects(c, db) = {e}
    BY <1>7, <2>1 DEF WriteTags, Effects
  <2>3. /\ db' = e[1] /\ result' = [result EXCEPT ![c] = e[2]] /\ UNCHANGED <<asked, answer>>
        /\ Running(c)
    BY <1>7, <2>1 DEF WriteTags, Done, Running
  <2> QED BY <1>4, <2>2, <2>3
<1>8. ASSUME NEW c \in Calls, PickSeq(c) PROVE UNCHANGED <<db, asked, result, answer>>
  BY <1>8 DEF PickSeq
<1>9. ASSUME NEW c \in Calls, InsertSignal(c)
      PROVE  Calling!Next \/ UNCHANGED <<db, asked, result, answer>>
  <2>1. CASE Collides(c)
    BY <1>9, <2>1 DEF InsertSignal, PickAgain
  <2>2. CASE ~Collides(c)
    <3> DEFINE e == <<AddSignal(db, c, seq[c]), "ok">>
    <3>1. seq[c] \in Above(db.signals)
      BY <1>1, <1>9, <2>2, PickedIsAbove DEF InsertSignal
    <3>2. Effects(c, db) = {<<AddSignal(db, c, n), "ok">> : n \in Above(db.signals)}
      BY <1>9 DEF InsertSignal, Effects
    <3>3. e \in Effects(c, db)
      BY <3>1, <3>2
    <3>4. /\ db' = e[1] /\ result' = [result EXCEPT ![c] = e[2]] /\ UNCHANGED <<asked, answer>>
          /\ Running(c)
      BY <1>9, <2>2 DEF InsertSignal, Done, Running
    <3> QED BY <1>4, <3>3, <3>4
  <2> QED BY <2>1, <2>2
<1>10. ASSUME NEW c \in Calls, Reply(c) PROVE Calling!Next
  <2>1. c \in asked /\ answer[c] = "none" /\ result[c] # "none"
    BY <1>1, <1>10 DEF Reply, Stands, Standing, Running
  <2>2. answer' = [answer EXCEPT ![c] = result[c]] /\ UNCHANGED <<db, asked, result>>
    BY <1>10 DEF Reply
  <2> QED BY <2>1, <2>2 DEF Calling!Answer, Calling!Next
<1>11. ASSUME NEW c \in Calls, Lose(c)
       PROVE  Calling!Next \/ UNCHANGED <<db, asked, result, answer>>
  <2>1. c \in asked /\ answer[c] = "none"
    BY <1>1, <1>11 DEF Lose, Stands, Standing, Running
  <2>2. UNCHANGED <<db, asked, result>> /\ answer' \in {answer, [answer EXCEPT ![c] = "error"]}
    BY <1>11 DEF Lose
  <2> QED BY <2>1, <2>2 DEF Calling!Answer, Calling!Next
<1>12. ASSUME NEW c \in Calls PROVE ~DeleteNext(c)
  BY DEF NoDeletes, DeleteNext
<1> QED BY <1>2, <1>3, <1>5, <1>6, <1>7, <1>8, <1>9, <1>10, <1>11, <1>12 DEF Next, Step

\* pg.py: every call of PostgresStore but a deletion takes effect as a whole,
\* between other calls, before it is answered, and the answer is that of its
\* last effect, whatever connections are lost on the way.
THEOREM PgAtomically == NoDeletes => (Spec => Atomically)
<1> SUFFICES ASSUME NoDeletes PROVE Spec => Atomically
  OBVIOUS
<1>1. Init => Calling!Init
  BY DEF Init
<1>2. IInv /\ [Next]_vars => [Calling!Next]_<<db, asked, result, answer>>
  <2>1. CASE UNCHANGED vars
    BY <2>1 DEF vars
  <2> QED BY <2>1, AbstractStep
<1> QED BY <1>1, <1>2, Inductive, PTL DEF Spec, Atomically, Calling!Spec

=============================================================================
