------------------------------ MODULE Database ------------------------------
(***************************************************************************)
(* The rows one run and one schedule have in the SQL tables, and what a    *)
(* store call makes of them when nobody interferes.                        *)
(*                                                                         *)
(* A call is a record with its kind in `op' and its worker in `by'; it is  *)
(* known by its place in Call.  A signal row is <<seq, call>>, an event row *)
(* <<seq, call>>; a tag is a key whose value does not matter, and of the   *)
(* schedule only next_fire_at is kept, as the number of its occurrence.    *)
(***************************************************************************)
EXTENDS Integers, Sequences, FiniteSets

CONSTANTS
  Workers,   \* worker processes that share the database
  Call,      \* the store calls they make, one after the other
  Keys,      \* tag keys
  Numbers,   \* bound: the sequence numbers signals may get
  Nobody     \* no worker: the run has no lease row

Ops == {"create", "tag", "append", "signal", "acquire", "renew", "release",
        "claim", "delete"}

Calls == DOMAIN Call

ASSUME CallsAssumption ==
  /\ Nobody \notin Workers /\ Numbers \subseteq Nat
  /\ Call \in Seq([op : Ops, by : Workers, set : SUBSET Keys, drop : SUBSET Keys, at : Nat])

Answers == {"ok", "conflict", "no", "error"}

Empty == [runs |-> FALSE, tags |-> {}, run_tags |-> {}, events |-> {},
          signals |-> {}, lease |-> Nobody, expired |-> FALSE, fire |-> 0]

\* PRIMARY KEY (run_id, seq): the rows a new one would collide with.
Taken(rows, n) == \E row \in rows : row[1] = n

\* COALESCE(MAX(seq), -1) + 1
Above(rows)   == {n \in Numbers : \A row \in rows : row[1] < n}
NextSeq(rows) == CHOOSE n \in Above(rows) : \A m \in Above(rows) : n <= m

\* PRIMARY KEY (run_id) and (run_id, tag_key): a run cannot be created.
Exists(d, c) == d.runs \/ d.run_tags \cap Call[c].set # {}

\* A new run with its tags, and the index of them.
Created(d, c) == [d EXCEPT !.runs = TRUE, !.tags = Call[c].set, !.run_tags = Call[c].set]

\* merge_tags: set the given keys, drop those whose value is None.
Merged(tags, c) == (tags \cup Call[c].set) \ Call[c].drop

\* The merged tags and their index are written together.
Tagged(d, tags) == [d EXCEPT !.tags = tags, !.run_tags = tags]

AddEvent(d, c) == [d EXCEPT !.events = @ \cup {<<Call[c].at, c>>}]

AddSignal(d, c, n) == [d EXCEPT !.signals = @ \cup {<<n, c>>}]

\* DELETE ... WHERE owner = w
Released(d, w) == IF d.lease = w THEN [d EXCEPT !.lease = Nobody] ELSE d

\* Free, held by w, or expired.
FreeFor(d, w) == d.lease \in {Nobody, w} \/ d.expired

Leased(d, w) == [d EXCEPT !.lease = w, !.expired = FALSE]

Claimed(d) == [d EXCEPT !.fire = @ + 1]

\* delete_run empties these tables one after the other.
Tables == <<"events", "signals", "run_tags", "lease", "runs">>

Cleared(d, table) ==
  IF table = "runs" THEN [d EXCEPT !.runs = FALSE, !.tags = {}]
  ELSE [d EXCEPT ![table] = Empty[table]]

\* Call c on the rows d: the rows after it, and its answer.
Effects(c, d) ==
  CASE Call[c].op = "create" ->
         {IF Exists(d, c) THEN <<d, "conflict">> ELSE <<Created(d, c), "ok">>}
    [] Call[c].op = "tag" ->
         {IF d.runs THEN <<Tagged(d, Merged(d.tags, c)), "ok">> ELSE <<d, "no">>}
    [] Call[c].op = "append" ->
         {IF Taken(d.events, Call[c].at) THEN <<d, "conflict">> ELSE <<AddEvent(d, c), "ok">>}
    [] Call[c].op = "signal" ->
         {<<AddSignal(d, c, n), "ok">> : n \in Above(d.signals)}
    [] Call[c].op = "acquire" ->
         {IF FreeFor(d, Call[c].by) THEN <<Leased(d, Call[c].by), "ok">> ELSE <<d, "no">>}
    [] Call[c].op = "renew" ->
         {IF d.lease = Call[c].by THEN <<Leased(d, Call[c].by), "ok">> ELSE <<d, "no">>}
    [] Call[c].op = "release" -> {<<Released(d, Call[c].by), "ok">>}
    [] Call[c].op = "claim" ->
         {IF d.fire = Call[c].at THEN <<Claimed(d), "ok">> ELSE <<d, "no">>}
    [] Call[c].op = "delete" ->
         {<<Cleared(d, Tables[i]), "ok">> : i \in DOMAIN Tables}

=============================================================================
