------------------------------- MODULE Chain -------------------------------
(***************************************************************************)
(* Continue-as-new.  A run that continues journals RUN_CONTINUED, creates  *)
(* its successor, marks itself CONTINUED, prunes old links and starts the  *)
(* successor, each in a store call of its own; a crash or a lost lease can *)
(* come between any two of them, and another worker then replays the body  *)
(* to the same point and goes through the calls again.  Meanwhile recover  *)
(* may find the successor, and clients follow the links to route a cancel  *)
(* request, or to wait for the outcome.                                    *)
(*                                                                         *)
(* The body of every link is one ctx.tag, which adds the link's own key,   *)
(* and then continue_as_new, or in the last link a return.  A journal is   *)
(* the sequence of its kinds.                                              *)
(***************************************************************************)
EXTENDS Integers, Sequences, FiniteSets

CONSTANTS
  Workers,
  NLinks,      \* the last link returns instead of continuing
  Keep,        \* Runtime.chain_keep
  Nobody,      \* no worker holds the lease
  MaxFaults    \* bound: workers that crash, leases that run out under a driver,
               \* drivers that are started with a record that is out of date

Links   == 1..NLinks
Drivers == Workers \X Links

ASSUME ChainAssumption ==
  /\ NLinks \in Nat \ {0} /\ Keep \in Nat /\ Nobody \notin Workers
  /\ MaxFaults \in Nat

VARIABLES
  status,     \* RunRecord.status of every link; "absent" before it is created
  tags,       \* RunRecord.tags
  cancelReq,  \* RunRecord.cancel_requested
  journal,    \* the kinds journaled by every link; empty once pruned
  lease,      \* who holds the lease of a link
  driver,     \* what the driver task of a worker for a link holds in memory
  client,     \* where the client stands that cancels the run
  at,         \* the link it has come to
  faults,
  reopened    \* history: a link that was over has been driven to another end

record  == <<status, tags, cancelReq>>
clients == <<client, at>>
vars    == <<record, journal, lease, driver, clients, faults, reopened>>

Statuses == {"absent", "RUNNING", "CONTINUED", "COMPLETED", "CANCELLED"}
Kinds    == {"RUN_STARTED", "TAGS_UPDATED", "RUN_CONTINUED", "RUN_COMPLETED",
             "RUN_CANCELLED"}
PCs      == {"down", "start", "body", "tagged", "look", "create", "link",
             "prune", "next", "ensure", "completed", "cancelled"}

\* pc: its place; mine: its copy of the journal; flag: _cancel_flags; tags:
\* what it read for the successor; pred, kept: how far it has pruned.
Idle == [pc |-> "down", mine |-> <<>>, flag |-> FALSE, tags |-> {}, pred |-> 0, kept |-> 0]

Has(s, kind) == \E n \in 1..Len(s) : s[n] = kind

In(d, p)  == driver[d].pc = p
Go(d, p)  == driver' = [driver EXCEPT ![d].pc = p]
Busy(d)   == ~In(d, "down")
Holds(d)  == lease[d[2]] = d[1]

\* The lease is released if it is still held.
Without(d) == [lease EXCEPT ![d[2]] = IF Holds(d) THEN Nobody ELSE @]

\* The driver task ends.
Leave(d) == driver' = [driver EXCEPT ![d] = Idle] /\ lease' = Without(d)

\* Journal.append: the event takes the next number of this driver's copy.
\* When another driver has it already, the append raises, and so does that
\* of the RUN_FAILED that would follow: the driver ends, nothing is changed.
AppendThen(d, kind, p) ==
  IF Len(driver[d].mine) = Len(journal[d[2]])
  THEN /\ journal' = [journal EXCEPT ![d[2]] = Append(@, kind)]
       /\ driver' = [driver EXCEPT ![d].mine = Append(@, kind), ![d].pc = p]
       /\ UNCHANGED lease
  ELSE Leave(d) /\ UNCHANGED journal

\* Journal.append_once
OnceThen(d, kind, p) ==
  IF Has(driver[d].mine, kind) THEN Go(d, p) /\ UNCHANGED <<journal, lease>>
  ELSE AppendThen(d, kind, p)

-----------------------------------------------------------------------------

\* A worker gets the lease of link i, and does not drive it.
Claimable(w, i) == lease[i] \in {Nobody, w} /\ ~Busy(<<w, i>>)

\* What a driver starts with: the journal as it is, and the request of the
\* record that _ensure was given.
Spawned(i, request) == [Idle EXCEPT !.pc = "start", !.mine = journal[i], !.flag = request]

Spawn(w, i, request) ==
  /\ Claimable(w, i)
  /\ lease' = [lease EXCEPT ![i] = w]
  /\ driver' = [driver EXCEPT ![<<w, i>>] = Spawned(i, request)]

\* A link that was over and does not replay to the end that it had: it was
\* cancelled, or its journal is pruned.
Reopens(i) == status[i] = "CANCELLED" \/ (status[i] = "CONTINUED" /\ journal[i] = <<>>)

\* Mutant: a run that is to be cancelled is not recovered.
FreeUncancelled(i) == status[i] = "RUNNING" /\ ~cancelReq[i]

\* _ensure declines a record that is terminal.
Free(i) == status[i] = "RUNNING"

\* start, resume, recover, signal or cancel reach _ensure with the record of
\* link i as it is ...
Ensure(w, i) ==
  /\ Free(i) /\ Spawn(w, i, cancelReq[i])
  /\ UNCHANGED <<record, journal, clients, faults, reopened>>

\* ... or as they have read it some time ago, when the link was running and
\* perhaps no request written: neither is looked at again with the lease.
EnsureStale(w, i) ==
  /\ faults < MaxFaults /\ faults' = faults + 1
  /\ status[i] # "absent"
  /\ \E request \in {FALSE, cancelReq[i]} :
       /\ <<"RUNNING", request>> # <<status[i], cancelReq[i]>>
       /\ Spawn(w, i, request)
  /\ reopened' = (reopened \/ Reopens(i))
  /\ UNCHANGED <<record, journal, clients>>

JournalStart(d) ==
  /\ In(d, "start") /\ OnceThen(d, "RUN_STARTED", "body")
  /\ UNCHANGED <<record, clients, faults, reopened>>

\* The heartbeat finds the lease gone and stops the driver.
Fenced(d) ==
  /\ Busy(d) /\ ~Holds(d) /\ Leave(d)
  /\ UNCHANGED <<record, journal, clients, faults, reopened>>

Tagged(d) == Has(driver[d].mine, "TAGS_UPDATED")

\* ctx.tag, live: store first, journal second.
TagStore(d) ==
  /\ In(d, "body") /\ ~Tagged(d) /\ ~driver[d].flag
  /\ tags' = [tags EXCEPT ![d[2]] = @ \cup {d[2]}]
  /\ Go(d, "tagged")
  /\ UNCHANGED <<status, cancelReq, journal, lease, clients, faults, reopened>>

TagJournal(d) ==
  /\ In(d, "tagged") /\ AppendThen(d, "TAGS_UPDATED", "body")
  /\ UNCHANGED <<record, clients, faults, reopened>>

\* A cancel request is seen at the live operation only, when the driver was
\* started with it or has been told of it since (cancel of its own worker, the
\* heartbeat, a notification).
Cancelled(d) ==
  /\ In(d, "body") /\ ~Tagged(d)
  /\ driver[d].flag \/ cancelReq[d[2]]
  /\ OnceThen(d, "RUN_CANCELLED", "cancelled")
  /\ UNCHANGED <<record, clients, faults, reopened>>

\* The body continues as new, or returns.
BodyEnds(d) ==
  /\ In(d, "body") /\ Tagged(d)
  /\ IF d[2] < NLinks THEN OnceThen(d, "RUN_CONTINUED", "look")
     ELSE OnceThen(d, "RUN_COMPLETED", "completed")
  /\ UNCHANGED <<record, clients, faults, reopened>>

\* Mutant: the successor gets the tags its predecessor was started with.
TagsOfStart(i) == tags[i] \ {i}

\* The tags of the record, which may have changed since the start.
TagsNow(i) == tags[i]

LookForSuccessor(d) ==
  /\ In(d, "look")
  /\ driver' = [driver EXCEPT ![d].tags = TagsNow(d[2]),
                  ![d].pc = IF status[d[2] + 1] = "absent" THEN "create" ELSE "link"]
  /\ UNCHANGED <<record, journal, lease, clients, faults, reopened>>

\* Mutant: a successor that exists is written over.
Replaceable(i) == TRUE

\* PRIMARY KEY (run_id)
Creatable(i) == status[i] = "absent"

\* create_run raises, and its driver ends, when another was faster.
CreateSuccessor(d) ==
  /\ In(d, "create")
  /\ IF Creatable(d[2] + 1)
     THEN /\ status' = [status EXCEPT ![d[2] + 1] = "RUNNING"]
          /\ tags' = [tags EXCEPT ![d[2] + 1] = driver[d].tags]
          /\ Go(d, "link") /\ UNCHANGED lease
     ELSE Leave(d) /\ UNCHANGED <<status, tags>>
  /\ UNCHANGED <<cancelReq, journal, clients, faults, reopened>>

MarkContinued(d) ==
  /\ In(d, "link")
  /\ status' = [status EXCEPT ![d[2]] = "CONTINUED"]
  /\ driver' = [driver EXCEPT ![d] = [Idle EXCEPT !.pc = "prune", !.pred = d[2]]]
  /\ UNCHANGED <<tags, cancelReq, journal, lease, clients, faults, reopened>>

\* Mutant: one link too many is pruned.
OldEarly(kept) == kept >= Keep

\* kept > chain_keep
Old(kept) == kept > Keep

\* One turn of _prune_chain, for the next link further back.
Prune(d) ==
  /\ In(d, "prune")
  /\ LET pred == driver[d].pred
         old  == Old(driver[d].kept + 1) IN
       IF pred = 0 \/ (pred > 0 /\ (status[pred] # "CONTINUED" \/ (old /\ journal[pred] = <<>>)))
       THEN driver' = [driver EXCEPT ![d] = [Idle EXCEPT !.pc = "next"]] /\ UNCHANGED journal
       ELSE /\ journal' = IF old THEN [journal EXCEPT ![pred] = <<>>] ELSE journal
            /\ driver' = [driver EXCEPT ![d].pred = @ - 1, ![d].kept = @ + 1]
  /\ UNCHANGED <<record, lease, clients, faults, reopened>>

\* The record of the successor is loaded; its driver ends unless that runs.
LoadNext(d) ==
  /\ In(d, "next")
  /\ IF status[d[2] + 1] = "RUNNING"
     THEN /\ driver' = [driver EXCEPT ![d].pc = "ensure", ![d].flag = cancelReq[d[2] + 1]]
          /\ UNCHANGED lease
     ELSE Leave(d)
  /\ UNCHANGED <<record, journal, clients, faults, reopened>>

\* _ensure of the successor with that record, unless it is driven here already
\* or leased by another worker; then this driver ends.
EnsureNext(d) ==
  /\ In(d, "ensure")
  /\ LET w == d[1]  i == d[2] + 1 IN
       IF Claimable(w, i)
       THEN /\ driver' = [driver EXCEPT ![d] = Idle, ![<<w, i>>] = Spawned(i, driver[d].flag)]
            /\ lease' = [Without(d) EXCEPT ![i] = w]
            /\ reopened' = (reopened \/ Reopens(i))
       ELSE Leave(d) /\ UNCHANGED reopened
  /\ UNCHANGED <<record, journal, clients, faults>>

\* The status of the way that the body has ended.
MarkFinal(d) ==
  /\ \/ In(d, "completed") /\ status' = [status EXCEPT ![d[2]] = "COMPLETED"]
     \/ In(d, "cancelled") /\ status' = [status EXCEPT ![d[2]] = "CANCELLED"]
  /\ Leave(d)
  /\ UNCHANGED <<tags, cancelReq, journal, clients, faults, reopened>>

Drive(d) ==
  \/ JournalStart(d) \/ TagStore(d) \/ TagJournal(d) \/ Cancelled(d) \/ BodyEnds(d)
  \/ LookForSuccessor(d) \/ CreateSuccessor(d) \/ MarkContinued(d) \/ Prune(d)
  \/ LoadNext(d) \/ EnsureNext(d) \/ MarkFinal(d)

-----------------------------------------------------------------------------

\* A worker dies with all its drivers; its leases remain for now.
Crash(w) ==
  /\ faults < MaxFaults /\ faults' = faults + 1
  /\ \E i \in Links : Busy(<<w, i>>)
  /\ driver' = [d \in Drivers |-> IF d[1] = w THEN Idle ELSE driver[d]]
  /\ UNCHANGED <<record, journal, lease, clients, reopened>>

\* The lease of a link that nobody drives any more runs out ...
Expire(i) ==
  /\ lease[i] # Nobody /\ ~Busy(<<lease[i], i>>)
  /\ lease' = [lease EXCEPT ![i] = Nobody]
  /\ UNCHANGED <<record, journal, driver, clients, faults, reopened>>

\* ... or that of a driver that is stalled between the calls of a continue,
\* and then goes on (Ownership lets leases run out anywhere).
Lapse(i) ==
  /\ faults < MaxFaults /\ faults' = faults + 1
  /\ lease[i] # Nobody /\ driver[<<lease[i], i>>].pc \in {"look", "create", "link"}
  /\ lease' = [lease EXCEPT ![i] = Nobody]
  /\ UNCHANGED <<record, journal, driver, clients, reopened>>

\* Where _follow_chain can come to from the first link, one record after the
\* other: each of the links before was CONTINUED when its record was loaded, and
\* is still, unless one has been reopened.
Ends ==
  {i \in Links : /\ status[i] \notin {"absent", "CONTINUED"}
                 /\ \A j \in 1..(i - 1) :
                      status[j] = "CONTINUED" \/ (reopened /\ status[j + 1] # "absent")}

\* Runtime.cancel by the id of the first link: follow, then write.  (What it
\* may do then, if nobody drives the link here, is Ensure or EnsureStale.)
Cancel ==
  /\ client = "idle" /\ client' = "cancel"
  /\ \E i \in Ends : status[i] = "RUNNING" /\ at' = i
  /\ UNCHANGED <<record, journal, lease, driver, faults, reopened>>

RequestCancel ==
  /\ client = "cancel" /\ client' = "done" /\ at' = 1
  /\ cancelReq' = [cancelReq EXCEPT ![at] = TRUE]
  /\ UNCHANGED <<status, tags, journal, lease, driver, faults, reopened>>

\* The links whose outcome RunHandle.result and _await_remote, which follow the
\* links until the last is over, can return.
Answers == {i \in Ends : status[i] # "RUNNING"}

-----------------------------------------------------------------------------

Init ==
  /\ status = [i \in Links |-> IF i = 1 THEN "RUNNING" ELSE "absent"]
  /\ tags = [i \in Links |-> {}] /\ cancelReq = [i \in Links |-> FALSE]
  /\ journal = [i \in Links |-> <<>>] /\ lease = [i \in Links |-> Nobody]
  /\ driver = [d \in Drivers |-> Idle]
  /\ client = "idle" /\ at = 1
  /\ faults = 0 /\ reopened = FALSE

Next ==
  \/ \E w \in Workers, i \in Links : Ensure(w, i) \/ EnsureStale(w, i)
  \/ \E d \in Drivers : Drive(d) \/ Fenced(d)
  \/ \E w \in Workers : Crash(w)
  \/ \E i \in Links : Expire(i) \/ Lapse(i)
  \/ Cancel \/ RequestCancel

Spec == Init /\ [][Next]_vars

\* What happens by itself: drivers go on, workers recover what nobody drives,
\* and the leases of the dead run out.
Progress ==
  \/ \E d \in Drivers : Drive(d)
  \/ \E w \in Workers, i \in Links : Ensure(w, i)
  \/ \E i \in Links : Expire(i)

\* As long as one of these can happen, one of them does.
FairSpec == Spec /\ WF_vars(Progress)

-----------------------------------------------------------------------------

Existing == {i \in Links : status[i] # "absent"}
End      == CHOOSE i \in Links : status[i] # "absent" /\ i + 1 \notin Existing
Outcome  == IF status[End] = "CONTINUED" THEN "RUNNING" ELSE status[End]

OneComputation == INSTANCE Lineage WITH end <- End, outcome <- Outcome

\* However its workers crash, stall and take over, a chain is one computation
\* with one live end and one outcome (runtime.py: "Every step below is
\* idempotent, so a crash anywhere in this block resumes cleanly"), until a
\* link that was cancelled or pruned is driven again from a record that was
\* read before: that is how the code can still change an outcome.
IsOneComputation ==
  OneComputation!Init /\ [][reopened \/ OneComputation!Next]_<<End, Outcome>>

\* The history of the newest Keep links behind the live end is kept, and that
\* of the live end too, whoever prunes and however far others have come, and
\* whatever is driven again.
KeepsNewest ==
  \A i \in Links : status[i] = "CONTINUED" /\ journal[i] = <<>> => i + Keep < End

\* What the body of a link has tagged is on every later link, although links
\* that are over are driven again.
TagsCarried == \A i, j \in Existing : i < j => i \in tags[j]

\* Whoever waits for the outcome of a chain by its first id gets none but that
\* of its last link, unless a link that was over has been reopened; and there is
\* an outcome to be had in the end.
ResultReturns ==
  /\ [](reopened \/ Answers \subseteq {End})
  /\ <>[](Answers # {})

=============================================================================
