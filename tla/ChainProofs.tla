---------------------------- MODULE ChainProofs ----------------------------
(***************************************************************************)
(* What a chain promises, for every number of links, workers, faults and   *)
(* every chain_keep.  The tags and the pruning are right whatever is       *)
(* driven again; that a chain is one computation is shown until a link     *)
(* that was over is reopened.                                              *)
(***************************************************************************)
EXTENDS Chain, SequenceTheorems, TLAPS

USE ChainAssumption DEF ChainAssumption, Links, Drivers

DriverState == [pc : PCs, mine : Seq(Kinds), flag : BOOLEAN, tags : SUBSET Links,
                pred : Nat, kept : Nat]

Types ==
  /\ status \in [Links -> Statuses] /\ tags \in [Links -> SUBSET Links]
  /\ cancelReq \in [Links -> BOOLEAN] /\ journal \in [Links -> Seq(Kinds)]
  /\ lease \in [Links -> Workers \cup {Nobody}]
  /\ driver \in [Drivers -> DriverState]
  /\ reopened \in BOOLEAN

\* Places where a driver has not yet come to the end of its link, and places
\* behind RUN_CONTINUED.
Inside == {"start", "body", "tagged", "completed", "cancelled"}
Behind == {"look", "create", "link", "prune", "next", "ensure"}

Exists(i) == i \in Links /\ status[i] # "absent"

\* The links that exist are the first ones.
Reach == \E n \in Links : \A i \in Links : status[i] # "absent" <=> i <= n

-----------------------------------------------------------------------------
(* What is true of every link and driver, whatever has been reopened *)

LinkBase(i) ==
  /\ Has(journal[i], "TAGS_UPDATED") => i \in tags[i]
  /\ status[i] = "absent" => journal[i] = <<>>
  /\ status[i] # "absent" => \A j \in 1..(i - 1) : j \in tags[i]
  /\ status[i] = "CONTINUED" => Exists(i + 1)
  /\ journal[i] = <<>> /\ Exists(i + 1) => Exists(i + Keep + 1)

\* A journal that is empty was never begun or is pruned, and then the next link
\* exists.
Kept(i) == journal[i] # <<>> \/ Exists(i + 1)

DriverBase(d) ==
  LET pc == driver[d].pc  mine == driver[d].mine  i == d[2] IN
  pc # "down" =>
    /\ status[i] # "absent"
    /\ mine # <<>> => Kept(i)
    /\ Has(mine, "TAGS_UPDATED") \/ pc \in {"tagged", "look", "create"} => i \in tags[i]
    /\ pc \in Behind => i < NLinks
    /\ pc \in {"look", "create"} => Kept(i)
    /\ pc = "create" => 1..i \subseteq driver[d].tags
    /\ pc \in {"link", "prune", "ensure"} => Exists(i + 1)
    /\ pc = "prune" => driver[d].pred + driver[d].kept = i

Base ==
  /\ Types
  /\ Reach
  /\ \A i \in Links : LinkBase(i)
  /\ \A d \in Drivers : DriverBase(d)

-----------------------------------------------------------------------------
(* What is true as long as no link has been reopened *)

\* A journal of link i has one end, and the right one.
Regular(s, i) ==
  /\ s = <<>> \/ Has(s, "RUN_STARTED")
  /\ Has(s, "RUN_CONTINUED") => Has(s, "TAGS_UPDATED") /\ i < NLinks
  /\ Has(s, "RUN_COMPLETED") => Has(s, "TAGS_UPDATED") /\ i = NLinks

\* Link i will continue or has continued; its journal may be pruned then.
Goes(i) == status[i] = "CONTINUED" \/ Has(journal[i], "RUN_CONTINUED")

LinkOK(i) ==
  /\ Regular(journal[i], i)
  /\ status[i] = "COMPLETED" => Has(journal[i], "RUN_COMPLETED")
  /\ status[i] = "CANCELLED" => ~Has(journal[i], "TAGS_UPDATED")
  /\ status[i] = "CONTINUED" => journal[i] = <<>> \/ Has(journal[i], "RUN_CONTINUED")
  /\ status[i] # "absent" => \A j \in 1..(i - 1) : Goes(j)

\* A driver knows the journal of its link, or all that matters of one that may
\* be pruned already.
Knows(d) ==
  IF status[d[2]] = "CONTINUED"
  THEN \A k \in {"RUN_STARTED", "TAGS_UPDATED", "RUN_CONTINUED"} : Has(driver[d].mine, k)
  ELSE driver[d].mine = journal[d[2]]

\* A driver that is not past the end of its link holds the lease.
DriverOK(d) ==
  LET pc == driver[d].pc  mine == driver[d].mine  i == d[2] IN
  /\ pc \in Inside => Holds(d) /\ Knows(d) /\ Regular(mine, i) /\ status[i] # "CANCELLED"
  /\ pc \in {"body", "tagged"} => Has(mine, "RUN_STARTED")
  /\ pc \in {"tagged", "cancelled"} => ~Has(mine, "TAGS_UPDATED")
  /\ pc = "completed" => Has(mine, "RUN_COMPLETED")
  /\ pc \in Behind => Goes(i)

Whole ==
  /\ \A i \in Links : LinkOK(i)
  /\ \A d \in Drivers : DriverOK(d)

IInv == Base /\ (reopened \/ Whole)

-----------------------------------------------------------------------------
(* Journals *)

\* An empty journal has no event.
LEMMA HasNothing == ASSUME NEW k PROVE ~Has(<<>>, k)
BY DEF Has

\* What is appended is had, and nothing is lost.
LEMMA HasAppended ==
  ASSUME NEW s \in Seq(Kinds), NEW e \in Kinds, NEW k
  PROVE  Has(Append(s, e), k) <=> Has(s, k) \/ e = k
<1>1. Len(Append(s, e)) = Len(s) + 1 /\ (\A n \in 1..Len(s) : Append(s, e)[n] = s[n])
      /\ Append(s, e)[Len(s) + 1] = e
  BY AppendProperties
<1>2. Len(s) \in Nat
  BY LenProperties
<1> QED BY <1>1, <1>2 DEF Has

\* Two drivers of one worker for one link are one.
LEMMA SameDriver ==
  ASSUME NEW d \in Drivers, NEW e \in Drivers, d[1] = e[1], d[2] = e[2]
  PROVE  d = e
OBVIOUS

\* The records that drivers become are driver states.
LEMMA IdleType == Idle \in DriverState
BY DEF Idle, DriverState, PCs

\* So is one that has journaled and gone on,
LEMMA JournalingType ==
  ASSUME NEW r \in DriverState, NEW m \in Seq(Kinds), NEW p \in PCs
  PROVE  [r EXCEPT !.mine = m, !.pc = p] \in DriverState
BY DEF DriverState

\* one that has gone on,
LEMMA GoingType ==
  ASSUME NEW r \in DriverState, NEW p \in PCs
  PROVE  [r EXCEPT !.pc = p] \in DriverState
BY DEF DriverState

\* one that starts to prune,
LEMMA PruningStartType ==
  ASSUME NEW r \in DriverState, NEW m \in Nat
  PROVE  [r EXCEPT !.pc = "prune", !.pred = m] \in DriverState
BY DEF DriverState, PCs

\* and one that prunes the next link.
LEMMA PruningType ==
  ASSUME NEW r \in DriverState, NEW m \in Nat, NEW n \in Nat
  PROVE  [r EXCEPT !.pred = m, !.kept = n] \in DriverState
BY DEF DriverState

-----------------------------------------------------------------------------
(* Steps and the base *)

\* What is never taken back of a link: its record and its tags.
Grows(i) == status[i] # "absent" => status'[i] # "absent" /\ tags[i] \subseteq tags'[i]

\* A link that no step touches is still right when others grow.
LEMMA LinkBaseStays ==
  ASSUME Base, NEW i \in Links, status'[i] = status[i], journal'[i] = journal[i],
         \A j \in Links : Grows(j), journal[i] = <<>> /\ Exists(i + 1)' => Exists(i + 1)
  PROVE  LinkBase(i)'
<1>1. LinkBase(i) /\ Types /\ Keep \in Nat /\ i \in Nat
  BY DEF Base
<1>2. /\ Exists(i + 1) => Exists(i + 1)'
      /\ Exists(i + Keep + 1) => Exists(i + Keep + 1)'
  BY DEF Grows, Exists
<1>3. (Has(journal[i], "TAGS_UPDATED") => i \in tags[i])'
  <2>1. Has(journal[i], "TAGS_UPDATED") => status[i] # "absent"
    BY <1>1, HasNothing DEF LinkBase
  <2> QED BY <1>1, <2>1 DEF LinkBase, Grows, Has
<1>4. (status[i] # "absent" => \A j \in 1..(i - 1) : j \in tags[i])'
  BY <1>1 DEF LinkBase, Grows
<1> QED BY <1>1, <1>2, <1>3, <1>4 DEF LinkBase

\* A driver that stays is still right when the links grow.
LEMMA DriverBaseStays ==
  ASSUME Base, NEW d \in Drivers, driver'[d] = driver[d], \A j \in Links : Grows(j),
         Kept(d[2]) => Kept(d[2])'
  PROVE  DriverBase(d)'
<1>1. DriverBase(d) /\ d[2] \in Links
  BY DEF Base
<1>2. Exists(d[2] + 1) => Exists(d[2] + 1)'
  BY DEF Grows, Exists
<1> QED BY <1>1, <1>2 DEF DriverBase, Grows, Has

\* Only drivers and leases change.
LEMMA DriversMoveBase ==
  ASSUME Base, UNCHANGED <<record, journal>>, reopened' \in BOOLEAN,
         lease' \in [Links -> Workers \cup {Nobody}], driver' \in [Drivers -> DriverState],
         \A d \in Drivers : driver'[d] = driver[d] \/ DriverBase(d)'
  PROVE  Base'
<1>1. \A i \in Links : Grows(i)
  BY DEF Grows, record
<1>2. \A i \in Links : LinkBase(i)'
  BY <1>1, LinkBaseStays DEF record, Exists
<1>3. ASSUME NEW d \in Drivers PROVE DriverBase(d)'
  <2>1. CASE driver'[d] = driver[d]
    BY <1>1, <2>1, DriverBaseStays DEF record, Kept, Exists
  <2> QED BY <2>1
<1>4. Types' /\ Reach'
  BY DEF Base, Types, Reach, record
<1> QED BY <1>2, <1>3, <1>4 DEF Base

\* A driver that is down is right.
LEMMA IdleIsRight ==
  ASSUME NEW d \in Drivers, driver'[d] = Idle
  PROVE  DriverBase(d)' /\ DriverOK(d)'
BY DEF DriverBase, DriverOK, Idle, Inside, Behind

\* A driver moves from one place to another one.
LEMMA DriverMovesBase ==
  ASSUME Base, UNCHANGED <<record, journal, reopened>>, NEW d \in Drivers, NEW r \in DriverState,
         driver' = [driver EXCEPT ![d] = r], lease' \in {lease, Without(d)}, DriverBase(d)'
  PROVE  Base'
<1>1. lease' \in [Links -> Workers \cup {Nobody}] /\ driver' \in [Drivers -> DriverState]
  BY DEF Base, Types, Without
<1>2. \A e \in Drivers : e # d => driver'[e] = driver[e]
  BY DEF Base, Types
<1>3. reopened' \in BOOLEAN
  BY DEF Base, Types
<1> QED BY <1>1, <1>2, <1>3, DriversMoveBase

\* A driver ends.
LEMMA LeavesBase ==
  ASSUME Base, UNCHANGED <<record, journal, reopened>>, NEW d \in Drivers, Leave(d)
  PROVE  Base'
<1>1. driver'[d] = Idle
  BY DEF Leave, Base, Types
<1> QED BY <1>1, IdleIsRight, IdleType, DriverMovesBase DEF Leave

\* A driver journals an event of its link and goes on.
LEMMA JournalsBase ==
  ASSUME Base, NEW d \in Drivers, NEW k \in Kinds, NEW p \in {"body", "look", "completed", "cancelled"},
         driver[d].pc \in Inside, AppendThen(d, k, p), UNCHANGED <<record, reopened>>,
         k = "TAGS_UPDATED" => d[2] \in tags[d[2]],
         p = "look" => d[2] < NLinks /\ d[2] \in tags[d[2]]
  PROVE  Base'
<1> DEFINE i == d[2]
           s == journal[i]
           m == driver[d].mine
<1>1. Types /\ LinkBase(i) /\ DriverBase(d) /\ i \in Links /\ s \in Seq(Kinds) /\ driver[d] \in DriverState
  BY DEF Base, Types
<1>2. m \in Seq(Kinds) /\ status[i] # "absent"
  BY <1>1 DEF DriverState, DriverBase, Inside
<1>3. CASE Len(m) # Len(s)
  <2>1. Leave(d) /\ UNCHANGED journal
    BY <1>3 DEF AppendThen
  <2> QED BY <2>1, LeavesBase
<1>4. CASE Len(m) = Len(s)
  <2>1. /\ journal' = [journal EXCEPT ![i] = Append(s, k)]
        /\ driver' = [driver EXCEPT ![d].mine = Append(m, k), ![d].pc = p]
        /\ lease' = lease
    BY <1>4 DEF AppendThen
  <2>2. /\ Append(s, k) \in Seq(Kinds) /\ Append(s, k) # <<>>
        /\ Append(m, k) \in Seq(Kinds) /\ Append(m, k) # <<>>
    BY <1>1, <1>2, AppendProperties
  <2>3. journal'[i] = Append(s, k) /\ \A j \in Links : j # i => journal'[j] = journal[j]
    BY <1>1, <2>1 DEF Types
  <2>4. \A j \in Links : Grows(j)
    BY DEF Grows, record
  <2>5. \A j \in Links : Kept(j) => Kept(j)'
    BY <2>2, <2>3 DEF Kept, Exists, record
  <2>6. LinkBase(i)'
    <3>1. (Has(journal[i], "TAGS_UPDATED") => i \in tags[i])'
      BY <1>1, <2>3, HasAppended DEF LinkBase, record
    <3> QED BY <1>1, <1>2, <2>2, <2>3, <3>1 DEF LinkBase, Exists, record
  <2>7. ASSUME NEW j \in Links, j # i PROVE LinkBase(j)'
    BY <2>3, <2>4, <2>7, LinkBaseStays DEF record, Exists
  <2>8. driver'[d] = [driver[d] EXCEPT !.mine = Append(m, k), !.pc = p]
    BY <1>1, <2>1 DEF Types
  <2>9. driver'[d].mine = Append(m, k) /\ driver'[d].pc = p /\ driver'[d] \in DriverState
    <3>1. p \in PCs
      BY DEF PCs
    <3>2. driver'[d] \in DriverState
      <4>1. driver[d] \in DriverState /\ Append(m, k) \in Seq(Kinds)
        BY <1>1, <2>2
      <4> HIDE DEF m
      <4>2. [driver[d] EXCEPT !.mine = Append(m, k), !.pc = p] \in DriverState
        BY <3>1, <4>1, JournalingType
      <4> QED BY <2>8, <4>2
    <3> QED BY <1>1, <2>8, <3>2 DEF DriverState
  <2>10. DriverBase(d)'
    <3>1. Kept(i)'
      BY <2>2, <2>3 DEF Kept
    <3>2. (Has(driver[d].mine, "TAGS_UPDATED") => i \in tags[i])'
      BY <1>1, <1>2, <2>9, HasAppended DEF DriverBase, Inside, record
    <3> QED BY <1>2, <2>9, <3>1, <3>2 DEF DriverBase, Behind, record
  <2>11. ASSUME NEW e \in Drivers, e # d PROVE DriverBase(e)'
    <3>1. driver'[e] = driver[e]
      BY <1>1, <2>1, <2>11 DEF Types
    <3> QED BY <2>4, <2>5, <3>1, DriverBaseStays
  <2>12. driver' \in [Drivers -> DriverState]
    BY <1>1, <2>1, <2>8, <2>9 DEF Types
  <2>13. Types' /\ Reach'
    BY <1>1, <2>1, <2>2, <2>12 DEF Base, Types, Reach, record
  <2> QED BY <2>6, <2>7, <2>10, <2>11, <2>13 DEF Base
<1> QED BY <1>3, <1>4

\* The same unless its journal has the event already.
LEMMA JournalsOnceBase ==
  ASSUME Base, NEW d \in Drivers, NEW k \in Kinds \ {"TAGS_UPDATED"},
         NEW p \in {"body", "look", "completed", "cancelled"},
         driver[d].pc \in Inside, OnceThen(d, k, p), UNCHANGED <<record, reopened>>,
         p = "look" => d[2] < NLinks /\ Tagged(d)
  PROVE  Base'
<1>1. DriverBase(d) /\ d[2] \in Links /\ driver[d] \in DriverState
  BY DEF Base, Types
<1>2. p = "look" => d[2] \in tags[d[2]]
  BY <1>1 DEF DriverBase, Inside, Tagged
<1>3. CASE Has(driver[d].mine, k)
  <2>1. Go(d, p) /\ UNCHANGED <<journal, lease>>
    BY <1>3 DEF OnceThen
  <2>2. driver'[d] = [driver[d] EXCEPT !.pc = p]
        /\ driver' = [driver EXCEPT ![d] = [driver[d] EXCEPT !.pc = p]]
    BY <2>1 DEF Go, Base, Types
  <2>3. driver'[d].pc = p /\ driver'[d].mine = driver[d].mine /\ p \in PCs
    BY <1>1, <2>2 DEF DriverState, PCs
  <2>4. driver[d].mine # <<>>
    BY <1>3, HasNothing
  <2>5. Kept(d[2])'
    BY <1>1, <2>1, <2>4 DEF DriverBase, Inside, Kept, Exists, record
  <2>6. DriverBase(d)'
    BY <1>1, <1>2, <2>3, <2>5 DEF DriverBase, Inside, Behind, record, Has
  <2> QED BY <1>1, <2>1, <2>2, <2>3, <2>6, GoingType, DriverMovesBase
<1>4. CASE ~Has(driver[d].mine, k)
  <2>1. AppendThen(d, k, p)
    BY <1>4 DEF OnceThen
  <2> QED BY <1>2, <2>1, JournalsBase
<1> QED BY <1>3, <1>4

-----------------------------------------------------------------------------
(* The base, step by step *)

\* A driver starts in a driver state.
LEMMA SpawnedType ==
  ASSUME Types, NEW i \in Links, NEW request \in BOOLEAN
  PROVE  Spawned(i, request) \in DriverState
BY DEF Types, Spawned, Idle, DriverState, PCs

\* What a driver starts with is the journal as it is.
LEMMA SpawnedBase ==
  ASSUME Base, UNCHANGED <<record, journal>>, NEW d \in Drivers, NEW request \in BOOLEAN,
         status[d[2]] # "absent", driver'[d] = Spawned(d[2], request)
  PROVE  DriverBase(d)'
<1>1. LinkBase(d[2]) /\ d[2] \in Links
  BY DEF Base
<1>2. driver'[d].pc = "start" /\ driver'[d].mine = journal[d[2]]
  BY DEF Spawned, Idle
<1>3. journal[d[2]] # <<>> => Kept(d[2])'
  BY DEF Kept, record
<1> QED BY <1>1, <1>2, <1>3 DEF DriverBase, LinkBase, Behind, record, Has

\* A driver is started of a link that exists.
LEMMA SpawnKeepsBase ==
  ASSUME Base, NEW w \in Workers, NEW i \in Links, NEW request \in BOOLEAN, Spawn(w, i, request),
         UNCHANGED <<record, journal>>, status[i] # "absent", reopened' \in BOOLEAN
  PROVE  Base'
<1> DEFINE d == <<w, i>>
<1>1. d \in Drivers /\ d[2] = i /\ Types
  BY DEF Base
<1>2. lease' = [lease EXCEPT ![i] = w] /\ driver' = [driver EXCEPT ![d] = Spawned(i, request)]
  BY DEF Spawn
<1>3. Spawned(i, request) \in DriverState
  BY <1>1, SpawnedType
<1>4. driver'[d] = Spawned(i, request) /\ \A e \in Drivers : e # d => driver'[e] = driver[e]
  BY <1>1, <1>2 DEF Types
<1>5. DriverBase(d)'
  BY <1>1, <1>4, SpawnedBase
<1>6. lease' \in [Links -> Workers \cup {Nobody}] /\ driver' \in [Drivers -> DriverState]
  BY <1>1, <1>2, <1>3 DEF Types
<1> QED BY <1>4, <1>5, <1>6, DriversMoveBase

\* The same from the record as it is or as it was.
LEMMA EnsuresBase ==
  ASSUME Base, NEW w \in Workers, NEW i \in Links, Ensure(w, i) \/ EnsureStale(w, i)
  PROVE  Base'
<1>1. cancelReq[i] \in BOOLEAN /\ reopened \in BOOLEAN
  BY DEF Base, Types
<1>2. CASE Ensure(w, i)
  BY <1>1, <1>2, SpawnKeepsBase DEF Ensure, Free
<1>3. CASE EnsureStale(w, i)
  <2>1. PICK request \in {FALSE, cancelReq[i]} : Spawn(w, i, request)
    BY <1>3 DEF EnsureStale
  <2>2. request \in BOOLEAN
    BY <1>1
  <2>3. UNCHANGED <<record, journal>> /\ status[i] # "absent" /\ reopened' \in BOOLEAN
    <3>1. reopened' = (reopened \/ Reopens(i))
      BY <1>3 DEF EnsureStale
    <3> QED BY <1>1, <1>3, <3>1 DEF EnsureStale, Reopens
  <2> QED BY <2>1, <2>2, <2>3, SpawnKeepsBase
<1> QED BY <1>2, <1>3

\* The record of the successor is loaded once that exists.
LEMMA LoadNextBase ==
  ASSUME Base, NEW d \in Drivers, LoadNext(d)
  PROVE  Base'
<1> DEFINE r == [driver[d] EXCEPT !.pc = "ensure", !.flag = cancelReq[d[2] + 1]]
<1>1. DriverBase(d) /\ driver[d] \in DriverState /\ UNCHANGED <<record, journal, reopened>> /\ In(d, "next")
  BY DEF Base, Types, LoadNext
<1>2. status[d[2]] # "absent" /\ d[2] < NLinks /\ d[2] + 1 \in Links
  BY <1>1 DEF DriverBase, In, Behind
<1>3. CASE status[d[2] + 1] = "RUNNING"
  <2>1. driver' = [driver EXCEPT ![d] = r] /\ lease' = lease
    BY <1>3 DEF LoadNext
  <2>2. r \in DriverState
    <3>1. cancelReq[d[2] + 1] \in BOOLEAN
      BY <1>2 DEF Base, Types
    <3> QED BY <1>1, <3>1 DEF DriverState, PCs
  <2>3. driver'[d] = r
    BY <2>1 DEF Base, Types
  <2>4. driver'[d].pc = "ensure" /\ driver'[d].mine = driver[d].mine
    BY <1>1, <2>3 DEF DriverState
  <2>5. driver[d].mine # <<>> => Kept(d[2])'
    BY <1>1 DEF DriverBase, In, Kept, Exists, record
  <2>6. DriverBase(d)'
    BY <1>1, <1>2, <1>3, <2>4, <2>5 DEF DriverBase, In, Exists, record, Has
  <2> QED BY <1>1, <2>1, <2>2, <2>6, DriverMovesBase
<1>4. CASE status[d[2] + 1] # "RUNNING"
  BY <1>1, <1>4, LeavesBase DEF LoadNext
<1> QED BY <1>3, <1>4

\* The driver of the successor takes the place of its predecessor's.
LEMMA EnsureNextBase ==
  ASSUME Base, NEW d \in Drivers, EnsureNext(d)
  PROVE  Base'
<1> DEFINE i == d[2] + 1
           e == <<d[1], i>>
<1>1. Types /\ DriverBase(d) /\ driver[d] \in DriverState /\ UNCHANGED <<record, journal>> /\ In(d, "ensure")
  BY DEF Base, Types, EnsureNext
<1>2. i \in Links /\ e \in Drivers /\ e[2] = i /\ e # d
  BY <1>1 DEF DriverBase, In, Behind
<1>3. CASE ~Claimable(d[1], i)
  <2>1. Leave(d) /\ reopened' = reopened
    BY <1>3 DEF EnsureNext
  <2> QED BY <1>1, <2>1, LeavesBase
<1>4. CASE Claimable(d[1], i)
  <2>1. /\ driver' = [driver EXCEPT ![d] = Idle, ![e] = Spawned(i, driver[d].flag)]
        /\ lease' = [Without(d) EXCEPT ![i] = d[1]]
        /\ reopened' = (reopened \/ Reopens(i))
    BY <1>4 DEF EnsureNext
  <2>2. Without(d) \in [Links -> Workers \cup {Nobody}]
    BY <1>1 DEF Without, Types
  <2>3. driver[d].flag \in BOOLEAN /\ Spawned(i, driver[d].flag) \in DriverState
    BY <1>1, <1>2, SpawnedType DEF DriverState
  <2>4. /\ driver'[e] = Spawned(i, driver[d].flag) /\ driver'[d] = Idle
        /\ \A o \in Drivers : o # d /\ o # e => driver'[o] = driver[o]
    BY <1>1, <1>2, <2>1 DEF Types
  <2>5. lease' \in [Links -> Workers \cup {Nobody}] /\ driver' \in [Drivers -> DriverState]
    BY <1>1, <1>2, <2>1, <2>2, <2>3, IdleType DEF Types
  <2>6. reopened' \in BOOLEAN
    BY <1>1, <2>1 DEF Types, Reopens
  <2>7. status[i] # "absent"
    BY <1>1 DEF DriverBase, In, Exists
  <2>8. DriverBase(e)' /\ DriverBase(d)'
    BY <1>1, <1>2, <2>3, <2>4, <2>7, SpawnedBase, IdleIsRight
  <2> QED BY <1>1, <2>4, <2>5, <2>6, <2>8, DriversMoveBase
<1> QED BY <1>3, <1>4

\* Drivers that are down are right.
LEMMA CrashBase ==
  ASSUME Base, NEW w \in Workers, Crash(w)
  PROVE  Base'
<1>1. /\ driver' = [d \in Drivers |-> IF d[1] = w THEN Idle ELSE driver[d]]
      /\ UNCHANGED <<record, journal, lease, reopened>> /\ Types
  BY DEF Crash, Base
<1>2. \A d \in Drivers : driver'[d] = driver[d] \/ driver'[d] = Idle
  BY <1>1
<1>3. driver' \in [Drivers -> DriverState]
  BY <1>1, IdleType DEF Types
<1> QED BY <1>1, <1>2, <1>3, IdleIsRight, DriversMoveBase DEF Types

\* The base does not depend on leases.
LEMMA LeaseGoesBase ==
  ASSUME Base, UNCHANGED <<record, journal, driver, reopened>>, NEW i \in Links,
         lease' = [lease EXCEPT ![i] = Nobody]
  PROVE  Base'
<1>1. lease' \in [Links -> Workers \cup {Nobody}] /\ driver' \in [Drivers -> DriverState]
      /\ reopened' \in BOOLEAN
  BY DEF Base, Types
<1> QED BY <1>1, DriversMoveBase

\* A tag is stored before it is journaled.
LEMMA TagStoreBase ==
  ASSUME Base, NEW d \in Drivers, TagStore(d)
  PROVE  Base'
<1> DEFINE i == d[2]
<1>1. Types /\ DriverBase(d) /\ LinkBase(i) /\ i \in Links /\ Reach /\ driver[d] \in DriverState
  BY DEF Base, Types
<1>2. /\ In(d, "body") /\ tags' = [tags EXCEPT ![i] = @ \cup {i}] /\ Go(d, "tagged")
      /\ UNCHANGED <<status, cancelReq, journal, lease, reopened>>
  BY DEF TagStore
<1>3. tags' \in [Links -> SUBSET Links] /\ i \in tags'[i] /\ \A j \in Links : tags[j] \subseteq tags'[j]
  BY <1>1, <1>2 DEF Types
<1>4. \A j \in Links : Grows(j)
  BY <1>2, <1>3 DEF Grows
<1>5. \A j \in Links : LinkBase(j)'
  BY <1>2, <1>4, LinkBaseStays DEF Exists
<1>6. driver'[d] = [driver[d] EXCEPT !.pc = "tagged"]
      /\ \A e \in Drivers : e # d => driver'[e] = driver[e]
  BY <1>1, <1>2 DEF Go, Types
<1>7. driver'[d].pc = "tagged" /\ driver'[d].mine = driver[d].mine /\ driver'[d] \in DriverState
  BY <1>1, <1>6 DEF DriverState, PCs
<1>8. DriverBase(d)'
  BY <1>1, <1>2, <1>3, <1>7 DEF DriverBase, In, Kept, Exists, Behind
<1>9. \A e \in Drivers : e # d => DriverBase(e)'
  BY <1>2, <1>4, <1>6, DriverBaseStays DEF Kept, Exists
<1>10. Types' /\ Reach'
  <2>1. driver' \in [Drivers -> DriverState]
    BY <1>1, <1>2, <1>7 DEF Go, Types
  <2> QED BY <1>1, <1>2, <1>3, <2>1 DEF Types, Reach
<1> QED BY <1>5, <1>8, <1>9, <1>10 DEF Base

\* The tags that are read are those of the link and all links before.
LEMMA LookForSuccessorBase ==
  ASSUME Base, NEW d \in Drivers, LookForSuccessor(d)
  PROVE  Base'
<1> DEFINE i == d[2]
           p == IF status[i + 1] = "absent" THEN "create" ELSE "link"
           r == [driver[d] EXCEPT !.tags = tags[i], !.pc = p]
<1>1. DriverBase(d) /\ LinkBase(i) /\ i \in Links /\ driver[d] \in DriverState /\ tags[i] \in SUBSET Links
  BY DEF Base, Types
<1>2. driver' = [driver EXCEPT ![d] = r] /\ UNCHANGED <<record, journal, lease, reopened>> /\ In(d, "look")
  BY DEF LookForSuccessor, TagsNow
<1>3. r \in DriverState /\ p \in {"create", "link"}
  BY <1>1 DEF DriverState, PCs
<1>4. i + 1 \in Links /\ status[i] # "absent" /\ Kept(i) /\ i \in tags[i]
  BY <1>1, <1>2 DEF DriverBase, In, Behind
<1>5. 1..i \subseteq tags[i]
  BY <1>1, <1>4 DEF LinkBase
<1>6. driver'[d].pc = p /\ driver'[d].tags = tags[i] /\ driver'[d].mine = driver[d].mine
  BY <1>1, <1>2 DEF Base, Types, DriverState
<1>7. DriverBase(d)'
  <2>1. Kept(i)'
    BY <1>2, <1>4 DEF Kept, Exists, record
  <2>2. p = "link" => Exists(i + 1)'
    BY <1>2, <1>4 DEF Exists, record
  <2> HIDE DEF p
  <2> QED BY <1>1, <1>2, <1>3, <1>4, <1>5, <1>6, <2>1, <2>2 DEF DriverBase, record
<1> QED BY <1>2, <1>3, <1>7, DriverMovesBase

\* The successor gets the tags that were read.
LEMMA CreateSuccessorBase ==
  ASSUME Base, NEW d \in Drivers, CreateSuccessor(d)
  PROVE  Base'
<1> DEFINE i == d[2]
           n == i + 1
<1>1. Types /\ DriverBase(d) /\ LinkBase(i) /\ i \in Links /\ Reach /\ driver[d] \in DriverState
      /\ In(d, "create") /\ UNCHANGED <<cancelReq, journal, reopened>>
  BY DEF Base, Types, CreateSuccessor
<1>2. n \in Links /\ status[i] # "absent" /\ 1..i \subseteq driver[d].tags /\ Kept(i) /\ i \in tags[i]
  BY <1>1 DEF DriverBase, In, Behind
<1>3. CASE status[n] # "absent"
  BY <1>1, <1>3, LeavesBase DEF CreateSuccessor, Creatable, record
<1>4. CASE status[n] = "absent"
  <2>1. /\ status' = [status EXCEPT ![n] = "RUNNING"] /\ tags' = [tags EXCEPT ![n] = driver[d].tags]
        /\ Go(d, "link") /\ UNCHANGED lease
    BY <1>4 DEF CreateSuccessor, Creatable
  <2>2. /\ status'[n] = "RUNNING" /\ tags'[n] = driver[d].tags
        /\ \A j \in Links : j # n => status'[j] = status[j] /\ tags'[j] = tags[j]
    BY <1>1, <1>2, <2>1 DEF Types
  <2>3. \A j \in Links : Grows(j)
    BY <1>4, <2>2 DEF Grows
  <2>4. PICK m \in Links : \A j \in Links : status[j] # "absent" <=> j <= m
    BY <1>1 DEF Reach
  <2>5. m = i
    BY <1>1, <1>2, <1>4, <2>4
  <2>6. \A j \in Links : status'[j] # "absent" <=> j <= n
    BY <1>1, <1>2, <2>2, <2>4, <2>5
  <2>7. LinkBase(n)'
    <3>1. journal[n] = <<>> /\ Keep \in Nat
      BY <1>2, <1>4 DEF Base, LinkBase
    <3>2. ~Has(journal'[n], "TAGS_UPDATED")
      BY <1>1, <3>1, HasNothing
    <3>3. ~Exists(n + 1)'
      BY <1>1, <2>6 DEF Exists
    <3>4. \A j \in 1..(n - 1) : j \in tags'[n]
      BY <1>1, <1>2, <2>2
    <3> QED BY <2>2, <3>2, <3>3, <3>4 DEF LinkBase
  <2>8. LinkBase(i)'
    <3>1. journal[i] = <<>> => FALSE
      BY <1>2, <1>4 DEF Kept, Exists
    <3>2. i # n /\ status'[i] = status[i] /\ journal'[i] = journal[i]
      BY <1>1, <2>2
    <3> QED BY <1>1, <2>3, <3>1, <3>2, LinkBaseStays
  <2>9. ASSUME NEW j \in Links, j # n, j # i PROVE LinkBase(j)'
    <3>1. Exists(j + 1)' => Exists(j + 1)
      BY <1>1, <2>2, <2>9 DEF Exists
    <3> QED BY <1>1, <2>2, <2>3, <2>9, <3>1, LinkBaseStays
  <2>10. \A j \in Links : Kept(j) => Kept(j)'
    BY <1>1, <2>3 DEF Kept, Exists, Grows
  <2>11. driver'[d] = [driver[d] EXCEPT !.pc = "link"]
         /\ \A e \in Drivers : e # d => driver'[e] = driver[e]
    BY <1>1, <2>1 DEF Go, Types
  <2>12. driver'[d].pc = "link" /\ driver'[d].mine = driver[d].mine /\ driver'[d] \in DriverState
    BY <1>1, <2>11 DEF DriverState, PCs
  <2>13. DriverBase(d)'
    <3>1. status'[i] # "absent" /\ Exists(n)' /\ i \in tags'[i] /\ Kept(i)' /\ i < NLinks
      BY <1>1, <1>2, <2>2, <2>3, <2>10 DEF Exists, Grows
    <3> QED BY <2>12, <3>1 DEF DriverBase
  <2>14. \A e \in Drivers : e # d => DriverBase(e)'
    BY <2>3, <2>10, <2>11, DriverBaseStays
  <2>15. Types' /\ Reach'
    <3>1. driver' \in [Drivers -> DriverState]
      BY <1>1, <2>1, <2>12 DEF Go, Types
    <3>2. status' \in [Links -> Statuses] /\ tags' \in [Links -> SUBSET Links]
      BY <1>1, <1>2, <2>1 DEF Types, Statuses, DriverState
    <3> QED BY <1>1, <1>2, <2>1, <2>6, <3>1, <3>2 DEF Types, Reach
  <2> QED BY <2>7, <2>8, <2>9, <2>13, <2>14, <2>15 DEF Base
<1> QED BY <1>3, <1>4

\* The status of a link that exists is written.
LEMMA StatusWrittenBase ==
  ASSUME Base, NEW d \in Drivers, NEW s \in Statuses \ {"absent"}, NEW r \in DriverState,
         status' = [status EXCEPT ![d[2]] = s], UNCHANGED <<tags, cancelReq, journal, reopened>>,
         Busy(d), s = "CONTINUED" => Exists(d[2] + 1),
         driver' = [driver EXCEPT ![d] = r], lease' \in {lease, Without(d)}, DriverBase(d)'
  PROVE  Base'
<1> DEFINE i == d[2]
<1>1. Types /\ LinkBase(i) /\ i \in Links /\ Reach /\ status[i] # "absent"
  BY DEF Base, DriverBase, Busy, In
<1>2. status'[i] = s /\ \A j \in Links : j # i => status'[j] = status[j]
  BY <1>1 DEF Types
<1>3. \A j \in Links : status'[j] # "absent" <=> status[j] # "absent"
  BY <1>1, <1>2
<1>4. \A j \in Links : Grows(j)
  BY <1>3 DEF Grows
<1>5. \A j : Exists(j)' <=> Exists(j)
  BY <1>3 DEF Exists
<1>6. LinkBase(i)'
  BY <1>1, <1>2, <1>5 DEF LinkBase, Has
<1>7. \A j \in Links : j # i => LinkBase(j)'
  BY <1>2, <1>4, <1>5, LinkBaseStays
<1>8. \A j \in Links : Kept(j) => Kept(j)'
  BY <1>5 DEF Kept
<1>9. \A e \in Drivers : e # d => DriverBase(e)'
  <2>1. \A e \in Drivers : e # d => driver'[e] = driver[e]
    BY <1>1 DEF Types
  <2> QED BY <2>1, <1>4, <1>8, DriverBaseStays
<1>10. Types' /\ Reach'
  <2>1. lease' \in [Links -> Workers \cup {Nobody}] /\ driver' \in [Drivers -> DriverState]
    BY <1>1 DEF Types, Without
  <2>2. status' \in [Links -> Statuses]
    BY <1>1 DEF Types
  <2> QED BY <1>1, <1>3, <2>1, <2>2 DEF Types, Reach
<1> QED BY <1>6, <1>7, <1>9, <1>10 DEF Base

\* CONTINUED is written when the next link exists.
LEMMA MarkContinuedBase ==
  ASSUME Base, NEW d \in Drivers, MarkContinued(d)
  PROVE  Base'
<1> DEFINE i == d[2]
           r == [Idle EXCEPT !.pc = "prune", !.pred = i]
<1>1. /\ In(d, "link") /\ status' = [status EXCEPT ![i] = "CONTINUED"]
      /\ driver' = [driver EXCEPT ![d] = r] /\ UNCHANGED <<tags, cancelReq, journal, lease, reopened>>
  BY DEF MarkContinued
<1>2. Types /\ DriverBase(d) /\ i \in Links /\ i < NLinks /\ Exists(i + 1) /\ status[i] # "absent"
  BY <1>1 DEF Base, DriverBase, In, Behind
<1>3. r \in DriverState
  <2>1. i \in Nat
    BY <1>2
  <2> QED BY <2>1, IdleType, PruningStartType
<1>4. driver'[d].pc = "prune" /\ driver'[d].mine = <<>> /\ driver'[d].pred = i /\ driver'[d].kept = 0
  BY <1>1, <1>2 DEF Types, Idle
<1>5. status'[i] # "absent" /\ Exists(i + 1)'
  BY <1>1, <1>2 DEF Types, Exists
<1>6. DriverBase(d)'
  BY <1>2, <1>4, <1>5, HasNothing DEF DriverBase
<1> QED BY <1>1, <1>2, <1>3, <1>6, StatusWrittenBase DEF Statuses, Busy, In

\* The status of a body that has ended is written.
LEMMA MarkFinalBase ==
  ASSUME Base, NEW d \in Drivers, MarkFinal(d)
  PROVE  Base'
<1>1. /\ Busy(d) /\ Leave(d) /\ UNCHANGED <<tags, cancelReq, journal, reopened>>
      /\ \/ status' = [status EXCEPT ![d[2]] = "COMPLETED"]
         \/ status' = [status EXCEPT ![d[2]] = "CANCELLED"]
  BY DEF MarkFinal, Busy, In
<1>2. driver'[d] = Idle
  BY <1>1 DEF Leave, Base, Types
<1> QED BY <1>1, <1>2, IdleIsRight, IdleType, StatusWrittenBase DEF Leave, Statuses

\* A link is pruned when Keep younger ones that continued exist.
LEMMA PruneBase ==
  ASSUME Base, NEW d \in Drivers, Prune(d)
  PROVE  Base'
<1> DEFINE i    == d[2]
           pred == driver[d].pred
           kept == driver[d].kept
           r    == [Idle EXCEPT !.pc = "next"]
           m    == [driver[d] EXCEPT !.pred = pred - 1, !.kept = kept + 1]
<1>1. Types /\ DriverBase(d) /\ driver[d] \in DriverState /\ i \in Links
      /\ In(d, "prune") /\ UNCHANGED <<record, lease, reopened>>
  BY DEF Base, Types, Prune
<1>2. /\ pred \in Nat /\ kept \in Nat /\ pred + kept = i /\ i < NLinks /\ Exists(i + 1)
      /\ status[i] # "absent"
  BY <1>1 DEF DriverBase, DriverState, In, Behind
<1>3. \A j \in Links : Grows(j)
  BY <1>1 DEF Grows, record
<1>4. CASE pred = 0 \/ (pred > 0 /\ (status[pred] # "CONTINUED"
                                      \/ (Old(kept + 1) /\ journal[pred] = <<>>)))
  <2>1. driver' = [driver EXCEPT ![d] = r] /\ UNCHANGED journal
    BY <1>4 DEF Prune
  <2>2. r \in DriverState /\ driver'[d] = r
    BY <1>1, <2>1, IdleType, GoingType DEF Types, PCs
  <2>3. driver'[d].pc = "next" /\ driver'[d].mine = <<>>
    BY <2>2 DEF Idle
  <2>4. DriverBase(d)'
    BY <1>1, <1>2, <2>3, HasNothing DEF DriverBase, record
  <2> QED BY <1>1, <2>1, <2>2, <2>4, DriverMovesBase
<1>5. CASE ~(pred = 0 \/ (pred > 0 /\ (status[pred] # "CONTINUED"
                                        \/ (Old(kept + 1) /\ journal[pred] = <<>>))))
  <2>1. /\ journal' = IF Old(kept + 1) THEN [journal EXCEPT ![pred] = <<>>] ELSE journal
        /\ driver' = [driver EXCEPT ![d] = m]
    <3>1. driver' = [driver EXCEPT ![d].pred = @ - 1, ![d].kept = @ + 1]
      BY <1>5 DEF Prune
    <3>2. journal' = IF Old(kept + 1) THEN [journal EXCEPT ![pred] = <<>>] ELSE journal
      BY <1>5 DEF Prune
    <3> QED BY <1>1, <3>1, <3>2 DEF Types
  <2>2. pred > 0 /\ pred \in Links /\ status[pred] = "CONTINUED" /\ pred - 1 \in Nat /\ kept + 1 \in Nat
    BY <1>2, <1>5
  <2>3. m \in DriverState
    <3>1. pred - 1 \in Nat /\ kept + 1 \in Nat
      BY <2>2
    <3> QED BY <1>1, <3>1, PruningType
  <2>4. driver'[d] = m
    BY <1>1, <2>1 DEF Types
  <2>5. /\ driver'[d].pc = "prune" /\ driver'[d].mine = driver[d].mine
        /\ driver'[d].pred = pred - 1 /\ driver'[d].kept = kept + 1
    BY <1>1, <2>4 DEF DriverState, In
  <2>6. Exists(pred + 1)
    BY <1>1, <2>2 DEF Base, LinkBase
  <2>7. \A j \in Links : j # pred => journal'[j] = journal[j]
    BY <1>1, <2>1 DEF Types
  <2>8. \A j \in Links : Kept(j) => Kept(j)'
    BY <1>1, <2>6, <2>7 DEF Kept, Exists, record
  <2>9. ASSUME NEW j \in Links PROVE LinkBase(j)'
    <3>1. CASE journal'[j] = journal[j]
      BY <1>1, <1>3, <3>1, LinkBaseStays DEF record, Exists
    <3>2. CASE journal'[j] # journal[j]
      <4>1. j = pred /\ journal'[j] = <<>> /\ kept + 1 > Keep
        BY <1>1, <2>1, <2>7, <3>2 DEF Types, Old
      <4>2. PICK n \in Links : \A l \in Links : status[l] # "absent" <=> l <= n
        BY DEF Base, Reach
      <4>3. i + 1 <= n
        BY <1>2, <4>2 DEF Exists
      <4>4. pred + Keep + 1 \in Links /\ pred + Keep + 1 <= n
        <5>1. i \in Nat /\ n \in Nat /\ n <= NLinks /\ Keep \in Nat /\ NLinks \in Nat
          BY <1>1
        <5> HIDE DEF pred, kept, i
        <5> QED BY <1>2, <4>1, <4>3, <5>1
      <4>5. Exists(pred + Keep + 1)
        BY <4>2, <4>4 DEF Exists
      <4>6. LinkBase(j) /\ status'[j] = status[j] /\ tags'[j] = tags[j]
        BY <1>1 DEF Base, record
      <4> QED BY <1>1, <2>2, <2>6, <4>1, <4>5, <4>6, HasNothing DEF LinkBase, Exists, record
    <3> QED BY <3>1, <3>2
  <2>10. DriverBase(d)'
    <3>1. driver'[d].mine # <<>> => Kept(i)'
      BY <1>1, <2>5, <2>8 DEF DriverBase, In
    <3>2. Has(driver[d].mine, "TAGS_UPDATED") => i \in tags[i]
      BY <1>1 DEF DriverBase, In
    <3> QED BY <1>1, <1>2, <2>2, <2>5, <3>1, <3>2 DEF DriverBase, record, Exists
  <2>11. \A e \in Drivers : e # d => DriverBase(e)'
    <3>1. \A e \in Drivers : e # d => driver'[e] = driver[e]
      BY <1>1, <2>1 DEF Types
    <3> QED BY <3>1, <1>3, <2>8, DriverBaseStays
  <2>12. Types' /\ Reach'
    <3>1. driver' \in [Drivers -> DriverState]
      BY <1>1, <2>1, <2>3 DEF Types
    <3>2. journal' \in [Links -> Seq(Kinds)]
      <4>1. <<>> \in Seq(Kinds) /\ journal \in [Links -> Seq(Kinds)]
        BY <1>1 DEF Types
      <4> QED BY <2>1, <4>1
    <3> QED BY <1>1, <3>1, <3>2 DEF Base, Types, Reach, record
  <2> QED BY <2>9, <2>10, <2>11, <2>12 DEF Base
<1> QED BY <1>4, <1>5

\* A cancel request is written.
LEMMA RequestCancelBase ==
  ASSUME Base, RequestCancel
  PROVE  Base'
<1>1. cancelReq' = [cancelReq EXCEPT ![at] = TRUE]
      /\ UNCHANGED <<status, tags, journal, lease, driver, reopened>>
  BY DEF RequestCancel
<1>2. \A j \in Links : Grows(j)
  BY <1>1 DEF Grows
<1>3. \A j \in Links : LinkBase(j)'
  BY <1>1, <1>2, LinkBaseStays DEF Exists
<1>4. \A d \in Drivers : DriverBase(d)'
  BY <1>1, <1>2, DriverBaseStays DEF Kept, Exists
<1>5. Types' /\ Reach'
  BY <1>1 DEF Base, Types, Reach
<1> QED BY <1>3, <1>4, <1>5 DEF Base

\* The base does not depend on what the client does.
LEMMA StuttersBase ==
  ASSUME Base, UNCHANGED <<record, journal, lease, driver, reopened>>
  PROVE  Base'
<1>1. lease' \in [Links -> Workers \cup {Nobody}] /\ driver' \in [Drivers -> DriverState]
      /\ reopened' \in BOOLEAN
  BY DEF Base, Types
<1> QED BY <1>1, DriversMoveBase

\* Every step keeps the base, one that reopens a link too.
LEMMA BaseStays ==
  ASSUME Base, [Next]_vars
  PROVE  Base'
<1>1. CASE UNCHANGED vars
  BY <1>1, StuttersBase DEF vars
<1>2. ASSUME NEW w \in Workers, NEW i \in Links, Ensure(w, i) \/ EnsureStale(w, i) PROVE Base'
  BY <1>2, EnsuresBase
<1>3. ASSUME NEW d \in Drivers, Drive(d) PROVE Base'
  <2>1. DriverBase(d) /\ d[2] \in Links /\ DriverBase(d)
    BY DEF Base
  <2>2. CASE JournalStart(d)
    BY <2>2, JournalsOnceBase DEF JournalStart, In, Inside, Kinds
  <2>3. CASE TagStore(d)
    BY <2>3, TagStoreBase
  <2>4. CASE TagJournal(d)
    BY <2>1, <2>4, JournalsBase DEF TagJournal, In, Inside, Kinds, DriverBase
  <2>5. CASE Cancelled(d)
    BY <2>5, JournalsOnceBase DEF Cancelled, In, Inside, Kinds
  <2>6. CASE BodyEnds(d)
    BY <2>6, JournalsOnceBase DEF BodyEnds, In, Inside, Kinds
  <2>7. CASE LookForSuccessor(d)
    BY <2>7, LookForSuccessorBase
  <2>8. CASE CreateSuccessor(d)
    BY <2>8, CreateSuccessorBase
  <2>9. CASE MarkContinued(d)
    BY <2>9, MarkContinuedBase
  <2>10. CASE Prune(d)
    BY <2>10, PruneBase
  <2>11. CASE LoadNext(d)
    BY <2>11, LoadNextBase
  <2>12. CASE EnsureNext(d)
    BY <2>12, EnsureNextBase
  <2>13. CASE MarkFinal(d)
    BY <2>13, MarkFinalBase
  <2> QED BY <1>3, <2>2, <2>3, <2>4, <2>5, <2>6, <2>7, <2>8, <2>9, <2>10, <2>11, <2>12, <2>13 DEF Drive
<1>4. ASSUME NEW d \in Drivers, Fenced(d) PROVE Base'
  BY <1>4, LeavesBase DEF Fenced
<1>5. ASSUME NEW w \in Workers, Crash(w) PROVE Base'
  BY <1>5, CrashBase
<1>6. ASSUME NEW i \in Links, Expire(i) \/ Lapse(i) PROVE Base'
  BY <1>6, LeaseGoesBase DEF Expire, Lapse
<1>7. CASE Cancel
  BY <1>7, StuttersBase DEF Cancel
<1>8. CASE RequestCancel
  BY <1>8, RequestCancelBase
<1> QED BY <1>1, <1>2, <1>3, <1>4, <1>5, <1>6, <1>7, <1>8 DEF Next

-----------------------------------------------------------------------------
(* Steps that reopen nothing *)

\* A link that goes on keeps doing so.
GoOn == \A j \in Links : Goes(j) => Goes(j)'

\* A link that no step touches.
LEMMA LinkStays ==
  ASSUME Whole, GoOn, NEW i \in Links, status'[i] = status[i], journal'[i] = journal[i]
  PROVE  LinkOK(i)'
<1>1. LinkOK(i) /\ 1..(i - 1) \subseteq Links
  BY DEF Whole
<1>2. status[i] # "absent" => \A j \in 1..(i - 1) : Goes(j)'
  BY <1>1 DEF LinkOK, GoOn
<1> QED BY <1>1, <1>2 DEF LinkOK, Regular, Has

\* A driver that stays, and keeps its lease if it is inside its link.
LEMMA DriverStays ==
  ASSUME Whole, GoOn, NEW d \in Drivers, driver'[d] = driver[d],
         driver[d].pc \in Inside =>
           lease'[d[2]] = lease[d[2]] /\ Knows(d)' /\ status'[d[2]] # "CANCELLED"
  PROVE  DriverOK(d)'
<1>1. DriverOK(d) /\ d[2] \in Links
  BY DEF Whole
<1>2. driver[d].pc \in Behind => Goes(d[2])'
  BY <1>1 DEF DriverOK, GoOn
<1>3. driver[d].pc \in Inside => Holds(d)' /\ Regular(driver[d].mine, d[2])'
  BY <1>1 DEF DriverOK, Holds, Regular
<1> QED BY <1>1, <1>2, <1>3 DEF DriverOK, Has

\* Only drivers and leases change.
LEMMA DriversMove ==
  ASSUME Whole, UNCHANGED <<record, journal>>,
         \A d \in Drivers :
           \/ /\ driver'[d] = driver[d]
              /\ driver[d].pc \in Inside => lease'[d[2]] = lease[d[2]]
           \/ DriverOK(d)'
  PROVE  Whole'
<1>1. GoOn
  BY DEF GoOn, Goes, record
<1>2. \A i \in Links : LinkOK(i)'
  BY <1>1, LinkStays DEF record
<1>3. ASSUME NEW d \in Drivers PROVE DriverOK(d)'
  <2>1. CASE driver'[d] = driver[d] /\ (driver[d].pc \in Inside => lease'[d[2]] = lease[d[2]])
    <3>1. driver[d].pc \in Inside => Knows(d) /\ status[d[2]] # "CANCELLED"
      BY DEF Whole, DriverOK
    <3>2. driver[d].pc \in Inside => Knows(d)' /\ status'[d[2]] # "CANCELLED"
      BY <2>1, <3>1 DEF Knows, record
    <3> QED BY <1>1, <2>1, <3>2, DriverStays
  <2> QED BY <2>1
<1> QED BY <1>2, <1>3 DEF Whole

\* Of two drivers of a link one is past its end, or they are one.
LEMMA OneInside ==
  ASSUME Whole, NEW d \in Drivers, NEW e \in Drivers, d # e, Holds(d), driver[e].pc \in Inside
  PROVE  e[2] # d[2]
<1>1. Holds(e)
  BY DEF Whole, DriverOK
<1> QED BY <1>1, SameDriver DEF Holds

\* One driver moves, and perhaps gives its lease back.
LEMMA DriverMoves ==
  ASSUME Types, Whole, UNCHANGED <<record, journal>>, NEW d \in Drivers, NEW r,
         driver' = [driver EXCEPT ![d] = r], lease' \in {lease, Without(d)}, DriverOK(d)'
  PROVE  Whole'
<1>1. ASSUME NEW e \in Drivers, e # d
      PROVE  driver'[e] = driver[e] /\ (driver[e].pc \in Inside => lease'[e[2]] = lease[e[2]])
  <2>1. driver'[e] = driver[e] /\ e[2] \in Links /\ d[2] \in Links
    BY <1>1 DEF Types
  <2>2. CASE Holds(d)
    <3>1. driver[e].pc \in Inside => e[2] # d[2]
      BY <1>1, <2>2, OneInside
    <3> QED BY <2>1, <3>1 DEF Without, Types
  <2>3. CASE ~Holds(d)
    BY <2>1, <2>3 DEF Without, Types
  <2> QED BY <2>2, <2>3
<1> QED BY <1>1, DriversMove

\* A driver ends.
LEMMA Leaves ==
  ASSUME Types, Whole, UNCHANGED <<record, journal>>, NEW d \in Drivers, Leave(d)
  PROVE  Whole'
<1>1. driver'[d] = Idle
  BY DEF Leave, Types
<1> QED BY <1>1, IdleIsRight, DriverMoves DEF Leave

\* What is appended leaves a journal regular.
LEMMA StaysRegular ==
  ASSUME NEW s \in Seq(Kinds), NEW k \in Kinds, NEW i \in Links, Regular(s, i),
         k = "RUN_STARTED" \/ Has(s, "RUN_STARTED"),
         k = "RUN_CONTINUED" => Has(s, "TAGS_UPDATED") /\ i < NLinks,
         k = "RUN_COMPLETED" => Has(s, "TAGS_UPDATED") /\ i = NLinks
  PROVE  Regular(Append(s, k), i)
BY HasAppended DEF Regular

\* A driver journals an event of a link that has not continued.
LEMMA Journals ==
  ASSUME Types, Whole, NEW d \in Drivers, NEW k \in Kinds,
         NEW p \in {"body", "look", "completed", "cancelled"},
         driver[d].pc \in {"start", "body", "tagged"}, status[d[2]] # "CONTINUED",
         AppendThen(d, k, p), UNCHANGED record,
         Regular(Append(journal[d[2]], k), d[2]),
         p = "body" => k = "RUN_STARTED" \/ Has(driver[d].mine, "RUN_STARTED"),
         p = "look" => k = "RUN_CONTINUED",
         p = "completed" => k = "RUN_COMPLETED",
         p = "cancelled" => k = "RUN_CANCELLED" /\ ~Has(driver[d].mine, "TAGS_UPDATED")
  PROVE  Whole'
<1> DEFINE i == d[2]
           s == journal[i]
<1>1. LinkOK(i) /\ DriverOK(d) /\ i \in Links /\ Holds(d) /\ driver[d].mine = s
      /\ s \in Seq(Kinds) /\ status[i] # "CANCELLED"
  BY DEF Whole, DriverOK, Knows, Types, Inside
<1>2. /\ journal' = [journal EXCEPT ![i] = Append(s, k)]
      /\ driver' = [driver EXCEPT ![d].mine = Append(s, k), ![d].pc = p]
      /\ lease' = lease
  BY <1>1 DEF AppendThen
<1>3. journal'[i] = Append(s, k) /\ Append(s, k) \in Seq(Kinds)
  <2>1. Append(s, k) \in Seq(Kinds)
    BY <1>1, AppendProperties
  <2> QED BY <1>1, <1>2, <2>1 DEF Types
<1>4. \A x : Has(journal'[i], x) <=> Has(s, x) \/ k = x
  BY <1>1, <1>3, HasAppended
<1>5. GoOn
  BY <1>1, <1>2, <1>4 DEF GoOn, Goes, record, Types
<1>6. LinkOK(i)'
  <2>1. Regular(journal[i], i)'
    BY <1>3 DEF Regular, Has
  <2>2. (status[i] # "absent" => \A j \in 1..(i - 1) : Goes(j))'
    <3>1. 1..(i - 1) \subseteq Links
      BY <1>1
    <3> QED BY <1>1, <1>5, <3>1 DEF LinkOK, GoOn, record
  <2> QED BY <1>1, <1>4, <2>1, <2>2 DEF LinkOK, record
<1>7. ASSUME NEW j \in Links, j # i PROVE LinkOK(j)'
  <2>1. journal'[j] = journal[j] /\ status'[j] = status[j]
    BY <1>1, <1>2, <1>7 DEF Types, record
  <2> QED BY <1>5, <2>1, LinkStays
<1>8. DriverOK(d)'
  <2>1. driver'[d] = [driver[d] EXCEPT !.mine = Append(s, k), !.pc = p]
    BY <1>1, <1>2 DEF Types
  <2>2. driver'[d].mine = journal'[i] /\ driver'[d].pc = p
    BY <1>1, <1>3, <2>1 DEF Types, DriverState
  <2>3. Holds(d)' /\ Knows(d)'
    BY <1>1, <1>2, <2>2 DEF Holds, Knows, record
  <2>4. Regular(driver[d].mine, d[2])'
    BY <1>3, <2>2 DEF Regular, Has
  <2>5. p = "look" => Goes(i)'
    BY <1>4 DEF Goes
  <2>6. p = "body" => Has(journal'[i], "RUN_STARTED")
    BY <1>1, <1>4
  <2>7. p = "cancelled" => ~Has(journal'[i], "TAGS_UPDATED")
    BY <1>1, <1>4
  <2>8. p = "completed" => Has(journal'[i], "RUN_COMPLETED")
    BY <1>4
  <2> QED BY <1>1, <2>2, <2>3, <2>4, <2>5, <2>6, <2>7, <2>8 DEF DriverOK, Inside, Behind, record, Has
<1>9. ASSUME NEW e \in Drivers, e # d PROVE DriverOK(e)'
  <2>1. driver'[e] = driver[e] /\ (driver[e].pc \in Inside => e[2] # i)
    BY <1>1, <1>2, <1>9, OneInside DEF Types
  <2>2. e[2] \in Links /\ (e[2] # i => journal'[e[2]] = journal[e[2]])
    BY <1>1, <1>2 DEF Types
  <2>3. driver[e].pc \in Inside => Knows(e) /\ status[e[2]] # "CANCELLED"
    BY DEF Whole, DriverOK
  <2>4. driver[e].pc \in Inside => Knows(e)' /\ status'[e[2]] # "CANCELLED"
    BY <2>1, <2>2, <2>3 DEF Knows, record
  <2> QED BY <1>2, <1>5, <2>1, <2>4, DriverStays
<1> QED BY <1>6, <1>7, <1>8, <1>9 DEF Whole

\* A driver journals an event unless its journal has it already.
LEMMA JournalsOnce ==
  ASSUME Types, Whole, NEW d \in Drivers, NEW k \in Kinds \ {"TAGS_UPDATED"},
         NEW p \in {"body", "look", "completed", "cancelled"}, driver[d].pc \in {"start", "body"},
         OnceThen(d, k, p), UNCHANGED record,
         p = "body" => k = "RUN_STARTED",
         p = "look" => k = "RUN_CONTINUED",
         p = "completed" => k = "RUN_COMPLETED",
         p = "cancelled" => k = "RUN_CANCELLED" /\ ~Has(driver[d].mine, "TAGS_UPDATED"),
         ~Has(driver[d].mine, k) =>
           status[d[2]] # "CONTINUED" /\ Regular(Append(driver[d].mine, k), d[2])
  PROVE  Whole'
<1>1. DriverOK(d) /\ LinkOK(d[2]) /\ d[2] \in Links /\ driver[d] \in DriverState
  BY DEF Whole, Types
<1>2. CASE Has(driver[d].mine, k)
  <2>1. Go(d, p) /\ UNCHANGED <<journal, lease>>
    BY <1>2 DEF OnceThen
  <2>2. driver' = [driver EXCEPT ![d] = [driver[d] EXCEPT !.pc = p]]
        /\ driver'[d] = [driver[d] EXCEPT !.pc = p]
    BY <2>1 DEF Go, Types
  <2>3. driver'[d].mine = driver[d].mine /\ driver'[d].pc = p
    BY <1>1, <2>2 DEF DriverState
  <2>4. Holds(d)' /\ Knows(d)' /\ status'[d[2]] # "CANCELLED"
    BY <1>1, <2>1, <2>3 DEF DriverOK, Inside, Holds, Knows, record, Has
  <2>5. Regular(driver[d].mine, d[2])'
    BY <1>1, <2>3 DEF DriverOK, Inside, Regular, Has
  <2>6. p = "look" => Goes(d[2])'
    <3>1. p = "look" => Goes(d[2])
      BY <1>1, <1>2 DEF DriverOK, Inside, Knows, Goes
    <3> QED BY <2>1, <3>1 DEF Goes, record, Has
  <2>7. DriverOK(d)'
    BY <1>1, <1>2, <2>3, <2>4, <2>5, <2>6 DEF DriverOK, Inside, Behind, Has
  <2> QED BY <2>1, <2>2, <2>7, DriverMoves
<1>3. CASE ~Has(driver[d].mine, k)
  <2>1. AppendThen(d, k, p)
    BY <1>3 DEF OnceThen
  <2>2. driver[d].mine = journal[d[2]]
    BY <1>1, <1>3 DEF DriverOK, Inside, Knows
  <2> QED BY <1>3, <2>1, <2>2, Journals
<1> QED BY <1>2, <1>3

-----------------------------------------------------------------------------
(* The same, step by step *)

\* RUN_STARTED is the first event of a journal.
LEMMA JournalStartKeeps ==
  ASSUME Types, Whole, NEW d \in Drivers, JournalStart(d)
  PROVE  Whole'
<1>1. d[2] \in Links /\ driver[d].mine \in Seq(Kinds) /\ DriverOK(d)
  BY DEF Whole, Types, DriverState
<1>2. In(d, "start") /\ OnceThen(d, "RUN_STARTED", "body") /\ UNCHANGED record
  BY DEF JournalStart
<1>3. Knows(d) /\ Regular(driver[d].mine, d[2])
  BY <1>1, <1>2 DEF DriverOK, Inside, In
<1>4. ~Has(driver[d].mine, "RUN_STARTED") =>
        /\ status[d[2]] # "CONTINUED"
        /\ Regular(Append(driver[d].mine, "RUN_STARTED"), d[2])
  BY <1>1, <1>3, StaysRegular DEF Knows, Kinds
<1> QED BY <1>2, <1>4, JournalsOnce DEF In, Kinds

\* RUN_CANCELLED is journaled before anything else is.
LEMMA CancelledKeeps ==
  ASSUME Types, Whole, NEW d \in Drivers, Cancelled(d)
  PROVE  Whole'
<1>1. d[2] \in Links /\ driver[d].mine \in Seq(Kinds) /\ DriverOK(d)
  BY DEF Whole, Types, DriverState
<1>2. In(d, "body") /\ OnceThen(d, "RUN_CANCELLED", "cancelled") /\ UNCHANGED record
      /\ ~Has(driver[d].mine, "TAGS_UPDATED")
  BY DEF Cancelled, Tagged
<1>3. Knows(d) /\ Regular(driver[d].mine, d[2]) /\ Has(driver[d].mine, "RUN_STARTED")
  BY <1>1, <1>2 DEF DriverOK, Inside, In
<1>4. status[d[2]] # "CONTINUED" /\ Regular(Append(driver[d].mine, "RUN_CANCELLED"), d[2])
  BY <1>1, <1>2, <1>3, StaysRegular DEF Knows, Kinds
<1> QED BY <1>2, <1>4, JournalsOnce DEF In, Kinds

\* The last link returns, every other one continues.
LEMMA BodyEndsKeeps ==
  ASSUME Types, Whole, NEW d \in Drivers, BodyEnds(d)
  PROVE  Whole'
<1>1. d[2] \in Links /\ driver[d].mine \in Seq(Kinds) /\ DriverOK(d) /\ LinkOK(d[2])
  BY DEF Whole, Types, DriverState
<1>2. In(d, "body") /\ Has(driver[d].mine, "TAGS_UPDATED") /\ UNCHANGED record
  BY DEF BodyEnds, Tagged
<1>3. Knows(d) /\ Regular(driver[d].mine, d[2]) /\ Has(driver[d].mine, "RUN_STARTED")
  BY <1>1, <1>2 DEF DriverOK, Inside, In
<1>4. CASE d[2] < NLinks
  <2>1. OnceThen(d, "RUN_CONTINUED", "look")
    BY <1>4 DEF BodyEnds
  <2>2. ~Has(driver[d].mine, "RUN_CONTINUED") =>
          /\ status[d[2]] # "CONTINUED"
          /\ Regular(Append(driver[d].mine, "RUN_CONTINUED"), d[2])
    BY <1>1, <1>2, <1>3, <1>4, StaysRegular DEF Knows, Kinds
  <2> QED BY <1>2, <2>1, <2>2, JournalsOnce DEF In, Kinds
<1>5. CASE d[2] = NLinks
  <2>1. OnceThen(d, "RUN_COMPLETED", "completed")
    BY <1>5 DEF BodyEnds
  <2>2. status[d[2]] # "CONTINUED"
    BY <1>3, <1>5 DEF Knows, Regular
  <2>3. Regular(Append(driver[d].mine, "RUN_COMPLETED"), d[2])
    BY <1>1, <1>2, <1>3, <1>5, StaysRegular DEF Kinds
  <2> QED BY <1>2, <2>1, <2>2, <2>3, JournalsOnce DEF In, Kinds
<1> QED BY <1>1, <1>4, <1>5

\* The tags are journaled once.
LEMMA TagJournalKeeps ==
  ASSUME Types, Whole, NEW d \in Drivers, TagJournal(d)
  PROVE  Whole'
<1>1. d[2] \in Links /\ driver[d].mine \in Seq(Kinds) /\ DriverOK(d)
  BY DEF Whole, Types, DriverState
<1>2. In(d, "tagged") /\ AppendThen(d, "TAGS_UPDATED", "body") /\ UNCHANGED record
  BY DEF TagJournal
<1>3. /\ Knows(d) /\ Regular(driver[d].mine, d[2]) /\ ~Has(driver[d].mine, "TAGS_UPDATED")
      /\ Has(driver[d].mine, "RUN_STARTED")
  BY <1>1, <1>2 DEF DriverOK, Inside, In
<1>4. status[d[2]] # "CONTINUED" /\ driver[d].mine = journal[d[2]]
  BY <1>3 DEF Knows
<1>5. Regular(Append(journal[d[2]], "TAGS_UPDATED"), d[2])
  BY <1>1, <1>3, <1>4, StaysRegular DEF Kinds
<1> QED BY <1>2, <1>3, <1>4, <1>5, Journals DEF In, Kinds

\* Tags are no part of what a driver knows.
LEMMA TagStoreKeeps ==
  ASSUME Types, Whole, NEW d \in Drivers, TagStore(d)
  PROVE  Whole'
<1>1. DriverOK(d) /\ d[2] \in Links /\ driver[d] \in DriverState
  BY DEF Whole, Types
<1>2. In(d, "body") /\ ~Tagged(d) /\ Go(d, "tagged") /\ UNCHANGED <<status, cancelReq, journal, lease>>
  BY DEF TagStore
<1>3. GoOn /\ \A j \in Links : LinkOK(j)'
  <2>1. GoOn
    BY <1>2 DEF GoOn, Goes
  <2> QED BY <1>2, <2>1, LinkStays
<1>4. ASSUME NEW e \in Drivers, e # d PROVE DriverOK(e)'
  <2>1. driver'[e] = driver[e]
    BY <1>2, <1>4 DEF Go, Types
  <2>2. driver[e].pc \in Inside => Knows(e) /\ status[e[2]] # "CANCELLED"
    BY DEF Whole, DriverOK
  <2>3. driver[e].pc \in Inside => Knows(e)' /\ status'[e[2]] # "CANCELLED"
    BY <1>2, <2>1, <2>2 DEF Knows
  <2> QED BY <1>2, <1>3, <2>1, <2>3, DriverStays
<1>5. driver'[d] = [driver[d] EXCEPT !.pc = "tagged"]
  BY <1>2 DEF Go, Types
<1>6. driver'[d].pc = "tagged" /\ driver'[d].mine = driver[d].mine
  BY <1>1, <1>5 DEF DriverState
<1>7. DriverOK(d)'
  <2>1. Holds(d)' /\ Knows(d)' /\ Regular(driver[d].mine, d[2])' /\ status'[d[2]] # "CANCELLED"
    BY <1>1, <1>2, <1>6 DEF DriverOK, In, Inside, Holds, Knows, Regular, Has
  <2>2. ~Has(driver[d].mine, "TAGS_UPDATED") /\ Has(driver[d].mine, "RUN_STARTED")
    BY <1>1, <1>2 DEF DriverOK, In, Tagged
  <2> QED BY <1>6, <2>1, <2>2 DEF DriverOK, Inside, Behind, Has
<1> QED BY <1>3, <1>4, <1>7 DEF Whole

\* A driver behind RUN_CONTINUED goes from one place to another.
LEMMA MovesBehind ==
  ASSUME Types, Whole, NEW d \in Drivers, NEW r, driver[d].pc \in Behind,
         driver' = [driver EXCEPT ![d] = r], r.pc \in Behind, UNCHANGED <<record, journal, lease>>
  PROVE  Whole'
<1>1. Goes(d[2])
  BY DEF Whole, DriverOK
<1>2. driver'[d].pc \in Behind
  BY DEF Types
<1>3. DriverOK(d)'
  BY <1>1, <1>2 DEF DriverOK, Inside, Behind, Goes, record
<1> QED BY <1>3, DriverMoves

\* Looking for the successor changes only what the driver knows.
LEMMA LookForSuccessorKeeps ==
  ASSUME Types, Whole, NEW d \in Drivers, LookForSuccessor(d)
  PROVE  Whole'
<1> DEFINE p == IF status[d[2] + 1] = "absent" THEN "create" ELSE "link"
           r == [driver[d] EXCEPT !.tags = tags[d[2]], !.pc = p]
<1>1. driver' = [driver EXCEPT ![d] = r] /\ UNCHANGED <<record, journal, lease>> /\ In(d, "look")
  BY DEF LookForSuccessor, TagsNow
<1>2. r.pc = p /\ p \in Behind /\ driver[d].pc \in Behind
  BY <1>1 DEF Types, DriverState, In, Behind
<1> HIDE DEF r, p
<1> QED BY <1>1, <1>2, MovesBehind

\* Loading the record of the successor moves a driver behind its end.
LEMMA LoadNextKeeps ==
  ASSUME Types, Whole, NEW d \in Drivers, LoadNext(d)
  PROVE  Whole'
<1> DEFINE r == [driver[d] EXCEPT !.pc = "ensure", !.flag = cancelReq[d[2] + 1]]
<1>1. UNCHANGED <<record, journal>> /\ driver[d].pc \in Behind
  BY DEF LoadNext, In, Behind
<1>2. CASE status[d[2] + 1] = "RUNNING"
  <2>1. driver' = [driver EXCEPT ![d] = r] /\ UNCHANGED lease
    BY <1>2 DEF LoadNext
  <2>2. r.pc \in Behind
    BY DEF Types, DriverState, Behind
  <2> HIDE DEF r
  <2> QED BY <1>1, <2>1, <2>2, MovesBehind
<1>3. CASE status[d[2] + 1] # "RUNNING"
  BY <1>1, <1>3, Leaves DEF LoadNext
<1> QED BY <1>2, <1>3

\* What a driver starts with, unless it reopens its link.
LEMMA SpawnedIsRight ==
  ASSUME Types, Whole, UNCHANGED <<record, journal>>, NEW d \in Drivers, NEW request,
         ~Reopens(d[2]), driver'[d] = Spawned(d[2], request), lease'[d[2]] = d[1]
  PROVE  DriverOK(d)'
<1>1. LinkOK(d[2]) /\ d[2] \in Links
  BY DEF Whole
<1>2. driver'[d].pc = "start" /\ driver'[d].mine = journal[d[2]]
  BY DEF Spawned, Idle
<1>3. status[d[2]] # "CANCELLED" /\ (status[d[2]] = "CONTINUED" => Has(journal[d[2]], "RUN_CONTINUED"))
  BY <1>1 DEF Reopens, LinkOK
<1>4. Regular(journal[d[2]], d[2])
  BY <1>1 DEF LinkOK
<1>5. status[d[2]] = "CONTINUED" =>
        \A k \in {"RUN_STARTED", "TAGS_UPDATED", "RUN_CONTINUED"} : Has(journal[d[2]], k)
  BY <1>3, <1>4, HasNothing DEF Regular
<1>6. Holds(d)' /\ Knows(d)' /\ Regular(driver[d].mine, d[2])'
  BY <1>2, <1>4, <1>5 DEF Holds, Knows, Regular, Has, record
<1> QED BY <1>2, <1>3, <1>6 DEF DriverOK, Inside, Behind, record

\* No driver inside a link loses the lease that a new one takes.
LEMMA SpawnKeeps ==
  ASSUME Types, Whole, NEW w \in Workers, NEW i \in Links, NEW request, Spawn(w, i, request),
         UNCHANGED <<record, journal>>, ~Reopens(i)
  PROVE  Whole'
<1> DEFINE d == <<w, i>>
<1>1. d \in Drivers /\ d[1] = w /\ d[2] = i
  OBVIOUS
<1>2. /\ lease[i] \in {Nobody, w} /\ driver[d].pc = "down"
      /\ lease' = [lease EXCEPT ![i] = w] /\ driver' = [driver EXCEPT ![d] = Spawned(i, request)]
  BY DEF Spawn, Claimable, Busy, In
<1>3. DriverOK(d)'
  BY <1>1, <1>2, SpawnedIsRight DEF Types
<1>4. ASSUME NEW e \in Drivers, e # d
      PROVE  driver'[e] = driver[e] /\ (driver[e].pc \in Inside => lease'[e[2]] = lease[e[2]])
  <2>1. driver[e].pc \in Inside => lease[e[2]] = e[1] /\ e[1] # Nobody
    BY DEF Whole, DriverOK, Holds
  <2>2. e[2] = i => e[1] # w
    BY <1>1, <1>4, SameDriver
  <2>3. driver[e].pc \in Inside => e[2] # i
    BY <1>2, <2>1, <2>2
  <2> QED BY <1>1, <1>2, <1>4, <2>3 DEF Types
<1> QED BY <1>3, <1>4, DriversMove

\* A fresh record never reopens a link, a stale one sometimes does not.
LEMMA EnsureKeeps ==
  ASSUME Types, Whole, NEW w \in Workers, NEW i \in Links, Ensure(w, i) \/ EnsureStale(w, i), ~reopened'
  PROVE  Whole'
<1>1. CASE Ensure(w, i)
  BY <1>1, SpawnKeeps DEF Ensure, Free, Reopens
<1>2. CASE EnsureStale(w, i)
  <2>1. PICK request \in {FALSE, cancelReq[i]} : Spawn(w, i, request)
    BY <1>2 DEF EnsureStale
  <2>2. UNCHANGED <<record, journal>> /\ reopened' = (reopened \/ Reopens(i))
    BY <1>2 DEF EnsureStale
  <2> QED BY <2>1, <2>2, SpawnKeeps
<1> QED BY <1>1, <1>2

\* No driver inside a link loses the lease that the one of the successor takes.
LEMMA EnsureNextKeeps ==
  ASSUME Base, Whole, NEW d \in Drivers, EnsureNext(d), ~reopened'
  PROVE  Whole'
<1> DEFINE i == d[2] + 1
           e == <<d[1], i>>
<1>1. Types /\ DriverBase(d) /\ UNCHANGED <<record, journal>> /\ In(d, "ensure")
  BY DEF Base, EnsureNext
<1>2. i \in Links /\ e \in Drivers /\ e[1] = d[1] /\ e[2] = i /\ e # d
  BY <1>1 DEF DriverBase, In, Behind
<1>3. CASE ~Claimable(d[1], i)
  <2>1. Leave(d)
    BY <1>3 DEF EnsureNext
  <2> QED BY <1>1, <2>1, Leaves
<1>4. CASE Claimable(d[1], i)
  <2>1. /\ lease[i] \in {Nobody, d[1]} /\ driver[e].pc = "down" /\ ~Reopens(i)
        /\ driver' = [driver EXCEPT ![d] = Idle, ![e] = Spawned(i, driver[d].flag)]
        /\ lease' = [Without(d) EXCEPT ![i] = d[1]]
    <3>1. reopened' = (reopened \/ Reopens(i))
      BY <1>4 DEF EnsureNext
    <3> QED BY <1>4, <3>1 DEF EnsureNext, Claimable, Busy, In
  <2>2. Without(d) \in [Links -> Workers \cup {Nobody}]
    BY <1>1 DEF Without, Types
  <2>3. driver'[e] = Spawned(i, driver[d].flag) /\ driver'[d] = Idle /\ lease'[i] = d[1]
    BY <1>1, <1>2, <2>1, <2>2 DEF Types
  <2>4. DriverOK(e)' /\ DriverOK(d)'
    BY <1>1, <1>2, <2>1, <2>3, SpawnedIsRight, IdleIsRight
  <2>5. ASSUME NEW o \in Drivers, o # d, o # e
        PROVE  driver'[o] = driver[o] /\ (driver[o].pc \in Inside => lease'[o[2]] = lease[o[2]])
    <3>1. driver[o].pc \in Inside => lease[o[2]] = o[1] /\ o[1] # Nobody
      BY DEF Whole, DriverOK, Holds
    <3>2. driver[o].pc \in Inside => o[2] # i
      BY <1>2, <2>1, <2>5, <3>1, SameDriver
    <3>3. driver[o].pc \in Inside /\ Holds(d) => o[2] # d[2]
      BY <2>5, OneInside
    <3>4. driver[o].pc \in Inside => lease'[o[2]] = lease[o[2]]
      BY <1>1, <1>2, <2>1, <2>2, <3>2, <3>3 DEF Without, Types
    <3> QED BY <1>1, <2>1, <2>5, <3>4 DEF Types
  <2> QED BY <1>1, <2>4, <2>5, DriversMove
<1> QED BY <1>3, <1>4

\* Drivers that are down are right.
LEMMA CrashKeeps ==
  ASSUME Whole, NEW w \in Workers, Crash(w)
  PROVE  Whole'
<1>1. /\ driver' = [d \in Drivers |-> IF d[1] = w THEN Idle ELSE driver[d]]
      /\ UNCHANGED <<record, journal, lease>>
  BY DEF Crash
<1>2. \A d \in Drivers : driver'[d] = driver[d] \/ driver'[d] = Idle
  BY <1>1
<1> QED BY <1>1, <1>2, IdleIsRight, DriversMove

\* A lease that no driver inside its link holds can go.
LEMMA LeaseGoes ==
  ASSUME Types, Whole, NEW i \in Links, Expire(i) \/ Lapse(i)
  PROVE  Whole'
<1>1. /\ UNCHANGED <<record, journal, driver>> /\ lease[i] # Nobody
      /\ driver[<<lease[i], i>>].pc \notin Inside /\ lease' = [lease EXCEPT ![i] = Nobody]
  BY DEF Expire, Lapse, Busy, In, Inside
<1>2. \A d \in Drivers : driver[d].pc \in Inside => Holds(d)
  BY DEF Whole, DriverOK
<1>3. ASSUME NEW d \in Drivers, driver[d].pc \in Inside PROVE lease'[d[2]] = lease[d[2]]
  <2>1. <<lease[i], i>> \in Drivers
    BY <1>1 DEF Types
  <2>2. d[2] # i
    BY <1>1, <1>2, <1>3, <2>1, SameDriver DEF Holds
  <2> QED BY <1>1, <2>2 DEF Types
<1> QED BY <1>1, <1>3, DriversMove

\* A successor is created of a link that goes on.
LEMMA CreateSuccessorKeeps ==
  ASSUME Base, Whole, NEW d \in Drivers, CreateSuccessor(d)
  PROVE  Whole'
<1> DEFINE i == d[2]
           n == i + 1
<1>1. Types /\ DriverBase(d) /\ DriverOK(d) /\ LinkOK(i) /\ i \in Links /\ Reach
      /\ driver[d] \in DriverState /\ In(d, "create") /\ UNCHANGED <<cancelReq, journal>>
  BY DEF Base, Whole, Types, CreateSuccessor
<1>2. n \in Links /\ Goes(i) /\ status[i] # "absent" /\ LinkOK(n) /\ LinkBase(n)
  BY <1>1 DEF DriverOK, DriverBase, In, Behind, Whole, Base
<1>3. CASE status[n] # "absent"
  BY <1>1, <1>3, Leaves DEF CreateSuccessor, Creatable, record
<1>4. CASE status[n] = "absent"
  <2>1. status' = [status EXCEPT ![n] = "RUNNING"] /\ Go(d, "link") /\ UNCHANGED lease
    BY <1>4 DEF CreateSuccessor, Creatable
  <2>2. status'[n] = "RUNNING" /\ \A j \in Links : j # n => status'[j] = status[j]
    BY <1>1, <1>2, <2>1 DEF Types
  <2>3. GoOn
    BY <1>1, <1>4, <2>2 DEF GoOn, Goes
  <2>4. LinkOK(n)'
    <3>1. \A j \in 1..(n - 1) : Goes(j)'
      <4>1. \A j \in 1..(n - 1) : j \in Links /\ (j = i \/ j \in 1..(i - 1))
        BY <1>1
      <4> QED BY <1>1, <1>2, <2>3, <4>1 DEF LinkOK, GoOn
    <3>2. journal'[n] = <<>>
      BY <1>1, <1>2, <1>4 DEF LinkBase
    <3>3. Regular(journal[n], n)'
      BY <3>2, HasNothing DEF Regular
    <3> QED BY <2>2, <3>1, <3>3 DEF LinkOK
  <2>5. ASSUME NEW j \in Links, j # n PROVE LinkOK(j)'
    BY <1>1, <2>2, <2>3, <2>5, LinkStays
  <2>6. ASSUME NEW e \in Drivers, e # d PROVE DriverOK(e)'
    <3>1. driver'[e] = driver[e]
      BY <1>1, <2>1, <2>6 DEF Go, Types
    <3>2. driver[e].pc \in Inside => Knows(e) /\ e[2] # n /\ status[e[2]] # "CANCELLED"
      BY <1>4 DEF Base, DriverBase, Whole, DriverOK, Inside
    <3>3. driver[e].pc \in Inside => Knows(e)' /\ status'[e[2]] # "CANCELLED"
      BY <1>1, <2>2, <3>1, <3>2 DEF Knows
    <3> QED BY <2>1, <2>3, <3>1, <3>3, DriverStays
  <2>7. driver'[d] = [driver[d] EXCEPT !.pc = "link"]
    BY <1>1, <2>1 DEF Go, Types
  <2>8. driver'[d].pc = "link"
    BY <1>1, <2>7 DEF DriverState
  <2>9. DriverOK(d)'
    BY <1>1, <1>2, <2>3, <2>8 DEF DriverOK, Inside, Behind, GoOn
  <2> QED BY <2>4, <2>5, <2>6, <2>9 DEF Whole
<1> QED BY <1>3, <1>4

\* Whoever is inside a link that is marked CONTINUED knows that it has.
LEMMA MarkContinuedKeeps ==
  ASSUME Base, Whole, NEW d \in Drivers, MarkContinued(d)
  PROVE  Whole'
<1> DEFINE i == d[2]
           r == [Idle EXCEPT !.pc = "prune", !.pred = i]
<1>1. Types /\ DriverBase(d) /\ DriverOK(d) /\ LinkOK(i) /\ i \in Links /\ In(d, "link")
  BY DEF Base, Whole, MarkContinued
<1>2. /\ status' = [status EXCEPT ![i] = "CONTINUED"] /\ driver' = [driver EXCEPT ![d] = r]
      /\ UNCHANGED <<tags, cancelReq, journal, lease>>
  BY DEF MarkContinued
<1>3. Goes(i)
  BY <1>1 DEF DriverOK, In, Behind
<1>4. status'[i] = "CONTINUED" /\ \A j \in Links : j # i => status'[j] = status[j]
  BY <1>1, <1>2 DEF Types
<1>5. GoOn
  BY <1>2, <1>4 DEF GoOn, Goes
<1>6. status[i] # "CONTINUED" => Has(journal[i], "RUN_CONTINUED") /\ journal[i] # <<>>
  BY <1>3, HasNothing DEF Goes
<1>7. LinkOK(i)'
  <2>1. \A j \in 1..(i - 1) : Goes(j)'
    <3>1. status[i] # "absent"
      BY <1>1 DEF DriverBase, In
    <3>2. 1..(i - 1) \subseteq Links
      BY <1>1
    <3> QED BY <1>1, <1>5, <3>1, <3>2 DEF LinkOK, GoOn
  <2>2. Regular(journal[i], i)'
    BY <1>1, <1>2 DEF LinkOK, Regular, Has
  <2>3. journal'[i] = <<>> \/ Has(journal'[i], "RUN_CONTINUED")
    BY <1>1, <1>2, <1>6 DEF LinkOK, Has
  <2> QED BY <1>4, <2>1, <2>2, <2>3 DEF LinkOK
<1>8. ASSUME NEW j \in Links, j # i PROVE LinkOK(j)'
  BY <1>2, <1>4, <1>5, <1>8, LinkStays
<1>9. ASSUME NEW e \in Drivers, e # d PROVE DriverOK(e)'
  <2>1. driver'[e] = driver[e] /\ e[2] \in Links
    BY <1>1, <1>2, <1>9 DEF Types
  <2>2. driver[e].pc \in Inside => Knows(e) /\ Regular(driver[e].mine, e[2]) /\ status[e[2]] # "CANCELLED"
    BY DEF Whole, DriverOK
  <2>3. ASSUME driver[e].pc \in Inside PROVE Knows(e)'
    <3>1. CASE e[2] # i
      BY <1>2, <1>4, <2>1, <2>2, <2>3, <3>1 DEF Knows
    <3>2. CASE e[2] = i /\ status[i] = "CONTINUED"
      BY <1>4, <2>1, <2>2, <2>3, <3>2 DEF Knows
    <3>3. CASE e[2] = i /\ status[i] # "CONTINUED"
      <4>1. driver[e].mine = journal[i]
        BY <2>2, <2>3, <3>3 DEF Knows
      <4>2. \A k \in {"RUN_STARTED", "TAGS_UPDATED", "RUN_CONTINUED"} : Has(driver[e].mine, k)
        BY <1>6, <2>2, <2>3, <3>3, <4>1 DEF Regular
      <4> QED BY <1>4, <2>1, <3>3, <4>2 DEF Knows
    <3> QED BY <3>1, <3>2, <3>3
  <2>4. driver[e].pc \in Inside => status'[e[2]] # "CANCELLED"
    BY <1>4, <2>1, <2>2
  <2> QED BY <1>2, <1>5, <2>1, <2>3, <2>4, DriverStays
<1>10. DriverOK(d)'
  <2>1. driver'[d] = r /\ r.pc = "prune"
    BY <1>1, <1>2 DEF Types, Idle
  <2>2. driver'[d].pc = "prune"
    BY <2>1
  <2> QED BY <1>4, <2>2 DEF DriverOK, Inside, Behind, Goes
<1> QED BY <1>7, <1>8, <1>9, <1>10 DEF Whole

\* Only journals of links that are CONTINUED are pruned.
LEMMA PruneKeeps ==
  ASSUME Types, Whole, NEW d \in Drivers, Prune(d)
  PROVE  Whole'
<1> DEFINE pred == driver[d].pred
           old  == Old(driver[d].kept + 1)
           r    == [Idle EXCEPT !.pc = "next"]
           m    == [driver[d] EXCEPT !.pred = pred - 1, !.kept = driver[d].kept + 1]
<1>1. DriverOK(d) /\ In(d, "prune") /\ driver[d] \in DriverState /\ UNCHANGED <<record, lease>>
  BY DEF Whole, Types, Prune
<1>2. Goes(d[2]) /\ pred \in Nat
  BY <1>1 DEF DriverOK, In, Behind, DriverState
<1>3. CASE pred = 0 \/ (pred > 0 /\ (status[pred] # "CONTINUED" \/ (old /\ journal[pred] = <<>>)))
  <2>1. driver' = [driver EXCEPT ![d] = r] /\ UNCHANGED journal
    BY <1>3 DEF Prune
  <2>2. r.pc \in Behind /\ driver[d].pc \in Behind
    BY <1>1 DEF Idle, In, Behind
  <2> HIDE DEF r
  <2> QED BY <1>1, <2>1, <2>2, MovesBehind
<1>4. CASE ~(pred = 0 \/ (pred > 0 /\ (status[pred] # "CONTINUED" \/ (old /\ journal[pred] = <<>>))))
  <2>1. /\ journal' = IF old THEN [journal EXCEPT ![pred] = <<>>] ELSE journal
        /\ driver' = [driver EXCEPT ![d] = m]
    <3>1. driver' = [driver EXCEPT ![d].pred = @ - 1, ![d].kept = @ + 1]
      BY <1>4 DEF Prune
    <3>2. journal' = IF old THEN [journal EXCEPT ![pred] = <<>>] ELSE journal
      BY <1>4 DEF Prune
    <3> QED BY <1>1, <3>1, <3>2 DEF Types
  <2>2. status[pred] = "CONTINUED"
    BY <1>2, <1>4
  <2>3. \A j \in Links : journal'[j] = journal[j] \/ (status[j] = "CONTINUED" /\ journal'[j] = <<>>)
    BY <2>1, <2>2 DEF Types
  <2>4. GoOn
    BY <1>1, <2>3 DEF GoOn, Goes, record, Has
  <2>5. ASSUME NEW j \in Links PROVE LinkOK(j)'
    <3>1. CASE journal'[j] = journal[j]
      BY <1>1, <2>4, <3>1, LinkStays DEF record
    <3>2. CASE status[j] = "CONTINUED" /\ journal'[j] = <<>>
      <4>1. Regular(journal[j], j)'
        BY <3>2, HasNothing DEF Regular
      <4>2. \A o \in 1..(j - 1) : Goes(o)'
        <5>1. LinkOK(j) /\ 1..(j - 1) \subseteq Links
          BY DEF Whole
        <5> QED BY <2>4, <3>2, <5>1 DEF LinkOK, GoOn
      <4>3. status'[j] = "CONTINUED"
        BY <1>1, <3>2 DEF record
      <4> QED BY <3>2, <4>1, <4>2, <4>3 DEF LinkOK
    <3> QED BY <2>3, <3>1, <3>2
  <2>6. ASSUME NEW e \in Drivers, e # d PROVE DriverOK(e)'
    <3>1. driver'[e] = driver[e] /\ e[2] \in Links
      BY <2>1, <2>6 DEF Types
    <3>2. driver[e].pc \in Inside => Knows(e) /\ status[e[2]] # "CANCELLED"
      BY DEF Whole, DriverOK
    <3>3. driver[e].pc \in Inside => Knows(e)' /\ status'[e[2]] # "CANCELLED"
      BY <1>1, <2>3, <3>1, <3>2 DEF Knows, record
    <3> QED BY <1>1, <2>4, <3>1, <3>3, DriverStays
  <2>7. driver'[d].pc = "prune"
    <3>1. driver'[d] = m
      BY <2>1 DEF Types
    <3> QED BY <1>1, <3>1 DEF In, DriverState
  <2>8. DriverOK(d)'
    BY <1>2, <2>4, <2>7 DEF DriverOK, Inside, Behind, GoOn
  <2> QED BY <2>5, <2>6, <2>8 DEF Whole
<1> QED BY <1>3, <1>4

\* The link whose driver has journaled its end is the last one.
LEMMA MarksLast ==
  ASSUME Base, Whole, NEW d \in Drivers, driver[d].pc \in {"completed", "cancelled"}
  PROVE  /\ driver[d].mine = journal[d[2]] /\ Holds(d)
         /\ status[d[2]] \notin {"absent", "CONTINUED", "CANCELLED"} /\ ~Goes(d[2])
         /\ d[2] + 1 \in Links => status[d[2] + 1] = "absent"
<1> DEFINE i == d[2]
<1>1. DriverOK(d) /\ DriverBase(d) /\ i \in Links
  BY DEF Base, Whole
<1>2. Holds(d) /\ Knows(d) /\ Regular(driver[d].mine, i) /\ status[i] \notin {"absent", "CANCELLED"}
  BY <1>1 DEF DriverOK, DriverBase, Inside
<1>3. ~Has(driver[d].mine, "RUN_CONTINUED")
  BY <1>1, <1>2 DEF DriverOK, Regular
<1>4. status[i] # "CONTINUED" /\ driver[d].mine = journal[i]
  BY <1>2, <1>3 DEF Knows
<1>5. ~Goes(i)
  BY <1>3, <1>4 DEF Goes
<1>6. i + 1 \in Links => status[i + 1] = "absent"
  <2>1. SUFFICES ASSUME i + 1 \in Links, status[i + 1] # "absent" PROVE FALSE
    OBVIOUS
  <2>2. LinkOK(i + 1) /\ i \in 1..((i + 1) - 1)
    BY <1>1, <2>1 DEF Whole
  <2> QED BY <1>5, <2>1, <2>2 DEF LinkOK
<1> QED BY <1>2, <1>4, <1>5, <1>6

\* The outcome that is written is the one that is journaled.
LEMMA MarkFinalKeeps ==
  ASSUME Base, Whole, NEW d \in Drivers, MarkFinal(d)
  PROVE  Whole'
<1> DEFINE i == d[2]
<1>1. Types /\ DriverOK(d) /\ LinkOK(i) /\ i \in Links /\ driver[d].pc \in {"completed", "cancelled"}
  BY DEF Base, Whole, MarkFinal, In
<1>2. PICK s \in {"COMPLETED", "CANCELLED"} :
        /\ status' = [status EXCEPT ![i] = s]
        /\ s = "COMPLETED" => driver[d].pc = "completed"
        /\ s = "CANCELLED" => driver[d].pc = "cancelled"
  BY DEF MarkFinal, In
<1>3. /\ driver' = [driver EXCEPT ![d] = Idle] /\ lease' = Without(d)
      /\ UNCHANGED <<tags, cancelReq, journal>>
  BY DEF MarkFinal, Leave
<1>4. /\ driver[d].mine = journal[i] /\ Holds(d) /\ status[i] \notin {"absent", "CONTINUED"}
      /\ ~Goes(i)
  BY <1>1, MarksLast
<1>5. status'[i] = s /\ \A j \in Links : j # i => status'[j] = status[j]
  BY <1>1, <1>2 DEF Types
<1>6. GoOn
  BY <1>3, <1>4, <1>5 DEF GoOn, Goes, Has
<1>7. LinkOK(i)'
  <2>1. Regular(journal[i], i)'
    BY <1>1, <1>3 DEF LinkOK, Regular, Has
  <2>2. \A j \in 1..(i - 1) : Goes(j)'
    <3>1. 1..(i - 1) \subseteq Links
      BY <1>1
    <3> QED BY <1>1, <1>4, <1>6, <3>1 DEF LinkOK, GoOn
  <2>3. /\ s = "COMPLETED" => Has(journal'[i], "RUN_COMPLETED")
        /\ s = "CANCELLED" => ~Has(journal'[i], "TAGS_UPDATED")
    BY <1>1, <1>2, <1>3, <1>4 DEF DriverOK
  <2> QED BY <1>5, <2>1, <2>2, <2>3 DEF LinkOK
<1>8. ASSUME NEW j \in Links, j # i PROVE LinkOK(j)'
  BY <1>3, <1>5, <1>6, <1>8, LinkStays
<1>9. ASSUME NEW e \in Drivers, e # d PROVE DriverOK(e)'
  <2>1. driver'[e] = driver[e] /\ e[2] \in Links
    BY <1>1, <1>3, <1>9 DEF Types
  <2>2. driver[e].pc \in Inside => Knows(e) /\ e[2] # i /\ status[e[2]] # "CANCELLED"
    BY <1>4, <1>9, OneInside DEF Whole, DriverOK
  <2>3. driver[e].pc \in Inside => Knows(e)' /\ status'[e[2]] # "CANCELLED"
    BY <1>3, <1>5, <2>1, <2>2 DEF Knows
  <2>4. driver[e].pc \in Inside => lease'[e[2]] = lease[e[2]]
    BY <1>1, <1>3, <2>1, <2>2 DEF Without, Types
  <2> QED BY <1>6, <2>1, <2>3, <2>4, DriverStays
<1>10. DriverOK(d)'
  BY <1>1, <1>3, IdleIsRight DEF Types
<1> QED BY <1>7, <1>8, <1>9, <1>10 DEF Whole

\* A request alone changes nothing that is right.
LEMMA RequestCancelKeeps ==
  ASSUME Whole, UNCHANGED <<status, tags, journal, lease, driver>>
  PROVE  Whole'
<1>1. GoOn
  BY DEF GoOn, Goes
<1>2. \A j \in Links : LinkOK(j)'
  BY <1>1, LinkStays
<1>3. \A d \in Drivers : driver[d].pc \in Inside => Knows(d)' /\ status'[d[2]] # "CANCELLED"
  BY DEF Whole, DriverOK, Knows
<1>4. \A d \in Drivers : DriverOK(d)'
  BY <1>1, <1>3, DriverStays
<1> QED BY <1>2, <1>4 DEF Whole

\* Every step that reopens nothing keeps the chain whole.
LEMMA WholeStays ==
  ASSUME Base, Whole, [Next]_vars, ~reopened'
  PROVE  Whole'
<1>1. Types
  BY DEF Base
<1>2. ASSUME NEW w \in Workers, NEW i \in Links, Ensure(w, i) \/ EnsureStale(w, i) PROVE Whole'
  BY <1>1, <1>2, EnsureKeeps
<1>3. ASSUME NEW d \in Drivers, Drive(d) \/ Fenced(d) PROVE Whole'
  <2>1. CASE JournalStart(d) \/ TagStore(d) \/ TagJournal(d) \/ Cancelled(d) \/ BodyEnds(d)
    BY <1>1, <2>1, JournalStartKeeps, TagStoreKeeps, TagJournalKeeps, CancelledKeeps, BodyEndsKeeps
  <2>2. CASE LookForSuccessor(d) \/ CreateSuccessor(d) \/ MarkContinued(d) \/ Prune(d)
    BY <1>1, <2>2, LookForSuccessorKeeps, CreateSuccessorKeeps, MarkContinuedKeeps, PruneKeeps
  <2>3. CASE LoadNext(d) \/ EnsureNext(d) \/ MarkFinal(d)
    BY <1>1, <2>3, LoadNextKeeps, EnsureNextKeeps, MarkFinalKeeps
  <2>4. CASE Fenced(d)
    BY <1>1, <2>4, Leaves DEF Fenced
  <2> QED BY <1>3, <2>1, <2>2, <2>3, <2>4 DEF Drive
<1>4. ASSUME NEW w \in Workers, Crash(w) PROVE Whole'
  BY <1>4, CrashKeeps
<1>5. ASSUME NEW i \in Links, Expire(i) \/ Lapse(i) PROVE Whole'
  BY <1>1, <1>5, LeaseGoes
<1>6. CASE Cancel \/ RequestCancel \/ UNCHANGED vars
  <2>1. UNCHANGED <<status, tags, journal, lease, driver>>
    BY <1>6 DEF Cancel, RequestCancel, vars, record
  <2> QED BY <2>1, RequestCancelKeeps
<1> QED BY <1>2, <1>3, <1>4, <1>5, <1>6 DEF Next

-----------------------------------------------------------------------------
(* The invariant *)

\* Nobody drives the first link yet, and it is the only one.
LEMMA InitEstablishes == Init => Base /\ Whole
<1> SUFFICES ASSUME Init PROVE Base /\ Whole
  OBVIOUS
<1>1. Types
  <2>1. status \in [Links -> Statuses] /\ tags \in [Links -> SUBSET Links]
    BY DEF Init, Statuses
  <2>2. cancelReq \in [Links -> BOOLEAN] /\ journal \in [Links -> Seq(Kinds)]
    BY DEF Init
  <2>3. lease \in [Links -> Workers \cup {Nobody}] /\ driver \in [Drivers -> DriverState]
    BY IdleType DEF Init
  <2>4. reopened \in BOOLEAN
    BY DEF Init
  <2> QED BY <2>1, <2>2, <2>3, <2>4 DEF Types
<1>2. 1 \in Links /\ \A i \in Links : status[i] # "absent" <=> i <= 1
  BY DEF Init
<1>3. \A i \in Links : journal[i] = <<>> /\ (status[i] = "RUNNING" \/ status[i] = "absent")
  BY DEF Init
<1>4. ASSUME NEW i \in Links PROVE LinkBase(i) /\ LinkOK(i)
  <2>1. \A k : ~Has(journal[i], k)
    BY <1>3, HasNothing
  <2>2. status[i] # "absent" => i = 1 /\ 1..(i - 1) = {}
    BY <1>2
  <2>3. ~Exists(i + 1)
    BY <1>2 DEF Exists
  <2> QED BY <1>3, <2>1, <2>2, <2>3 DEF LinkBase, LinkOK, Regular
<1>5. \A d \in Drivers : DriverBase(d) /\ DriverOK(d)
  BY DEF Init, DriverBase, DriverOK, Idle, Inside, Behind
<1> QED BY <1>1, <1>2, <1>4, <1>5 DEF Base, Whole, Reach

\* A history of reopened links does not end.
LEMMA ReopenedStays == Types /\ [Next]_vars /\ reopened => reopened'
BY DEF Types, Next, vars, Ensure, EnsureStale, Drive, JournalStart, TagStore, TagJournal, Cancelled,
       BodyEnds, LookForSuccessor, CreateSuccessor, MarkContinued, Prune, LoadNext, EnsureNext,
       MarkFinal, Fenced, Crash, Expire, Lapse, Cancel, RequestCancel

\* The invariant is inductive.
LEMMA NextPreserves == IInv /\ [Next]_vars => IInv'
<1> SUFFICES ASSUME IInv, [Next]_vars PROVE IInv'
  OBVIOUS
<1>1. Base' /\ Types
  BY BaseStays DEF IInv, Base
<1>2. CASE reopened'
  BY <1>1, <1>2 DEF IInv
<1>3. CASE ~reopened'
  <2>1. Whole
    BY <1>1, <1>3, ReopenedStays DEF IInv
  <2> QED BY <1>1, <1>3, <2>1, WholeStays DEF IInv
<1> QED BY <1>2, <1>3

\* What a link has tagged and that its successors exist outlasts everything,
\* stale records too.  Until one has reopened a link, a driver that is not past
\* RUN_CONTINUED holds the lease and knows the journal, whoever else has stalled
\* behind it, and a link goes on exactly when its successor exists.
THEOREM InductiveInvariant == Spec => []IInv
<1>1. Init => IInv
  BY InitEstablishes DEF IInv
<1> QED BY <1>1, NextPreserves, PTL DEF Spec

-----------------------------------------------------------------------------
(* What follows from it *)

\* The live end is the last of the links that exist.
LEMMA EndIsLast ==
  ASSUME Base
  PROVE  End \in Links /\ \A i \in Links : status[i] # "absent" <=> i <= End
<1>1. PICK n \in Links : \A i \in Links : status[i] # "absent" <=> i <= n
  BY DEF Base, Reach
<1>2. status[n] # "absent" /\ n + 1 \notin Existing
  BY <1>1 DEF Existing
<1>3. End \in Links /\ status[End] # "absent" /\ End + 1 \notin Existing
  BY <1>2 DEF End
<1>4. End = n
  BY <1>1, <1>3 DEF Existing
<1> QED BY <1>1, <1>4

\* _prune_chain never prunes a link within chain_keep of the live end, even when
\* links that were over are driven again.
THEOREM PruningKeepsNewest == Spec => []KeepsNewest
<1>1. ASSUME IInv PROVE KeepsNewest
  <2>1. Base
    BY <1>1 DEF IInv
  <2>2. ASSUME NEW i \in Links, status[i] = "CONTINUED", journal[i] = <<>>
        PROVE  i + Keep < End
    <3>1. i + Keep + 1 \in Links /\ status[i + Keep + 1] # "absent"
      BY <2>1, <2>2 DEF Base, LinkBase, Exists
    <3>2. i + Keep + 1 <= End /\ End \in Links
      BY <2>1, <3>1, EndIsLast
    <3> QED BY <3>2
  <2> QED BY <2>2 DEF KeepsNewest
<1> QED BY <1>1, InductiveInvariant, PTL

\* A successor is created with the tags its predecessor has gathered, and those
\* of all links before, whoever creates it and from whatever record.
THEOREM TagsAreCarried == Spec => []TagsCarried
<1>1. ASSUME IInv PROVE TagsCarried
  <2>1. ASSUME NEW i \in Existing, NEW j \in Existing, i < j PROVE i \in tags[j]
    <3>1. LinkBase(j) /\ status[j] # "absent" /\ i \in 1..(j - 1)
      BY <1>1, <2>1 DEF IInv, Base, Existing
    <3> QED BY <3>1 DEF LinkBase
  <2> QED BY <2>1 DEF TagsCarried
<1> QED BY <1>1, InductiveInvariant, PTL

-----------------------------------------------------------------------------
(* One computation *)

\* The live end after a step.
LEMMA NextEnd ==
  ASSUME NEW n \in Links, \A i \in Links : status'[i] # "absent" <=> i <= n
  PROVE  End' = n
<1>1. status'[n] # "absent" /\ n + 1 \notin Existing'
  BY DEF Existing
<1>2. PICK e \in Links : e = End' /\ status'[e] # "absent" /\ e + 1 \notin Existing'
  BY <1>1 DEF End
<1>3. e <= n
  BY <1>2
<1>4. ASSUME e < n PROVE FALSE
  <2>1. e + 1 \in Links /\ e + 1 <= n
    BY <1>4
  <2> QED BY <1>2, <2>1 DEF Existing
<1> QED BY <1>2, <1>3, <1>4

\* It begins with the first link.
LEMMA InitialLineage ==
  ASSUME Init
  PROVE  OneComputation!Init
<1>1. End = 1
  <2>1. Base
    BY InitEstablishes
  <2>2. 1 \in Links /\ \A i \in Links : status[i] # "absent" <=> i <= 1
    BY DEF Init
  <2> QED BY <2>1, <2>2, EndIsLast
<1>2. Outcome = "RUNNING"
  BY <1>1 DEF Init, Outcome
<1> QED BY <1>1, <1>2 DEF OneComputation!Init

\* The link that gets a successor is the live end, and has no other outcome.
LEMMA CreateSuccessorContinues ==
  ASSUME Base, Whole, NEW d \in Drivers, CreateSuccessor(d), status' # status
  PROVE  OneComputation!Continue
<1> DEFINE i == d[2]
<1>1. /\ status[i + 1] = "absent" /\ status' = [status EXCEPT ![i + 1] = "RUNNING"]
  BY DEF CreateSuccessor, Creatable
<1>2. DriverOK(d) /\ DriverBase(d) /\ LinkOK(i) /\ i \in Links /\ Types /\ In(d, "create")
  BY DEF Base, Whole, CreateSuccessor
<1>3. i + 1 \in Links /\ Goes(i) /\ status[i] # "absent"
  BY <1>2 DEF DriverOK, DriverBase, In, Behind
<1>4. End \in Links /\ \A j \in Links : status[j] # "absent" <=> j <= End
  BY EndIsLast
<1>5. End = i
  BY <1>1, <1>2, <1>3, <1>4
<1>6. status[i] \in {"RUNNING", "CONTINUED"}
  BY <1>2, <1>3 DEF LinkOK, Goes, Regular, Types, Statuses
<1>7. \A j \in Links : status'[j] # "absent" <=> j <= i + 1
  BY <1>1, <1>2, <1>3, <1>4, <1>5 DEF Types
<1>8. End' = i + 1
  BY <1>3, <1>7, NextEnd
<1>9. Outcome = "RUNNING"
  BY <1>5, <1>6 DEF Outcome
<1>10. status'[i + 1] = "RUNNING"
  BY <1>1, <1>2, <1>3 DEF Types
<1>11. Outcome' = "RUNNING"
  BY <1>8, <1>10 DEF Outcome
<1> QED BY <1>3, <1>5, <1>8, <1>9, <1>11 DEF OneComputation!Continue

\* The link that is marked CONTINUED is not the live end.
LEMMA MarkContinuedStutters ==
  ASSUME Base, NEW d \in Drivers, MarkContinued(d)
  PROVE  UNCHANGED <<End, Outcome>>
<1> DEFINE i == d[2]
<1>1. DriverBase(d) /\ i \in Links /\ Types /\ status' = [status EXCEPT ![i] = "CONTINUED"]
      /\ In(d, "link")
  BY DEF Base, MarkContinued
<1>2. i + 1 \in Links /\ status[i] # "absent" /\ status[i + 1] # "absent"
  BY <1>1 DEF DriverBase, In, Exists
<1>3. End \in Links /\ \A j \in Links : status[j] # "absent" <=> j <= End
  BY EndIsLast
<1>4. \A j \in Links : status'[j] # "absent" <=> j <= End
  BY <1>1, <1>2, <1>3 DEF Types
<1>5. End' = End
  BY <1>3, <1>4, NextEnd
<1>6. End # i
  BY <1>1, <1>2, <1>3
<1>7. status'[End] = status[End]
  BY <1>1, <1>3, <1>6 DEF Types
<1>8. Outcome' = Outcome
  BY <1>5, <1>7 DEF Outcome
<1> QED BY <1>5, <1>8

\* The link that is marked COMPLETED or CANCELLED is the live end, and it is
\* not marked anew.
LEMMA MarkFinalFinishes ==
  ASSUME Base, Whole, NEW d \in Drivers, MarkFinal(d)
  PROVE  OneComputation!Finish \/ UNCHANGED <<End, Outcome>>
<1> DEFINE i == d[2]
<1>1. DriverOK(d) /\ LinkOK(i) /\ i \in Links /\ Types /\ driver[d].pc \in {"completed", "cancelled"}
  BY DEF Base, Whole, MarkFinal, In
<1>2. PICK s \in {"COMPLETED", "CANCELLED"} :
        /\ status' = [status EXCEPT ![i] = s]
        /\ s = "COMPLETED" => driver[d].pc = "completed"
        /\ s = "CANCELLED" => driver[d].pc = "cancelled"
  BY DEF MarkFinal, In
<1>3. /\ driver[d].mine = journal[i] /\ status[i] \notin {"absent", "CONTINUED", "CANCELLED"}
      /\ i + 1 \in Links => status[i + 1] = "absent"
  BY <1>1, MarksLast
<1>4. End \in Links /\ \A j \in Links : status[j] # "absent" <=> j <= End
  BY EndIsLast
<1>5. End = i
  BY <1>1, <1>3, <1>4
<1>6. \A j \in Links : status'[j] # "absent" <=> j <= End
  BY <1>1, <1>2, <1>3, <1>4 DEF Types
<1>7. End' = End
  BY <1>4, <1>6, NextEnd
<1>8. Outcome = status[i] /\ Outcome' = s
  <2>1. status'[i] = s
    BY <1>1, <1>2 DEF Types
  <2> QED BY <1>3, <1>5, <1>7, <2>1 DEF Outcome
<1>9. status[i] = "RUNNING" \/ status[i] = s
  <2>1. status[i] \in {"RUNNING", "COMPLETED"}
    BY <1>1, <1>3 DEF Types, Statuses
  <2>2. status[i] = "COMPLETED" => Has(driver[d].mine, "TAGS_UPDATED")
    BY <1>1, <1>3 DEF LinkOK, Regular
  <2>3. s = "CANCELLED" => ~Has(driver[d].mine, "TAGS_UPDATED")
    BY <1>1, <1>2 DEF DriverOK
  <2> QED BY <2>1, <2>2, <2>3
<1> QED BY <1>2, <1>7, <1>8, <1>9 DEF OneComputation!Finish

\* Every other step leaves the records' statuses alone.
LEMMA StepsOfLineage ==
  ASSUME Base, Whole, [Next]_vars
  PROVE  [OneComputation!Continue \/ OneComputation!Finish]_<<End, Outcome>>
<1>1. CASE status' = status
  BY <1>1 DEF Existing, End, Outcome
<1>2. CASE status' # status
  <2>1. PICK d \in Drivers : CreateSuccessor(d) \/ MarkContinued(d) \/ MarkFinal(d)
    <3>1. \A w \in Workers, i \in Links : ~Ensure(w, i) /\ ~EnsureStale(w, i)
      BY <1>2 DEF Ensure, EnsureStale, record
    <3>2. \A i \in Links : ~Expire(i) /\ ~Lapse(i)
      BY <1>2 DEF Expire, Lapse, record
    <3>3. \A w \in Workers : ~Crash(w)
      BY <1>2 DEF Crash, record
    <3>4. ~Cancel /\ ~RequestCancel /\ ~UNCHANGED vars
      BY <1>2 DEF Cancel, RequestCancel, vars, record
    <3>5. PICK d \in Drivers : Drive(d) \/ Fenced(d)
      BY <3>1, <3>2, <3>3, <3>4 DEF Next
    <3>6. ~JournalStart(d) /\ ~TagStore(d) /\ ~TagJournal(d) /\ ~Cancelled(d) /\ ~BodyEnds(d)
      BY <1>2 DEF JournalStart, TagStore, TagJournal, Cancelled, BodyEnds, record
    <3>7. ~LookForSuccessor(d) /\ ~Prune(d) /\ ~LoadNext(d) /\ ~EnsureNext(d) /\ ~Fenced(d)
      BY <1>2 DEF LookForSuccessor, Prune, LoadNext, EnsureNext, Fenced, record
    <3> QED BY <3>5, <3>6, <3>7 DEF Drive
  <2> QED BY <1>2, <2>1, CreateSuccessorContinues, MarkContinuedStutters, MarkFinalFinishes
<1> QED BY <1>1, <1>2

\* Whatever crashes, stalls and takes over, and however old the records that
\* drivers are started with, the chain implements a computation with one live
\* end that only moves forward and one outcome, until a link that was cancelled
\* or pruned is driven again.
THEOREM ChainIsOneComputation == Spec => IsOneComputation
<1>1. Init => OneComputation!Init
  BY InitialLineage
<1>2. IInv /\ [Next]_vars => [reopened \/ OneComputation!Next]_<<End, Outcome>>
  BY StepsOfLineage DEF IInv, OneComputation!Next
<1> QED BY <1>1, <1>2, InductiveInvariant, PTL DEF Spec, IsOneComputation

=============================================================================
