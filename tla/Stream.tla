------------------------------- MODULE Stream -------------------------------
(***************************************************************************)
(* The live page of the monitoring UI: the server tells an open event      *)
(* stream that something changed, the page fetches what it shows again.    *)
(*                                                                         *)
(* The database has one run, among the newest the change poll compares.    *)
(* The page looks at that run ("run") or at the list of runs ("list").     *)
(* Notifications carry nothing the page uses, so a queue is a number.      *)
(***************************************************************************)
EXTENDS Integers, FiniteSets, FiniteSetsExt

CONSTANTS
  Conns,      \* connections: a stream of the page is one of them
  Limit,      \* max_streams
  QueueSize,  \* _STREAM_QUEUE
  Slow,       \* the page polls every Slow-th tick while its stream is up
  MaxEvents   \* bound: writes, deeds of the user and failures, together

ASSUME StreamAssumption ==
  /\ Limit \in Nat \ {0} /\ QueueSize \in Nat \ {0} /\ Slow \in Nat \ {0}
  /\ MaxEvents \in Nat

VARIABLES
  rec,      \* version of the record of the run (updated_at)
  jnl,      \* version of its journal
  tail,     \* latest_event_seq of its journal
  unsaid,   \* the driver here has appended, its observers are not called yet
  rewound,  \* a reset has rewritten the journal and not yet the record
  sub,      \* _subscribers: the queue of every connection, and what it knows
  seenRec, seenSeq,  \* _seen_runs, _seen_seqs
  poll,     \* the change poll: "idle", or "list" or "run": what it reads next
  wire,     \* connections with a message under way to the page
  es,       \* the page's stream: up, being opened, or refused
  conn,     \* its connection
  live,     \* live.on: the page takes its stream to be up
  view, shown, fetch,      \* what the page is at, shows, and is fetching
  busy, pending, missed,   \* state.busy, live.pending, live.missed
  hidden, typing, ticks,   \* document.hidden, a form has the focus, live.ticks
  events

database == <<rec, jnl, tail, unsaid, rewound>>
server   == <<sub, seenRec, seenSeq, poll>>
page     == <<view, shown, fetch, busy, pending, missed, hidden, typing, ticks>>
link     == <<wire, es, conn, live>>
vars     == <<database, server, page, link, events>>

Unknown == -1
Closed  == [run |-> "none", queue |-> 0, told |-> <<Unknown, Unknown>>]
NoFetch == [at |-> "none", got |-> <<Unknown, Unknown>>]

\* What a page, or a stream, of either kind is about.
Content(v) == <<rec, IF v = "run" THEN jnl ELSE 0>>

\* What the server can tell apart: of a journal, its last number.
Visible(v) == <<rec, IF v = "run" THEN tail ELSE 0>>
Subscribers == {c \in Conns : sub[c] # Closed}
Up == es = "up"

\* Something happens that nobody has to wait for.
Event == events < MaxEvents /\ events' = events + 1

-----------------------------------------------------------------------------
(* The database changes. *)

Write == Event /\ UNCHANGED <<server, page, link>>

\* An append by a run driven here is told to the observers when it is back.
Append(here) ==
  /\ Write /\ jnl' = jnl + 1 /\ tail' = tail + 1
  /\ IF here THEN ~unsaid /\ unsaid' = TRUE ELSE unsaid' = unsaid
  /\ UNCHANGED <<rec, rewound>>

WriteRecord ==
  /\ Write /\ rec' = rec + 1 /\ UNCHANGED <<jnl, tail, unsaid, rewound>>

\* A reset: the journal gets shorter, then the record is reopened.
Rewind ==
  /\ Write /\ ~rewound /\ rewound' = TRUE /\ tail > 0
  /\ tail' = tail - 1 /\ jnl' = jnl + 1
  /\ UNCHANGED <<rec, unsaid>>

Reopen ==
  /\ rewound /\ rewound' = FALSE /\ rec' = rec + 1
  /\ UNCHANGED <<jnl, tail, unsaid, server, page, link, events>>

-----------------------------------------------------------------------------
(* The server. *)

\* _publish to one stream: a full queue drops it, its client is behind anyway.
Notified(s) ==
  IF s = Closed THEN s
  ELSE [s EXCEPT !.queue = Min({@ + 1, QueueSize}),
                 !.told = IF @ = Closed.told THEN @ ELSE Visible(s.run)]

Publish == [c \in Conns |-> Notified(sub[c])]

\* _on_journal_event
Observe ==
  /\ unsaid /\ unsaid' = FALSE /\ sub' = Publish
  /\ UNCHANGED <<rec, jnl, tail, rewound, seenRec, seenSeq, poll, page, link, events>>

\* Some stream watches the run.
Watched == \E c \in Subscribers : sub[c].run = "run"

\* _poll_once reads the records, tells what changed since the last pass, and
\* notes whose journals are watched.
PollRuns ==
  /\ poll = "idle" /\ Subscribers # {}
  /\ seenRec' = rec
  /\ sub' = IF seenRec # rec THEN Publish ELSE sub
  /\ poll' = IF Watched THEN "run" ELSE "list"
  /\ UNCHANGED <<seenSeq, database, page, link, events>>

\* Mutant: the number is remembered before it is compared.
NoChange == FALSE

\* At first sight of a journal nothing has changed.
SeqChanged == seenSeq \notin {Unknown, tail}

\* From then on the stream knows the present.
Sighted(s) == IF s.run # "run" \/ s.told # Closed.told THEN s
              ELSE [s EXCEPT !.told = Visible("run")]

\* ... then it reads the journals that are watched.
PollJournals ==
  /\ poll # "idle" /\ poll' = "idle"
  /\ seenSeq' = IF poll = "run" THEN tail ELSE Unknown
  /\ sub' = IF poll = "list" THEN sub
            ELSE IF SeqChanged THEN [c \in Conns |-> Sighted(Notified(sub[c]))]
            ELSE [c \in Conns |-> Sighted(sub[c])]
  /\ UNCHANGED <<seenRec, database, page, link, events>>

\* A read of the poll fails: it is logged, and the next pass tries again.
PollFails ==
  /\ poll # "idle" /\ Event
  /\ poll' = "idle"
  /\ UNCHANGED <<sub, seenRec, seenSeq, database, page, link>>

\* _sse: everything in the queue goes out as one message, when the last one
\* has been taken (writer.drain).
Send(c) ==
  /\ c \in Subscribers /\ sub[c].queue > 0 /\ c \notin wire
  /\ wire' = wire \cup {c} /\ sub' = [sub EXCEPT ![c].queue = 0]
  /\ UNCHANGED <<seenRec, seenSeq, poll, es, conn, live, database, page, events>>

\* _stream: the greeting is not a change, so the page hears nothing of it.
Accept ==
  /\ es = "opening" /\ Cardinality(Subscribers) < Limit
  /\ sub' = [sub EXCEPT ![conn].run = view,
                        ![conn].told = IF view = "list" THEN Visible(view) ELSE @]
  /\ es' = "up" /\ live' = TRUE
  /\ UNCHANGED <<seenRec, seenSeq, poll, wire, conn, database, page, events>>

\* 503: an EventSource does not come back from that.
Refuse ==
  /\ es = "opening" /\ Cardinality(Subscribers) >= Limit
  /\ es' = "refused" /\ live' = FALSE
  /\ UNCHANGED <<wire, conn, database, server, page, events>>

\* _write_stream: the client of a stream has hung up, on_close.
HangUp(c) ==
  /\ c \in Subscribers /\ ~(c = conn /\ Up)
  /\ sub' = [sub EXCEPT ![c] = Closed] /\ wire' = wire \ {c}
  /\ UNCHANGED <<seenRec, seenSeq, poll, es, conn, live, database, page, events>>

-----------------------------------------------------------------------------
(* The page. *)

\* render: one at a time.
Render(v) ==
  IF busy THEN UNCHANGED <<busy, fetch>>
  ELSE busy' = TRUE /\ fetch' = [fetch EXCEPT !.at = v]

CanAutoRender == ~busy /\ ~typing
AutoRender == IF CanAutoRender THEN Render(view) ELSE UNCHANGED <<busy, fetch>>

\* The server answers with what the database has.
Answer ==
  /\ busy /\ fetch.got = NoFetch.got
  /\ fetch' = [fetch EXCEPT !.got = Content(fetch.at)]
  /\ UNCHANGED <<view, shown, busy, pending, missed, hidden, typing, ticks,
                 database, server, link, events>>

Draw ==
  /\ fetch.got # NoFetch.got
  /\ shown' = fetch /\ fetch' = NoFetch /\ busy' = FALSE
  /\ UNCHANGED <<view, pending, missed, hidden, typing, ticks,
                 database, server, link, events>>

FetchFails ==
  /\ busy /\ Event
  /\ shown' = NoFetch /\ fetch' = NoFetch /\ busy' = FALSE
  /\ UNCHANGED <<view, pending, missed, hidden, typing, ticks,
                 database, server, link>>

\* scheduleRender
Schedule ==
  IF hidden THEN missed' = TRUE /\ pending' = pending
  ELSE pending' = TRUE /\ missed' = missed

Receive ==
  /\ Up /\ conn \in wire /\ wire' = wire \ {conn} /\ Schedule
  /\ UNCHANGED <<es, conn, live, view, shown, fetch, busy, hidden, typing, ticks,
                 database, server, events>>

Timer ==
  /\ pending /\ pending' = FALSE /\ AutoRender
  /\ UNCHANGED <<view, shown, missed, hidden, typing, ticks, database, server, link, events>>

\* Mutant: no polling while the stream is up.
OnlyWithoutStream == ~live

\* The interval: every tick without a stream, every Slow-th tick with one.
Due == ~live \/ (ticks + 1) % Slow = 0

Interval ==
  /\ ~hidden /\ CanAutoRender
  /\ ticks' = IF live THEN (ticks + 1) % Slow ELSE ticks
  /\ IF Due THEN Render(view) ELSE UNCHANGED <<busy, fetch>>
  /\ UNCHANGED <<view, shown, pending, missed, hidden, typing, database, server, link, events>>

\* The network drops the stream, and the EventSource opens it again.
Drop ==
  /\ Up /\ Event
  /\ \E c \in Conns \ Subscribers : conn' = c
  /\ es' = "opening" /\ live' = FALSE /\ wire' = wire \ {conn}
  /\ UNCHANGED <<database, server, page>>

-----------------------------------------------------------------------------
(* The user. *)

Move == Event /\ UNCHANGED <<database, server>>

\* hashchange: render(true), connectStream.
Navigate(v) ==
  /\ Move /\ v # view /\ view' = v
  /\ Render(v)
  /\ \E c \in Conns \ Subscribers : conn' = c
  /\ es' = "opening" /\ wire' = wire \ {conn}
  /\ UNCHANGED <<live, shown, pending, missed, hidden, typing, ticks>>

Hide ==
  /\ Move /\ ~hidden /\ hidden' = TRUE
  /\ UNCHANGED <<view, shown, fetch, busy, pending, missed, typing, ticks, link>>

Type ==
  /\ Move /\ ~typing /\ typing' = TRUE
  /\ UNCHANGED <<view, shown, fetch, busy, pending, missed, hidden, ticks, link>>

\* visibilitychange: what was missed is caught up with.
Show ==
  /\ hidden /\ hidden' = FALSE
  /\ missed' = FALSE /\ pending' = (pending \/ missed)
  /\ UNCHANGED <<view, shown, fetch, busy, typing, ticks, database, server, link, events>>

Leave ==
  /\ typing /\ typing' = FALSE
  /\ UNCHANGED <<view, shown, fetch, busy, pending, missed, hidden, ticks,
                 database, server, link, events>>

-----------------------------------------------------------------------------

\* The server has taken its first snapshot, the page is being loaded.
Init ==
  /\ rec = 0 /\ jnl = 1 /\ tail = 1 /\ unsaid = FALSE /\ rewound = FALSE
  /\ sub = [c \in Conns |-> Closed] /\ seenRec = 0 /\ seenSeq = Unknown /\ poll = "idle"
  /\ wire = {} /\ es = "opening" /\ live = FALSE /\ conn = (CHOOSE c \in Conns : TRUE)
  /\ view \in {"run", "list"} /\ shown = NoFetch
  /\ fetch = [NoFetch EXCEPT !.at = view]
  /\ busy = TRUE /\ pending = FALSE /\ missed = FALSE
  /\ hidden = FALSE /\ typing = FALSE /\ ticks = 0
  /\ events = 0

Next ==
  \/ (\E here \in BOOLEAN : Append(here)) \/ WriteRecord \/ Rewind \/ Reopen
  \/ Observe \/ PollRuns \/ PollJournals \/ PollFails \/ Accept \/ Refuse
  \/ \E c \in Conns : Send(c) \/ HangUp(c)
  \/ Answer \/ Draw \/ FetchFails
  \/ Receive \/ Timer \/ Interval \/ Drop
  \/ \E v \in {"run", "list"} : Navigate(v)
  \/ Hide \/ Type \/ Show \/ Leave

Spec == Init /\ [][Next]_vars

\* The event loops of server and page run, a reset that has begun ends, and
\* the user looks at the page again.
FairSpec ==
  /\ Spec
  /\ WF_vars(Observe) /\ WF_vars(PollRuns) /\ WF_vars(PollJournals)
  /\ WF_vars(Accept) /\ WF_vars(Refuse)
  /\ \A c \in Conns : WF_vars(Send(c)) /\ WF_vars(HangUp(c))
  /\ WF_vars(Answer) /\ WF_vars(Draw)
  /\ WF_vars(Receive) /\ WF_vars(Timer) /\ WF_vars(Interval)
  /\ WF_vars(Reopen) /\ WF_vars(Show) /\ WF_vars(Leave)

-----------------------------------------------------------------------------

\* What the page should show.
Current == [at |-> view, got |-> Content(view)]

\* ui.html: "A missed notification therefore costs latency, never
\* correctness": streams may be dropped, refused and full, a redraw may be
\* skipped while another one runs, while the user types or looks elsewhere, and
\* in the end the page shows what the database has.
CatchesUp == <>[](shown = Current)

Behind(c) == sub[c].told \notin {Closed.told, Visible(sub[c].run)}

\* The journal has never been shortened.
NeverRewound == jnl = tail

\* _poll_once: "a client is told about changes from here on", and _publish:
\* "the client is behind; its next read catches up".  A stream whose first
\* sight has been taken is sent a message after every change, whoever made it.
\* (A journal that a reset has shortened and that has grown back to the number
\* the poll remembers is not noticed: only the page's own interval helps.)
StreamIsTold ==
  \A c \in Conns : Behind(c) /\ NeverRewound ~> \/ ~Behind(c) /\ sub[c].queue = 0
                                                \/ ~NeverRewound

=============================================================================
