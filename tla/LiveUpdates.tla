---------------------------- MODULE LiveUpdates ----------------------------
(***************************************************************************)
(* How an open page learns that what it shows has changed.  Triggers of    *)
(* the writing connection collect what a transaction touched               *)
(* (src/store/live_updates.rs), the commit announces it on a channel       *)
(* (Store::transaction), a task per project socket batches the topics of   *)
(* its project (project_loop in src/api/docsync.rs), and the page marks    *)
(* what it loaded as stale and loads it again (web/src/hooks).             *)
(*                                                                         *)
(* A notification names topics and no contents, so a change is lost for    *)
(* good if nobody reads after it: what the properties are about.  A thing  *)
(* is the rows of one table that belong to one project, and its contents   *)
(* are how often they were changed.  Timers are armed or not; how long     *)
(* they take is left out, and with it batching and rate limits.  Of the    *)
(* table of rules the model has one table per way a rule works.            *)
(***************************************************************************)
EXTENDS Integers, Sequences

CONSTANTS
    Homes,       \* projects
    NoHome,      \* of a row before its INSERT and after its DELETE
    Everywhere,  \* the project '' of a change that concerns all of them
    Views,       \* the resources pages show: uses of useLiveRefresh
    Of,          \* view -> the project whose socket it hears
    Listens,     \* view -> its topics
    Reads,       \* view -> the things its load reads, as <<table, project>>
    Writes,      \* bound: the transactions tried, sets of [table, from, to]
    Capacity,    \* what the broadcast channel keeps for a slow receiver: 256
    MaxWrites,   \* bound: transactions that write
    MaxFaults,   \* bound: broken sockets, failed reads, crashes
    MaxWhims     \* bound: what people do to the page

All == ""       \* the topic of a full refresh

\* rule: whose sockets hear of a write, and which topics.
Rule ==
    [tickets           |-> [of |-> "all", topics |-> {"tickets"}],
     comments          |-> [of |-> "row", topics |-> {"tickets"}],
     questions         |-> [of |-> "row", topics |-> {"inbox"}],
     question_messages |-> [of |-> "row", topics |-> {"inbox"}],
     projects          |-> [of |-> "all", topics |-> {"projects"}],
     shares            |-> [of |-> "row", topics |-> {All}],
     crdt_sessions     |-> [of |-> "row", topics |-> {}]]

Tables == DOMAIN Rule
Topics == {"tickets", "inbox", "projects", All}
Things == Tables \X Homes

\* The tables whose rows go, or change project, with their parent's row.
Children(table) ==
    IF table = "tickets" THEN {"comments"}
    ELSE IF table = "questions" THEN {"question_messages"} ELSE {}

RowWrites == [table : Tables, from : Homes \cup {NoHome}, to : Homes \cup {NoHome}]
Owners(w) == {w.from, w.to} \ {NoHome}

\* What a write changes.
Touched(w) ==
    ({w.table} \cup IF w.from # w.to THEN Children(w.table) ELSE {}) \X Owners(w)

\* A page's topics follow from the tables its load reads.
ASSUME UpdatesAssumption ==
    /\ NoHome \notin Homes /\ Everywhere \notin Homes \cup {NoHome}
    /\ Of \in [Views -> Homes]
    /\ Listens \in [Views -> SUBSET (Topics \ {All})]
    /\ Reads \in [Views -> SUBSET Things]
    /\ \A v \in Views : \A x \in Reads[v] :
         /\ Rule[x[1]].of = "all" \/ x[2] = Of[v]
         /\ Rule[x[1]].topics \cap (Listens[v] \cup {All}) # {}
    /\ Writes \subseteq SUBSET RowWrites
    /\ Capacity \in Nat \ {0} /\ MaxWrites \in Nat
    /\ MaxFaults \in Nat /\ MaxWhims \in Nat

VARIABLES
    version,   \* thing -> how often it was changed and committed
    outbox,    \* what was committed and not yet announced; the lock is held
    socket,    \* project -> its socket, both ends
    view,      \* view -> the state of its hook
    written, faults, whims      \* bounds: how many there were

updVars == <<version, outbox, socket, view, written, faults, whims>>

-----------------------------------------------------------------------------
(* The writer.                                                             *)

\* install: what the triggers of one write put in live_changes.  The rows a
\* cascade deletes find no parent to ask whose they were, and put nothing there.
Journalled(w) ==
    LET rule == Rule[w.table]
    IN  ((IF rule.of = "all" THEN {Everywhere} ELSE Owners(w)) \X rule.topics)
          \cup IF w.table = "projects" THEN Owners(w) \X {All} ELSE {}

\* A transaction that writes ws: the closure, drain, commit.  One that fails, or
\* dies with the server, is no step, for live_changes is rolled back with it; and
\* nobody else gets the lock before it has announced what it did.
Commit(ws) ==
    /\ outbox = {} /\ written < MaxWrites
    /\ LET touched == UNION {Touched(w) : w \in ws}
       IN  version' = [x \in Things |-> IF x \in touched THEN version[x] + 1 ELSE version[x]]
    /\ outbox' = UNION {Journalled(w) : w \in ws}
    /\ written' = written + 1
    /\ UNCHANGED <<socket, view, faults, whims>>

\* broadcast::Sender::send: every receiver keeps the newest Capacity batches.
Kept(s, batch) ==
    IF s.task \in {"none", "accepted"} THEN s
    ELSE IF Len(s.queue) < Capacity THEN [s EXCEPT !.queue = Append(@, batch)]
    ELSE [s EXCEPT !.queue = Append(Tail(@), batch), !.lagged = TRUE]

Announce ==
    /\ outbox # {}
    /\ socket' = [p \in Homes |-> Kept(socket[p], outbox)]
    /\ outbox' = {}
    /\ UNCHANGED <<version, view, written, faults, whims>>

-----------------------------------------------------------------------------
(* The socket of a project.  `task' is where project_loop is; `open' and   *)
(* `ready' are the browser's end, which shares one socket among its views. *)

Closed == [task |-> "none", queue |-> <<>>, lagged |-> FALSE, topics |-> {},
           wire |-> <<>>, open |-> FALSE, ready |-> FALSE]

\* live_updates::topics.
TopicsFor(batch, p) == {c[2] : c \in {d \in batch : d[1] \in {p, Everywhere}}}

\* connect: a session and a socket; retried for ever.
Connect(p) ==
    /\ ~socket[p].open /\ \E v \in Views : Of[v] = p
    /\ socket' = [socket EXCEPT ![p] = [Closed EXCEPT !.open = TRUE, !.task = "accepted"]]
    /\ UNCHANGED <<version, outbox, view, written, faults, whims>>

\* Mutant: the page is greeted before the receiver exists.
Subscribe_Greeted(p) ==
    /\ socket[p].task = "accepted"
    /\ IF socket[p].wire = <<>> /\ ~socket[p].ready
       THEN socket' = [socket EXCEPT ![p].wire = <<{All}>>]
       ELSE socket' = [socket EXCEPT ![p].task = "listening"]
    /\ UNCHANGED <<version, outbox, view, written, faults, whims>>

Subscribe(p) ==
    /\ socket[p].task = "accepted"
    /\ socket' = [socket EXCEPT ![p].task = "subscribed"]
    /\ UNCHANGED <<version, outbox, view, written, faults, whims>>

\* The greeting asks for everything: what changed while nobody listened.
Greet(p) ==
    /\ socket[p].task = "subscribed"
    /\ socket' = [socket EXCEPT ![p].task = "listening", ![p].wire = Append(@, {All})]
    /\ UNCHANGED <<version, outbox, view, written, faults, whims>>

\* RecvError::Lagged.
Lost(s) == IF s.lagged THEN {All} ELSE {}

Receive(p) ==
    LET s == socket[p]
        first == IF s.lagged THEN {} ELSE TopicsFor(Head(s.queue), p)
        topics == Lost(s) \cup first
    IN  /\ s.task = "listening" /\ (s.lagged \/ s.queue # <<>>)
        /\ socket' = [socket EXCEPT
             ![p].lagged = FALSE, ![p].topics = topics,
             ![p].queue = IF s.lagged THEN @ ELSE Tail(@),
             ![p].task = IF topics = {} THEN @ ELSE "batching"]
        /\ UNCHANGED <<version, outbox, view, written, faults, whims>>

\* After 400 ms: what else has come, and one message for all of it.
Send(p) ==
    LET s == socket[p]
        topics == s.topics \cup Lost(s)
                    \cup UNION {TopicsFor(s.queue[i], p) : i \in DOMAIN s.queue}
    IN  /\ s.task = "batching"
        /\ socket' = [socket EXCEPT
             ![p].task = "listening", ![p].topics = {}, ![p].queue = <<>>,
             ![p].lagged = FALSE,
             ![p].wire = Append(@, IF All \in topics THEN {All} ELSE topics)]
        /\ UNCHANGED <<version, outbox, view, written, faults, whims>>

\* The server's end is gone, what is on the wire may still arrive.
Dead(s) == [s EXCEPT !.task = "none", !.queue = <<>>, !.lagged = FALSE, !.topics = {}]

\* The network, a session that ended, a peer that sent something else.
Break(p) ==
    /\ socket[p].task # "none" /\ faults < MaxFaults
    /\ socket' = [socket EXCEPT ![p] = Dead(@)]
    /\ faults' = faults + 1
    /\ UNCHANGED <<version, outbox, view, written, whims>>

\* onclose: what was on the wire is lost.
Notice(p) ==
    /\ socket[p].open /\ socket[p].task = "none"
    /\ socket' = [socket EXCEPT ![p] = Closed]
    /\ UNCHANGED <<version, outbox, view, written, faults, whims>>

-----------------------------------------------------------------------------
(* The page: useLiveRefresh.  One request at a time; `armed' is its timer. *)

\* Mutant: a failed read is not tried again.
Polls_Connected(h) == h.automatic /\ ~h.connected

\* Whether to read without being told to: the interval of schedule.
Polls(h) == h.automatic /\ (h.failed \/ ~h.connected)
Startable(h) == h.visible /\ ~h.paused /\ h.request = "none"

\* schedule: the timer is cleared and, if there is something to do, set.
Scheduled(h) == [h EXCEPT !.armed = Startable(h) /\ (h.dirty \/ Polls(h))]

\* mark.
Marked(h) == Scheduled([h EXCEPT !.dirty = TRUE])

\* Nothing of what h reads.
Nothing(h) == [x \in DOMAIN h.seen |-> 0]

\* The one request is over; what it brought is shown or thrown away.
Answered(h) == [h EXCEPT !.request = "none", !.got = Nothing(h)]

\* run, when its read returned.
Loaded(h) == Scheduled([Answered(h) EXCEPT !.seen = h.got, !.failed = FALSE])

\* The effect's variables, before its first run.
Unloaded(h) ==
    [Answered(h) EXCEPT !.seen = Nothing(h), !.dirty = TRUE, !.armed = FALSE, !.failed = FALSE]

\* run: dirty is taken back before the request goes out.
Started(h) == [h EXCEPT !.dirty = FALSE, !.armed = FALSE, !.request = "sent"]

\* The effect when the page opens, or shows something else from now on.
Mounted(h) == IF h.visible /\ ~h.paused THEN Started(Unloaded(h)) ELSE Unloaded(h)

\* affectsProjectTopic; a full refresh names no topics.
Affects(message, v) == All \in message \/ message \cap Listens[v] # {}

\* onmessage, for every view that shares the socket.
Hear(p) ==
    /\ socket[p].open /\ socket[p].wire # <<>>
    /\ socket' = [socket EXCEPT ![p].ready = TRUE, ![p].wire = Tail(@)]
    /\ view' = [v \in Views |->
         IF Of[v] = p /\ view[v].automatic /\ Affects(Head(socket[p].wire), v)
         THEN Marked(view[v]) ELSE view[v]]
    /\ UNCHANGED <<version, outbox, written, faults, whims>>

\* wake, after a render with another state of the connection.
Rerendered(h, ready) == Scheduled([h EXCEPT !.connected = ready])

Rerender(v) ==
    /\ view[v].connected # socket[Of[v]].ready
    /\ view' = [view EXCEPT ![v] = Rerendered(@, socket[Of[v]].ready)]
    /\ UNCHANGED <<version, outbox, socket, written, faults, whims>>

\* The timer's callback.  Whatever keeps run from starting has cleared it.
Fire(v) ==
    /\ view[v].armed
    /\ view' = [view EXCEPT ![v] = Started(@)]
    /\ UNCHANGED <<version, outbox, socket, written, faults, whims>>

\* The server reads one snapshot of what is committed.
Serve(v) ==
    /\ view[v].request = "sent"
    /\ view' = [view EXCEPT ![v].request = "served",
                            ![v].got = [x \in Reads[v] |-> version[x]]]
    /\ UNCHANGED <<version, outbox, socket, written, faults, whims>>

Load(v) ==
    /\ view[v].request = "served"
    /\ view' = [view EXCEPT ![v] = Loaded(@)]
    /\ UNCHANGED <<version, outbox, socket, written, faults, whims>>

Unanswered(h) == [h EXCEPT !.request = "lost", !.got = Nothing(h)]

LoseRequest(v) ==
    /\ view[v].request \in {"sent", "served"} /\ faults < MaxFaults
    /\ view' = [view EXCEPT ![v] = Unanswered(@)]
    /\ faults' = faults + 1
    /\ UNCHANGED <<version, outbox, socket, written, whims>>

FailRequest(v) ==
    /\ view[v].request = "lost"
    /\ view' = [view EXCEPT ![v] = Scheduled([Answered(@) EXCEPT !.failed = TRUE])]
    /\ UNCHANGED <<version, outbox, socket, written, faults, whims>>

\* The server dies between any two of its steps and comes back.
CrashServer ==
    /\ faults < MaxFaults
    /\ outbox' = {}
    /\ socket' = [p \in Homes |-> Dead(socket[p])]
    /\ view' = [v \in Views |-> IF view[v].request = "none" THEN view[v]
                                ELSE Unanswered(view[v])]
    /\ faults' = faults + 1
    /\ UNCHANGED <<version, written, whims>>

Whim(v, h) ==
    /\ whims < MaxWhims /\ whims' = whims + 1
    /\ view' = [view EXCEPT ![v] = h]
    /\ UNCHANGED <<version, outbox, socket, written, faults>>

\* The tab is hidden or shown.
Show(v) ==
    LET page == [view[v] EXCEPT !.visible = ~@]
    IN  Whim(v, IF ~page.visible THEN [page EXCEPT !.armed = FALSE]
                ELSE IF page.automatic THEN Marked(page) ELSE Scheduled(page))

\* wake, when an undo window opens or closes; a read under way is aborted.
Pause(v) ==
    LET page == [view[v] EXCEPT !.paused = ~@]
    IN  Whim(v, IF page.paused /\ page.request # "none"
                THEN Scheduled([Answered(page) EXCEPT !.dirty = TRUE])
                ELSE Scheduled(page))

\* wake, when automatic refreshing is switched off or on.
SetAutomatic(v) ==
    LET page == [view[v] EXCEPT !.automatic = ~@]
    IN  Whim(v, Scheduled([page EXCEPT !.dirty = @ \/ page.automatic]))

Mount(v) == Whim(v, Mounted(view[v]))

\* The window gets the focus, or the button is pressed.
Refresh(v) == view[v].visible /\ Whim(v, Marked(view[v]))

-----------------------------------------------------------------------------
Fallow(v) == [seen |-> [x \in Reads[v] |-> 0], got |-> [x \in Reads[v] |-> 0],
              dirty |-> TRUE, request |-> "none", armed |-> FALSE, failed |-> FALSE,
              connected |-> FALSE, visible |-> TRUE, paused |-> FALSE, automatic |-> TRUE]

UpdatesInit ==
    /\ version = [x \in Things |-> 0]
    /\ outbox = {}
    /\ socket = [p \in Homes |-> Closed]
    /\ view = [v \in Views |-> Mounted(Fallow(v))]
    /\ written = 0 /\ faults = 0 /\ whims = 0

ServerStep(p) == Subscribe(p) \/ Greet(p) \/ Receive(p) \/ Send(p)
BrowserStep(p) == Connect(p) \/ Notice(p) \/ Hear(p)
PageStep(v) == Rerender(v) \/ Fire(v) \/ Serve(v) \/ Load(v) \/ FailRequest(v)

UpdatesNext ==
    \/ \E ws \in Writes : Commit(ws)
    \/ Announce \/ CrashServer
    \/ \E p \in Homes : ServerStep(p) \/ BrowserStep(p) \/ Break(p)
    \/ \E v \in Views : \/ PageStep(v) \/ LoseRequest(v) \/ Refresh(v)
                        \/ Show(v) \/ Pause(v) \/ SetAutomatic(v) \/ Mount(v)

\* The server's tasks go on, a browser reconnects and takes what arrives, a page
\* renders, its timers fire and its requests end one way or the other.  Nobody
\* has to write, look or press anything.
UpdatesFairness ==
    /\ WF_updVars(Announce)
    /\ \A p \in {Of[v] : v \in Views} : WF_updVars(ServerStep(p)) /\ WF_updVars(BrowserStep(p))
    /\ \A v \in Views : WF_updVars(PageStep(v))

UpdatesSpec == UpdatesInit /\ [][UpdatesNext]_updVars /\ UpdatesFairness

-----------------------------------------------------------------------------
Hooks(v) == [seen : [Reads[v] -> Nat], got : [Reads[v] -> Nat], dirty : BOOLEAN,
             request : {"none", "sent", "served", "lost"}, armed : BOOLEAN,
             failed : BOOLEAN, connected : BOOLEAN, visible : BOOLEAN,
             paused : BOOLEAN, automatic : BOOLEAN]

Batches == SUBSET ((Homes \cup {Everywhere}) \X Topics)

SocketStates ==
    [task : {"none", "accepted", "subscribed", "listening", "batching"},
     queue : Seq(Batches), lagged : BOOLEAN, topics : SUBSET Topics,
     wire : Seq(SUBSET Topics), open : BOOLEAN, ready : BOOLEAN]

UpdatesTypeOK ==
    /\ version \in [Things -> Nat]
    /\ outbox \in Batches
    /\ socket \in [Homes -> SocketStates]
    /\ DOMAIN view = Views /\ \A v \in Views : view[v] \in Hooks(v)
    /\ written \in Nat /\ faults \in Nat /\ whims \in Nat

Watching(v) == view[v].visible /\ view[v].automatic /\ ~view[v].paused

\* Nothing on its way to v's page, and nothing it means to do.
Quiet(v) ==
    LET s == socket[Of[v]]
    IN  /\ outbox = {}
        /\ s.ready /\ s.task = "listening" /\ s.queue = <<>> /\ ~s.lagged /\ s.wire = <<>>
        /\ ~view[v].dirty /\ view[v].request = "none" /\ ~view[v].failed

UpToDate(v) == \A x \in Reads[v] : view[v].seen[x] = version[x]

\* A page that rests shows what is committed: no notification, greeting, lag,
\* reconnection, failed or overlapping read loses a change for good.
QuietIsCurrent == \A v \in Views : Watching(v) /\ Quiet(v) => UpToDate(v)

\* What is committed reaches a page that is looked at, whatever broke on the
\* way, once people stop writing and things stop breaking.
PagesCatchUp == \A v \in Views : ~UpToDate(v) ~> (UpToDate(v) \/ ~Watching(v))
=============================================================================
