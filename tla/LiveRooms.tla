----------------------------- MODULE LiveRooms -----------------------------
(***************************************************************************)
(* The live rooms of one collaborative object: src/api/docsync.rs over the *)
(* update log of src/store/crdt.rs.  A room is a replica shared by sockets *)
(* and API calls; edits reach the log by a debounced flush, a long log is  *)
(* compacted, archiving freezes the room, and the room goes when its last  *)
(* peer has left.                                                          *)
(*                                                                         *)
(* A CRDT update is the set of edits it carries, a replica the set of the  *)
(* edits applied to it, and merging is union: what the yrs library         *)
(* promises.  Deleting is an edit too, so a reset adds one.  The store's   *)
(* calls are atomic; what the tasks do between them interleaves.           *)
(***************************************************************************)
EXTENDS Integers, FiniteSets, FiniteSetsExt

CONSTANTS
    Sockets,       \* peers that hold a websocket
    Callers,       \* API and agent calls, peers for one operation
    Editors,       \* the sockets whose session may write
    Edits,
    Author,        \* edit -> who may make it: sockets, callers, Cli
    Cli,           \* edit_mindmap_document: another process, no room
    RoomIds,       \* bound: how many rooms of the object exist at once
    NoRoom,
    NoEdit,
    Flusher,       \* the task every room runs
    CompactAfter,  \* COMPACT_AFTER_UPDATES
    MaxUpdate,     \* MAX_UPDATE_BYTES, in edits
    MaxHeld,       \* MAX_PENDING_BYTES, in edits
    MaxObject,     \* MAX_OBJECT_BYTES, in units of Size
    JoinAttempts,  \* how often a join decides whether the room is frozen
    ResetAttempts, \* RESET_ATTEMPTS
    MaxEvents,     \* bound: joins, freezes, ended sessions, offline edits together
    MaxSeq         \* bound: no row is appended past this seq

Peers == Sockets \cup Callers

ASSUME RoomAssumption ==
    /\ Sockets \cap Callers = {} /\ Flusher \notin Peers
    /\ Editors \subseteq Sockets
    /\ Author \in [Edits -> SUBSET (Peers \cup {Cli})] /\ Cli \notin Peers
    /\ NoRoom \notin RoomIds /\ NoEdit \notin Edits
    /\ CompactAfter \in Nat /\ MaxUpdate \in Nat /\ MaxHeld \in Nat
    /\ MaxObject \in Nat /\ JoinAttempts \in Nat /\ ResetAttempts \in Nat
    /\ MaxEvents \in Nat /\ MaxSeq \in Nat

VARIABLES
    log,       \* crdt_updates: the rows, each a seq and the edits in its blob
    lastSeq,   \* the AUTOINCREMENT counter of seq
    archived,  \* ensure_collab_writable refuses
    events,    \* how many of those have happened
    owed,      \* commits whose resync_frozen has not started
    resync,    \* the resync_frozen in progress
    map,       \* Rooms.map: the room of the object, or NoRoom
    room,      \* room -> its shared fields
    work,      \* room -> what the holder of `flushing' is doing
    flusher,   \* room -> where its flusher is
    peer,      \* peer -> where its connection is
    live,      \* peer -> collab_session_is_live
    frame,     \* edit -> what became of it on its author's connection
    strained   \* history: two rooms of the object have existed at once, or a
               \* write fell between the two reads of a join

dbVars == <<log, lastSeq>>
freezeVars == <<archived, owed, resync>>
vars == <<dbVars, freezeVars, events, map, room, work, flusher, peer, live, frame, strained>>

-----------------------------------------------------------------------------
\* The log.

Content(rows) == UNION {r.edits : r \in rows}
Size(edits) == Cardinality(edits) + 1        \* an update carries framing too
Held == MapThenSumSet(LAMBDA r : Size(r.edits), log)
\* Mutant of After: the row right above the baseline is skipped.
After_Skips(seq) == {r \in log : r.seq > seq + 1}

After(seq) == {r \in log : r.seq > seq}
TopSeq(rows, floor) == Max({r.seq : r \in rows} \cup {floor})
Row(seq, edits) == [seq |-> seq, edits |-> edits]

Full(edits) == Held + Size(edits) > MaxObject
Fits(edits) == ~Full(edits) /\ Cardinality(edits) <= MaxUpdate

\* The row a write adds; AUTOINCREMENT never uses a seq twice.
NextSeq ==
    /\ lastSeq < MaxSeq
    /\ lastSeq' = lastSeq + 1
    /\ strained' = (strained \/ \E p \in Peers : peer[p].pc = "loading")

\* append_collab_update, when it is not refused.
LogAppend(edits) ==
    /\ NextSeq
    /\ log' = log \cup {Row(lastSeq + 1, edits)}

\* The rewrite a compaction and a reset end in.
Replace(edits) ==
    /\ NextSeq
    /\ log' = {Row(lastSeq + 1, edits)}

-----------------------------------------------------------------------------
\* Rooms, and who is in them.

Fresh(rows, seen, frozen) ==
    [replica |-> Content(rows), pending |-> {}, base |-> seen, own |-> 0,
     frozen |-> frozen, escapeRefused |-> FALSE, overloaded |-> FALSE]
Blank == Fresh({}, 0, FALSE)
Idle == [pc |-> "idle", by |-> Flusher, batch |-> {}, snap |-> {},
         state |-> {}, seen |-> 0, tries |-> 0]
Out == [pc |-> "out", room |-> NoRoom, rows |-> {}, seen |-> 0,
        frozen |-> FALSE, moved |-> FALSE, tries |-> 0, hand |-> NoEdit]
Resting == [pc |-> "free", frozen |-> FALSE, moved |-> FALSE]
NoResync == [pc |-> "idle", room |-> NoRoom, frozen |-> FALSE]

Counted == events < MaxEvents /\ events' = events + 1

Own(p) == {e \in Edits : p \in Author[e]}
PeersOf(r) == {p \in Peers : peer[p].room = r}
MayWrite(p) == p \in Callers \/ p \in Editors

Init ==
    /\ log = {} /\ lastSeq = 0
    /\ events = 0
    /\ archived = FALSE /\ owed = 0 /\ resync = NoResync
    /\ map = NoRoom
    /\ room = [r \in RoomIds |-> Blank]
    /\ work = [r \in RoomIds |-> Idle]
    /\ flusher = [r \in RoomIds |-> Resting]
    /\ peer = [p \in Peers |-> Out]
    /\ live = [p \in Sockets |-> TRUE]
    /\ frame = [e \in Edits |-> "none"]
    /\ strained = FALSE

-----------------------------------------------------------------------------
\* Joining.

\* The handshake resolves the ticket, and every route that writes asks first
\* whether the object may be written.
Admitted(p) == IF p \in Sockets THEN live[p] ELSE ~archived

\* Somebody is in the room already.
JoinOpen(p) ==
    /\ peer[p].pc = "out" /\ Admitted(p) /\ map # NoRoom /\ Counted
    /\ peer' = [peer EXCEPT ![p] = [Out EXCEPT !.pc = "in", !.room = map]]
    /\ UNCHANGED <<dbVars, freezeVars, map, room, work, flusher, live, frame, strained>>

\* Nobody is: load_collab_updates ...
Load(p) ==
    /\ peer[p].pc = "out" /\ Admitted(p) /\ map = NoRoom /\ Counted
    /\ peer' = [peer EXCEPT ![p] =
                  [Out EXCEPT !.pc = "loading", !.rows = log]]
    /\ UNCHANGED <<dbVars, freezeVars, map, room, work, flusher, live, frame, strained>>

\* ... and max_collab_seq, a read of its own.
ReadTop(p) ==
    /\ peer[p].pc = "loading"
    /\ peer' = [peer EXCEPT ![p].pc = "loaded", ![p].seen = TopSeq(log, 0)]
    /\ UNCHANGED <<dbVars, freezeVars, events, map, room, work, flusher, live, frame, strained>>

\* Notes the epoch and asks the store whether the object may be written.
AskFrozen(p) ==
    /\ peer[p].pc = "loaded"
    /\ peer' = [peer EXCEPT ![p].pc = "asked", ![p].frozen = archived,
                            ![p].moved = FALSE]
    /\ UNCHANGED <<dbVars, freezeVars, events, map, room, work, flusher, live, frame, strained>>

\* The epoch moved while the join was asking.
JoinAgain(p) ==
    /\ peer[p].pc = "asked" /\ peer[p].moved
    /\ peer' = [peer EXCEPT ![p] =
                  IF peer[p].tries + 1 = JoinAttempts THEN Out
                  ELSE [peer[p] EXCEPT !.pc = "loaded", !.tries = peer[p].tries + 1]]
    /\ UNCHANGED <<dbVars, freezeVars, events, map, room, work, flusher, live, frame, strained>>

\* Under the map's lock: the loser of a race joins the winner's room.
JoinWinner(p) ==
    /\ peer[p].pc = "asked" /\ ~peer[p].moved /\ map # NoRoom
    /\ peer' = [peer EXCEPT ![p] = [Out EXCEPT !.pc = "in", !.room = map]]
    /\ UNCHANGED <<dbVars, freezeVars, events, map, room, work, flusher, live, frame, strained>>

\* Mutant of Install: the winner of the race is not looked for.
Install_Clobbers(p) ==
    LET r == CHOOSE q \in RoomIds : flusher[q].pc = "free" IN
    /\ peer[p].pc = "asked" /\ ~peer[p].moved
    /\ \E q \in RoomIds : flusher[q].pc = "free"
    /\ map' = r
    /\ strained' = (strained \/ \E q \in RoomIds : flusher[q].pc # "free")
    /\ room' = [room EXCEPT ![r] = Fresh(peer[p].rows, peer[p].seen, peer[p].frozen)]
    /\ flusher' = [flusher EXCEPT ![r].pc = "tick"]
    /\ peer' = [peer EXCEPT ![p] = [Out EXCEPT !.pc = "in", !.room = r]]
    /\ UNCHANGED <<dbVars, freezeVars, events, work, live, frame>>

\* A new room; which of the ids it gets says nothing.
Install(p) ==
    LET r == CHOOSE q \in RoomIds : flusher[q].pc = "free" IN
    /\ peer[p].pc = "asked" /\ ~peer[p].moved /\ map = NoRoom
    /\ \E q \in RoomIds : flusher[q].pc = "free"
    /\ map' = r
    /\ strained' = (strained \/ \E q \in RoomIds : flusher[q].pc # "free")
    /\ room' = [room EXCEPT ![r] = Fresh(peer[p].rows, peer[p].seen, peer[p].frozen)]
    /\ flusher' = [flusher EXCEPT ![r].pc = "tick"]
    /\ peer' = [peer EXCEPT ![p] = [Out EXCEPT !.pc = "in", !.room = r]]
    /\ UNCHANGED <<dbVars, freezeVars, events, work, live, frame>>

-----------------------------------------------------------------------------
\* Freezing.

\* An archive or a restore commits; its handler owes a resync_frozen.
Freeze ==
    /\ Counted
    /\ archived' = ~archived /\ owed' = owed + 1
    /\ UNCHANGED <<dbVars, resync, map, room, work, flusher, peer, live, frame, strained>>

\* Bumps the epoch and takes the room to publish to, in one hold of the lock.
ResyncStart ==
    /\ resync.pc = "idle" /\ owed > 0
    /\ owed' = owed - 1
    /\ resync' = [NoResync EXCEPT !.pc = "taken", !.room = map]
    /\ peer' = [p \in Peers |-> [peer[p] EXCEPT !.moved = @ \/ peer[p].pc = "asked"]]
    /\ flusher' = [r \in RoomIds |->
                     [flusher[r] EXCEPT !.moved = @ \/ flusher[r].pc = "asked"]]
    /\ UNCHANGED <<dbVars, events, archived, map, room, work, live, frame, strained>>

ResyncRead ==
    /\ resync.pc = "taken"
    /\ resync' = [resync EXCEPT !.pc = "read", !.frozen = archived]
    /\ UNCHANGED <<dbVars, events, archived, owed, map, room, work, flusher,
                   peer, live, frame, strained>>

ResyncPublish ==
    /\ resync.pc = "read"
    /\ room' = [r \in RoomIds |-> IF r = resync.room
                                  THEN [room[r] EXCEPT !.frozen = resync.frozen]
                                  ELSE room[r]]
    /\ resync' = NoResync
    /\ UNCHANGED <<dbVars, events, archived, owed, map, work, flusher, peer,
                   live, frame, strained>>

-----------------------------------------------------------------------------
\* Editing.

\* handle_frame drops an update silently when the session may not write or the
\* room is frozen or overloaded.
Dropped(p, r) == ~MayWrite(p) \/ room[r].frozen \/ room[r].overloaded

\* A client sends an update once on a connection; a reconnect offers it again.
Sends(p, e) ==
    /\ p \in Sockets /\ peer[p].pc \in {"in", "acked"} /\ peer[p].hand = NoEdit
    /\ e \in Own(p) /\ frame[e] = "none"

SendDropped(p, e) ==
    /\ Sends(p, e) /\ Dropped(p, peer[p].room)
    /\ frame' = [frame EXCEPT ![e] = "dropped"]
    /\ peer' = [peer EXCEPT ![p].pc = "in"]
    /\ UNCHANGED <<dbVars, freezeVars, events, map, room, work, flusher, live, strained>>

\* Applied to the replica; queued by Push, unless the replica had it.
Send(p, e) ==
    LET r == peer[p].room IN
    /\ Sends(p, e) /\ ~Dropped(p, r)
    /\ frame' = [frame EXCEPT ![e] = "taken"]
    /\ room' = [room EXCEPT ![r].replica = @ \cup {e}]
    /\ peer' = [peer EXCEPT ![p].pc = "in",
                            ![p].hand = IF e \in room[r].replica THEN @ ELSE e]
    /\ UNCHANGED <<dbVars, freezeVars, events, map, work, flusher, live, strained>>

\* Room::mutate: an API call writes without looking at the room's flags.
Mutate(p, e) ==
    LET r == peer[p].room IN
    /\ p \in Callers /\ peer[p].pc = "in" /\ peer[p].hand = NoEdit
    /\ e \in Own(p) \ room[r].replica
    /\ room' = [room EXCEPT ![r].replica = @ \cup {e}]
    /\ peer' = [peer EXCEPT ![p].hand = e]
    /\ UNCHANGED <<dbVars, freezeVars, events, map, work, flusher, live, frame, strained>>

\* The second half of both: the update joins the queue of the next flush.  Most
\* API calls go on to persist what they did; some leave that to the flusher.
Push(p) ==
    /\ peer[p].pc = "in" /\ peer[p].hand # NoEdit
    /\ room' = [room EXCEPT ![peer[p].room].pending = @ \cup {peer[p].hand}]
    /\ \E then \in IF p \in Callers THEN {"persist", "parted"} ELSE {"in"} :
        peer' = [peer EXCEPT ![p].hand = NoEdit, ![p].pc = then]
    /\ UNCHANGED <<dbVars, freezeVars, events, map, work, flusher, live, frame, strained>>

\* edit_mindmap_document: the command line appends a whole state of its own.
EditOffline(e) ==
    LET state == Content(log) \cup {e} IN
    /\ e \in Own(Cli) /\ e \notin Content(log) /\ Counted
    /\ ~archived /\ Fits(state) /\ LogAppend(state)
    /\ UNCHANGED <<freezeVars, map, room, work, flusher, peer, live, frame>>

-----------------------------------------------------------------------------
\* The flush, under the room's `flushing' lock.

\* A barrier flushes for anybody, the end of a connection for a writer.
Waits(r, q) ==
    IF q = Flusher THEN flusher[r].pc \in {"flush", "last"}
    ELSE peer[q].room = r /\ peer[q].pc \in {"barrier", "persist", "parting"}

\* flush returns to whoever called it.
Return(r, q) ==
    IF q = Flusher
    THEN /\ flusher' = [flusher EXCEPT ![r].pc = IF @ = "flush" THEN "check" ELSE "done"]
         /\ UNCHANGED peer
    ELSE /\ peer' = [peer EXCEPT ![q].pc = IF @ = "barrier" THEN "check" ELSE "parted"]
         /\ UNCHANGED flusher

Release(r) == work' = [work EXCEPT ![r] = Idle] /\ Return(r, work[r].by)

FlushEmpty(r, q) ==
    /\ Waits(r, q) /\ work[r].pc = "idle" /\ room[r].pending = {}
    /\ Return(r, q)
    /\ UNCHANGED <<dbVars, freezeVars, events, map, room, work, live, frame, strained>>

FlushTake(r, q) ==
    /\ Waits(r, q) /\ work[r].pc = "idle" /\ room[r].pending # {}
    /\ work' = [work EXCEPT ![r] = [Idle EXCEPT !.pc = "taken", !.by = q,
                                               !.batch = room[r].pending]]
    /\ room' = [room EXCEPT ![r].pending = {}]
    /\ UNCHANGED <<dbVars, freezeVars, events, map, flusher, peer, live, frame, strained>>

\* Mutant of Requeued: the batch is lost with the failed flush.
Requeued_Lost(rm, batch) ==
    [rm EXCEPT !.overloaded = @ \/ Cardinality(rm.pending \cup batch) > MaxHeld]

\* requeue_all: back on the queue, and past the cap the room takes no more.
Requeued(rm, batch) ==
    [rm EXCEPT !.pending = @ \cup batch,
               !.overloaded = @ \/ Cardinality(rm.pending \cup batch) > MaxHeld]

\* What one append of the flush writes: the merged batch, or, when that is too
\* big for a row, one update of it after the other.
Merged(r) == work[r].pc = "taken" /\ Cardinality(work[r].batch) <= MaxUpdate
Parts(r) == IF Merged(r) THEN {work[r].batch} ELSE {{e} : e \in work[r].batch}

\* The store took it.
FlushAppend(r) ==
    /\ work[r].pc \in {"taken", "rowwise"} /\ ~archived
    /\ \E part \in Parts(r) :
        LET rest == work[r].batch \ part IN
        /\ ~Full(part) /\ LogAppend(part)
        /\ room' = [room EXCEPT ![r].own = @ + 1, ![r].escapeRefused = FALSE,
                               ![r].overloaded = @ /\ rest # {}]
        /\ IF rest # {}
           THEN work' = [work EXCEPT ![r].pc = "rowwise", ![r].batch = rest]
                /\ UNCHANGED <<flusher, peer>>
           ELSE IF Merged(r) /\ Cardinality(log) + 1 >= CompactAfter
           THEN work' = [work EXCEPT ![r].pc = "snapshot", ![r].batch = {}]
                /\ UNCHANGED <<flusher, peer>>
           ELSE Release(r)
    /\ UNCHANGED <<freezeVars, events, map, live, frame>>

\* It did not: the batch goes back, and a log at its size cap is compacted, the
\* one refusal a compaction can cure.
FlushRefused(r) ==
    LET wedged == ~archived /\ \E part \in Parts(r) : Full(part) IN
    /\ work[r].pc \in {"taken", "rowwise"} /\ (archived \/ wedged)
    /\ room' = [room EXCEPT ![r] = Requeued(@, work[r].batch)]
    /\ IF wedged /\ ~room[r].escapeRefused
       THEN work' = [work EXCEPT ![r].pc = "snapshot", ![r].batch = {}]
            /\ UNCHANGED <<flusher, peer>>
       ELSE Release(r)
    /\ UNCHANGED <<dbVars, freezeVars, events, map, live, frame, strained>>

-----------------------------------------------------------------------------
\* Compaction.

\* full_state, base_seq and own_appends, before the store is called.
CompactSnapshot(r) ==
    /\ work[r].pc = "snapshot"
    /\ work' = [work EXCEPT ![r].pc = "compact", ![r].snap = room[r].replica]
    /\ UNCHANGED <<dbVars, freezeVars, events, map, room, flusher, peer, live, frame, strained>>

\* The two size refusals of compact_collab.
NoGain(edits) == Size(edits) > MaxObject \/ (~archived /\ Size(edits) >= Held)

\* Every row above base_seq was appended by this room.
AllMine(r) == Cardinality(After(room[r].base)) = room[r].own

CompactCommit(r) ==
    /\ work[r].pc = "compact"
    /\ ~archived /\ ~NoGain(work[r].snap) /\ AllMine(r)
    /\ Replace(work[r].snap)
    /\ room' = [room EXCEPT ![r].own = 1]
    /\ Release(r)
    /\ UNCHANGED <<freezeVars, events, map, live, frame>>

\* Refused: read what the log has above the baseline and move the baseline.
CompactRefused(r) ==
    LET unseen == After(room[r].base)
        sized == NoGain(work[r].snap)
    IN
    /\ work[r].pc = "compact"
    /\ archived \/ sized \/ ~AllMine(r)
    /\ room' = [room EXCEPT ![r].replica = @ \cup Content(unseen),
                           ![r].base = TopSeq(unseen, @), ![r].own = 0,
                           ![r].escapeRefused = @ \/ sized]
    /\ Release(r)
    /\ UNCHANGED <<dbVars, freezeVars, events, map, live, frame, strained>>

-----------------------------------------------------------------------------
\* Resetting, and changes that are durable before they are visible.

\* reset_content: the queue is taken before the replica is read.
ResetTake(p, e) ==
    LET r == peer[p].room IN
    /\ p \in Callers /\ peer[p].pc = "in" /\ peer[p].hand = NoEdit
    /\ e \in Own(p) \ room[r].replica /\ work[r].pc = "idle"
    /\ work' = [work EXCEPT ![r] = [Idle EXCEPT !.pc = "reset", !.by = p,
                                               !.batch = room[r].pending]]
    /\ room' = [room EXCEPT ![r].pending = {}]
    /\ peer' = [peer EXCEPT ![p].pc = "reset", ![p].hand = e]
    /\ UNCHANGED <<dbVars, freezeVars, events, map, flusher, live, frame, strained>>

ResetSnapshot(r) ==
    /\ work[r].pc = "reset"
    /\ work' = [work EXCEPT ![r].pc = "read", ![r].snap = room[r].replica]
    /\ UNCHANGED <<dbVars, freezeVars, events, map, room, flusher, peer, live, frame, strained>>

\* One snapshot of the log: the rows the replica has not seen, and the top.
ResetRead(r) ==
    /\ work[r].pc = "read"
    /\ work' = [work EXCEPT ![r].pc = "commit",
                   ![r].seen = TopSeq(log, 0),
                   ![r].state = work[r].snap \cup Content(After(room[r].base))
                                \cup {peer[work[r].by].hand}]
    /\ UNCHANGED <<dbVars, freezeVars, events, map, room, flusher, peer, live, frame, strained>>

EndReset(r) ==
    /\ work' = [work EXCEPT ![r] = Idle]
    /\ peer' = [peer EXCEPT ![work[r].by].pc = "parted", ![work[r].by].hand = NoEdit]

ResetTooBig(r) == Size(work[r].state) > MaxObject
ResetStale(r) == TopSeq(log, 0) # work[r].seen

ResetCommit(r) ==
    /\ work[r].pc = "commit"
    /\ ~archived /\ ~ResetTooBig(r) /\ ~ResetStale(r)
    /\ Replace(work[r].state)
    /\ room' = [room EXCEPT ![r].replica = @ \cup work[r].state,
                           ![r].base = lastSeq + 1, ![r].own = 0,
                           ![r].escapeRefused = FALSE, ![r].overloaded = FALSE]
    /\ EndReset(r)
    /\ UNCHANGED <<freezeVars, events, map, flusher, live, frame>>

MayRetry(r) == ~archived /\ ~ResetTooBig(r) /\ work[r].tries + 1 < ResetAttempts

ResetRetry(r) ==
    /\ work[r].pc = "commit" /\ ResetStale(r) /\ MayRetry(r)
    /\ work' = [work EXCEPT ![r].pc = "read", ![r].tries = @ + 1]
    /\ UNCHANGED <<dbVars, freezeVars, events, map, room, flusher, peer, live, frame, strained>>

ResetRefused(r) ==
    /\ work[r].pc = "commit"
    /\ archived \/ ResetTooBig(r) \/ (ResetStale(r) /\ ~MayRetry(r))
    /\ room' = [room EXCEPT ![r] = Requeued(@, work[r].batch)]
    /\ EndReset(r)
    /\ UNCHANGED <<dbVars, freezeVars, events, map, flusher, live, frame, strained>>

\* mutate_durable holds both locks: the replica changes when the log has.
MutateDurable(p, e) ==
    LET r == peer[p].room
        state == room[r].replica \cup {e}
    IN
    /\ p \in Callers /\ peer[p].pc = "in" /\ peer[p].hand = NoEdit
    /\ e \in Own(p) \ room[r].replica /\ work[r].pc = "idle"
    /\ ~archived /\ Fits(state)
    /\ LogAppend(state)
    /\ room' = [room EXCEPT ![r].replica = state, ![r].own = @ + 1]
    /\ peer' = [peer EXCEPT ![p].pc = "parted"]
    /\ UNCHANGED <<freezeVars, events, map, work, flusher, live, frame>>

-----------------------------------------------------------------------------
\* Saving, leaving, and the flusher's round.

\* A connection that could write flushes once more on its way out.
Parting(p) == IF p \in Editors THEN "parting" ELSE "parted"

\* The durability barrier: is the session live, then a flush, ...
AskSaved(p) ==
    /\ p \in Sockets /\ peer[p].pc \in {"in", "acked"} /\ peer[p].hand = NoEdit
    /\ peer' = [peer EXCEPT ![p].pc = IF live[p] THEN "barrier" ELSE Parting(p)]
    /\ UNCHANGED <<dbVars, freezeVars, events, map, room, work, flusher, live, frame, strained>>

\* Mutant of Saved: what is still queued does not count.
Saved_QueueUnseen(r) == ~room[r].frozen /\ ~room[r].overloaded

\* ... then the verdict, under the lock.
Saved(r) == ~room[r].frozen /\ ~room[r].overloaded /\ room[r].pending = {}

Reply(p) ==
    /\ peer[p].pc = "check" /\ work[peer[p].room].pc = "idle"
    /\ peer' = [peer EXCEPT ![p].pc = IF Saved(peer[p].room) THEN "acked" ELSE "in"]
    /\ UNCHANGED <<dbVars, freezeVars, events, map, room, work, flusher, live, frame, strained>>

\* The token the session was minted from is revoked, or the session expires.
EndSession(p) ==
    /\ p \in Sockets /\ live[p] /\ Counted
    /\ live' = [live EXCEPT ![p] = FALSE]
    /\ UNCHANGED <<dbVars, freezeVars, map, room, work, flusher, peer, frame, strained>>

\* The socket asks on a timer, and a definite no closes it.
Recheck(p) ==
    /\ p \in Sockets /\ peer[p].pc \in {"in", "acked"} /\ peer[p].hand = NoEdit
    /\ ~live[p]
    /\ peer' = [peer EXCEPT ![p].pc = Parting(p)]
    /\ UNCHANGED <<dbVars, freezeVars, events, map, room, work, flusher, live, frame, strained>>

\* The client goes away, or a call returns early and drops its guard.
Hangup(p) ==
    /\ peer[p].pc \in {"in", "acked"} /\ peer[p].hand = NoEdit
    /\ peer' = [peer EXCEPT ![p].pc = Parting(p)]
    /\ UNCHANGED <<dbVars, freezeVars, events, map, room, work, flusher, live, frame, strained>>

Leave(p) ==
    /\ peer[p].pc = "parted"
    /\ peer' = [peer EXCEPT ![p] = Out]
    /\ frame' = [e \in Edits |-> IF e \in Own(p) THEN "none" ELSE frame[e]]
    /\ UNCHANGED <<dbVars, freezeVars, events, map, room, work, flusher, live, strained>>

\* A tick: every thirtieth re-arms the escape; all of them ask again whether
\* the object may be written.
FlusherTick(r) ==
    /\ flusher[r].pc = "tick"
    /\ flusher' = [flusher EXCEPT ![r] = [pc |-> "asked", frozen |-> archived,
                                         moved |-> FALSE]]
    /\ \/ room' = [room EXCEPT ![r].escapeRefused = FALSE]
       \/ UNCHANGED room
    /\ UNCHANGED <<dbVars, freezeVars, events, map, work, peer, live, frame, strained>>

\* Mutant of FlusherPublish: the epoch is not compared.
FlusherPublish_Stale(r) ==
    /\ flusher[r].pc = "asked"
    /\ room' = [room EXCEPT ![r].frozen = flusher[r].frozen]
    /\ flusher' = [flusher EXCEPT ![r] = [Resting EXCEPT !.pc = "flush"]]
    /\ UNCHANGED <<dbVars, freezeVars, events, map, work, peer, live, frame, strained>>

\* Under the map's lock, and only if no resync ran since the question.
FlusherPublish(r) ==
    /\ flusher[r].pc = "asked"
    /\ room' = [room EXCEPT ![r].frozen = IF flusher[r].moved THEN @ ELSE flusher[r].frozen]
    /\ flusher' = [flusher EXCEPT ![r] = [Resting EXCEPT !.pc = "flush"]]
    /\ UNCHANGED <<dbVars, freezeVars, events, map, work, peer, live, frame, strained>>

FlusherStays(r) ==
    /\ flusher[r].pc = "check" /\ PeersOf(r) # {}
    /\ flusher' = [flusher EXCEPT ![r].pc = "tick"]
    /\ UNCHANGED <<dbVars, freezeVars, events, map, room, work, peer, live, frame, strained>>

\* Mutant of FlusherQuits: the room goes at once.
FlusherQuits_NoLastFlush(r) ==
    /\ flusher[r].pc = "check" /\ PeersOf(r) = {}
    /\ map' = NoRoom
    /\ flusher' = [flusher EXCEPT ![r].pc = "done"]
    /\ UNCHANGED <<dbVars, freezeVars, events, room, work, peer, live, frame, strained>>

\* Mutant of FlusherQuits: a room waits for its queue to drain.
FlusherQuits_Waits(r) ==
    /\ flusher[r].pc = "check" /\ PeersOf(r) = {} /\ room[r].pending = {}
    /\ map' = NoRoom
    /\ flusher' = [flusher EXCEPT ![r].pc = "last"]
    /\ UNCHANGED <<dbVars, freezeVars, events, room, work, peer, live, frame, strained>>

\* The room leaves the map under the lock joins take; one last flush follows.
FlusherQuits(r) ==
    /\ flusher[r].pc = "check" /\ PeersOf(r) = {}
    /\ map' = NoRoom
    /\ flusher' = [flusher EXCEPT ![r].pc = "last"]
    /\ UNCHANGED <<dbVars, freezeVars, events, room, work, peer, live, frame, strained>>

\* The last reference goes, and what the store would not take goes with it.
Drop(r) ==
    /\ flusher[r].pc = "done"
    /\ room' = [room EXCEPT ![r] = Blank]
    /\ flusher' = [flusher EXCEPT ![r] = Resting]
    /\ resync' = [resync EXCEPT !.room = IF @ = r THEN NoRoom ELSE @]
    /\ UNCHANGED <<dbVars, events, archived, owed, map, work, peer, live, frame, strained>>

-----------------------------------------------------------------------------
Join(p) == JoinOpen(p) \/ Load(p) \/ ReadTop(p) \/ AskFrozen(p) \/ JoinAgain(p)
           \/ JoinWinner(p) \/ Install(p)

Edit(p, e) == SendDropped(p, e) \/ Send(p, e) \/ Mutate(p, e)
              \/ ResetTake(p, e) \/ MutateDurable(p, e)

\* What a task does without being asked again once it has started.
Finish(p) == Push(p) \/ Leave(p)

TakeLock(r, q) == FlushEmpty(r, q) \/ FlushTake(r, q)

Holding(r) == \/ FlushAppend(r) \/ FlushRefused(r)
              \/ CompactSnapshot(r) \/ CompactCommit(r) \/ CompactRefused(r)
              \/ ResetSnapshot(r) \/ ResetRead(r) \/ ResetCommit(r)
              \/ ResetRetry(r) \/ ResetRefused(r)

Round(r) == FlusherTick(r) \/ FlusherPublish(r) \/ FlusherStays(r)
            \/ FlusherQuits(r) \/ Drop(r)

Publish == ResyncStart \/ ResyncRead \/ ResyncPublish

Next == \/ \E p \in Peers : Join(p) \/ Finish(p) \/ Hangup(p) \/ AskSaved(p) \/ Reply(p)
                            \/ Recheck(p) \/ EndSession(p)
                            \/ \E e \in Edits : Edit(p, e)
        \/ \E e \in Edits : EditOffline(e)
        \/ \E r \in RoomIds : \/ \E q \in Peers \cup {Flusher} : TakeLock(r, q)
                              \/ Holding(r) \/ Round(r)
        \/ Freeze \/ Publish

\* The tasks of the runtime: whoever holds a lock goes on, `flushing' is a lock
\* that queues its waiters, so everyone who waits gets it, a flusher ticks, a
\* handler publishes what it owes, an open socket's timer fires.  Nobody has to
\* join, edit, ask or hang up.
Fairness ==
    /\ \A r \in RoomIds : /\ WF_vars(Holding(r)) /\ WF_vars(Round(r))
                          /\ SF_vars(TakeLock(r, Flusher))
    /\ \A p \in Peers : /\ WF_vars(Finish(p)) /\ WF_vars(Recheck(p))
                        /\ SF_vars(Reply(p) \/ \E r \in RoomIds : TakeLock(r, p))
    /\ WF_vars(Publish)

Spec == Init /\ [][Next]_vars /\ Fairness

-----------------------------------------------------------------------------
Rows == [seq : Nat, edits : SUBSET Edits]

RoomState == [replica : SUBSET Edits, pending : SUBSET Edits, base : Nat,
              own : Nat, frozen : BOOLEAN, escapeRefused : BOOLEAN,
              overloaded : BOOLEAN]
WorkState == [pc : {"idle", "taken", "rowwise", "snapshot", "compact",
                    "reset", "read", "commit"},
              by : Peers \cup {Flusher}, batch : SUBSET Edits, snap : SUBSET Edits,
              state : SUBSET Edits, seen : Nat, tries : Nat]
PeerState == [pc : {"out", "loading", "loaded", "asked", "in", "acked", "barrier",
                    "check", "persist", "parting", "parted", "reset"},
              room : RoomIds \cup {NoRoom}, rows : SUBSET Rows, seen : Nat,
              frozen : BOOLEAN, moved : BOOLEAN, tries : Nat,
              hand : Edits \cup {NoEdit}]
FlusherState == [pc : {"free", "tick", "asked", "flush", "check", "last", "done"},
                 frozen : BOOLEAN, moved : BOOLEAN]
ResyncState == [pc : {"idle", "taken", "read"}, room : RoomIds \cup {NoRoom},
                frozen : BOOLEAN]

RoomTypeOK ==
    /\ log \in SUBSET Rows /\ lastSeq \in Nat
    /\ archived \in BOOLEAN /\ events \in Nat /\ owed \in Nat
    /\ resync \in ResyncState
    /\ map \in RoomIds \cup {NoRoom}
    /\ room \in [RoomIds -> RoomState]
    /\ work \in [RoomIds -> WorkState]
    /\ flusher \in [RoomIds -> FlusherState]
    /\ peer \in [Peers -> PeerState]
    /\ live \in [Sockets -> BOOLEAN]
    /\ frame \in [Edits -> {"none", "dropped", "taken"}]
    /\ strained \in BOOLEAN

\* An open object has one replica: whoever is connected is in the room of the
\* map, however joins race each other and the flusher that takes an empty room
\* out of the map (docsync.rs: the loser joins the winner's room; the room is
\* emptied under the lock a joiner takes).
OneReplica == \A p \in Peers : peer[p].room # NoRoom => peer[p].room = map

\* When every archive and restore has been published, the room that is open has
\* the flag the store has, whatever reads were in flight (the ordering argument
\* of Rooms::join, resync_frozen and the flusher's backstop).
FreezeReachesRoom ==
    (owed = 0 /\ resync.pc = "idle" /\ map # NoRoom) => room[map].frozen = archived

\* An edit carries the id of the client that made it, so one peer makes it.
OneAuthor == \A e \in Edits : \A p, q \in Peers : e \in Own(p) /\ e \in Own(q) => p = q

\* What a barrier answered `saved' covers is written: every update the peer sent
\* on this connection that the room took (docs/mindmaps.md: a barrier covering
\* this browser's preceding updates).
SavedIsWritten ==
    \A p \in Sockets : (peer[p].pc = "acked" /\ ~strained) =>
        {e \in Own(p) : frame[e] = "taken"} \subseteq Content(log)

\* What a room shows its peers is written or still on its way: in the queue, in
\* the batch of the flush at work, or in the hands of the peer that made it.  No
\* refusal, fallback or retry forgets it (flush and reset_content take the queue
\* before they call the store, and requeue what it would not take).
ShownIsKept ==
    \A r \in RoomIds : flusher[r].pc # "free" /\ ~strained =>
        room[r].replica \subseteq Content(log) \cup room[r].pending \cup work[r].batch
                                  \cup {peer[p].hand : p \in PeersOf(r)}

\* No rewrite of the log loses an edit that was in it, whoever else appended, as
\* long as one room at a time holds the object and a join reads the log at one
\* point (the accounting of base_seq and own_appends in compact_collab).
LogKeepsEdits == [][~strained' => Content(log) \subseteq Content(log')]_vars

\* An edit in the queue of a room that has a flush ahead of it reaches the log,
\* unless the store refuses it: a failed flush keeps its batch, the flusher asks
\* again, and a room that goes is flushed once more (Rooms::spawn_flusher).
QueueDrains ==
    \A e \in Edits : (\E r \in RoomIds : e \in room[r].pending
                                         /\ flusher[r].pc \notin {"last", "done"})
                        ~> (e \in Content(log) \/ archived \/ Full({e}))

\* A session that ended reaches the socket it opened.
EndedSocketCloses ==
    \A p \in Sockets : (~live[p] /\ peer[p].room # NoRoom) ~> (peer[p].room = NoRoom)

\* A room nobody is in goes, or somebody comes back: none is leaked.
EmptyRoomGoes ==
    \A r \in RoomIds : (PeersOf(r) = {}) ~> (flusher[r].pc = "free" \/ PeersOf(r) # {})

\* What has ended goes away, also while flushes are refused and rooms change
\* hands.
NothingLingers == EndedSocketCloses /\ EmptyRoomGoes

\* The same whatever rooms overlap and whenever a join reads (docsync.rs: a room's
\* replica "by construction holds every update in the log").
LogNeverForgets == [][Content(log) \subseteq Content(log')]_vars
=============================================================================
