-------------------------- MODULE LiveRooms_proofs --------------------------
(* Theorems about LiveRooms: one replica of an object at a time, the flag  *)
(* that freezes it, and the way of an edit from a peer to the log.         *)
EXTENDS LiveRooms, FiniteSetTheorems, TLAPS

-----------------------------------------------------------------------------
(* Who is where.                                                           *)

Busy == {"tick", "asked", "flush", "check"}

\* A flusher on its round serves the room of the map.
RoundsAreMapped == \A r \in RoomIds : flusher[r].pc \in Busy <=> map = r

\* Whoever works under the lock of a room is in it, and waits for the result.
Flushing == {"taken", "rowwise", "snapshot", "compact"}
Resetting == {"reset", "read", "commit"}

LockIsHeld ==
    \A r \in RoomIds :
        /\ work[r].pc = "idle" => work[r] = Idle
        /\ work[r].pc \in Flushing => Waits(r, work[r].by)
        /\ work[r].pc \in Resetting =>
              /\ work[r].by \in Callers
              /\ peer[work[r].by].room = r /\ peer[work[r].by].pc = "reset"

\* A peer is in a room exactly between joining and leaving, and has an update in
\* its hands only while it works.
Joining == {"out", "loading", "loaded", "asked"}

PeersAreSomewhere ==
    \A p \in Peers :
        /\ peer[p].pc \in Joining <=> peer[p].room = NoRoom
        /\ peer[p].hand # NoEdit => peer[p].pc \in {"in", "reset"} /\ peer[p].hand \in Own(p)
        /\ peer[p].pc = "reset" => /\ peer[p].hand # NoEdit
                                   /\ work[peer[p].room].by = p
                                   /\ work[peer[p].room].pc \in Resetting

\* Two rooms of the object never exist at once in an unstrained history.
OneRoom ==
    ~strained => \A r, q \in RoomIds :
        flusher[r].pc # "free" /\ flusher[q].pc # "free" => r = q

PlaceInv == OneReplica /\ RoundsAreMapped /\ LockIsHeld /\ PeersAreSomewhere /\ OneRoom

-----------------------------------------------------------------------------
(* Freezing: an answer that is still under way is right, marked as old, or   *)
(* about to be replaced by a resync that is owed.                            *)

FreezeInv ==
    owed = 0 =>
        /\ \A p \in Peers : peer[p].pc = "asked" /\ ~peer[p].moved
                               => peer[p].frozen = archived
        /\ \A r \in RoomIds : flusher[r].pc = "asked" /\ ~flusher[r].moved
                                 => flusher[r].frozen = archived
        /\ resync.pc = "read" => resync.frozen = archived
        /\ map # NoRoom /\ (resync.pc # "idle" => resync.room # map)
              => room[map].frozen = archived

-----------------------------------------------------------------------------
(* The log.                                                                  *)

Upto(seq) == {r \in log : r.seq <= seq}

LogIsNumbered ==
    /\ IsFiniteSet(log)
    /\ \A r \in log : r.seq <= lastSeq
    /\ \A r, q \in log : r.seq = q.seq => r = q

\* What a join has read is still all there, and nothing below the baseline it
\* will start from is missing.
JoinsAreWhole ==
    ~strained => \A p \in Peers :
        /\ peer[p].pc = "loading" => peer[p].rows = log
        /\ peer[p].pc \in {"loaded", "asked"} =>
              /\ peer[p].seen <= lastSeq
              /\ Content(Upto(peer[p].seen)) \subseteq Content(peer[p].rows)
              /\ Content(peer[p].rows) \subseteq Content(log)

\* A replica with a baseline and a count of own rows knows all the rows that the
\* count lets a compaction forget.
Accounts(base, own, replica) ==
    /\ base <= lastSeq
    /\ Content(Upto(base)) \subseteq replica
    /\ \E mine \in SUBSET After(base) :
          Cardinality(mine) = own /\ Content(mine) \subseteq replica

\* A room and the work under its lock: what the next transaction of a flush, a
\* compaction or a reset relies on.
Sound(rm, wk) ==
    /\ Accounts(rm.base, rm.own, rm.replica)
    /\ rm.pending \cup wk.batch \subseteq rm.replica
    /\ wk.pc \in {"snapshot", "compact"} => wk.batch = {}
    /\ wk.pc = "compact" => Accounts(rm.base, rm.own, wk.snap) /\ wk.snap \subseteq rm.replica
    /\ wk.pc \in {"read", "commit"} => wk.batch \cup Content(Upto(rm.base)) \subseteq wk.snap
    /\ wk.pc = "commit" =>
          /\ wk.batch \subseteq wk.state /\ wk.seen <= lastSeq
          /\ TopSeq(log, 0) = wk.seen => Content(log) \subseteq wk.state

\* The edits peers have in their hands after the replica took them.
Carries(p, r, e) == peer[p].room = r /\ peer[p].pc = "in" /\ peer[p].hand = e
InHands(r) == {e \in Edits : \E p \in Peers : Carries(p, r, e)}

Kept(rm, wk, carried) ==
    /\ rm.replica \subseteq Content(log) \cup rm.pending \cup wk.batch \cup carried
    /\ carried \subseteq rm.replica

RoomGood(r) == Sound(room[r], work[r]) /\ Kept(room[r], work[r], InHands(r))
RoomsAreGood == ~strained => \A r \in RoomIds : flusher[r].pc # "free" => RoomGood(r)

\* What a room took from a socket it shows.
TakenIsShown ==
    \A p \in Sockets, e \in Edits :
        e \in Own(p) /\ frame[e] = "taken" =>
            peer[p].room # NoRoom /\ e \in room[peer[p].room].replica

KeepInv == JoinsAreWhole /\ RoomsAreGood

-----------------------------------------------------------------------------
(* Lemmas about the operators.                                               *)

\* A nonempty set of numbers up to a bound has a greatest.
LEMMA GreatestExists ==
    ASSUME NEW bound \in Nat, NEW T \in SUBSET (0 .. bound), T # {}
    PROVE  \E n \in T : \A m \in T : n >= m
<1> DEFINE U == {bound - n : n \in T}
<1>1. U \subseteq Nat /\ U # {}
  <2>1. \A n \in T : bound - n \in U /\ bound - n \in Nat
    OBVIOUS
  <2> QED BY <2>1
<1>2. PICK x \in U : \A y \in U : ~(<<y, x>> \in OpToRel(<, Nat))
  BY <1>1, NatLessThanWellFounded, WFMin
<1>3. \A y \in U : ~(y < x)
  BY <1>1, <1>2 DEF OpToRel
<1>4. PICK n \in T : x = bound - n
  OBVIOUS
<1>5. \A m \in T : bound - m \in U
  OBVIOUS
<1>6. \A m \in T : ~(bound - m < bound - n)
  BY <1>3, <1>4, <1>5
<1> QED BY <1>6

\* TopSeq is the highest number among the rows, or the floor.
LEMMA TopSeqIsTop ==
    ASSUME NEW bound \in Nat, NEW rows \in SUBSET Rows, NEW floor \in Nat,
           floor <= bound, \A r \in rows : r.seq <= bound
    PROVE  /\ TopSeq(rows, floor) \in Nat
           /\ TopSeq(rows, floor) <= bound
           /\ floor <= TopSeq(rows, floor)
           /\ \A r \in rows : r.seq <= TopSeq(rows, floor)
<1> DEFINE T == {r.seq : r \in rows} \cup {floor}
           top == CHOOSE n \in T : \A m \in T : n >= m
<1>1. TopSeq(rows, floor) = top
  BY DEF TopSeq, Max
<1>2. T \in SUBSET (0 .. bound) /\ T # {} /\ floor \in T
  BY DEF Rows
<1>3. \E n \in T : \A m \in T : n >= m
  BY <1>2, GreatestExists
<1>4. top \in T /\ \A m \in T : top >= m
  BY <1>3
<1>5. \A r \in rows : r.seq \in T
  OBVIOUS
<1> HIDE DEF T, top
<1>6. top \in Nat /\ top <= bound
  BY <1>2, <1>4
<1> QED BY <1>1, <1>2, <1>4, <1>5, <1>6

\* The edits of rows are edits.
LEMMA ContentType ==
    ASSUME NEW rows \in SUBSET Rows
    PROVE  Content(rows) \in SUBSET Edits
BY DEF Content, Rows

-----------------------------------------------------------------------------
(* Types.                                                                    *)

Typed == RoomTypeOK /\ LogIsNumbered
Locks == Peers \cup {Flusher}

LEMMA InitTyped == Init => Typed
<1> SUFFICES ASSUME Init PROVE Typed
  OBVIOUS
<1>1. Content({}) = {}
  BY DEF Content
<1>2. RoomTypeOK
  BY <1>1, RoomAssumption DEF Init, RoomTypeOK, Blank, Fresh, Idle, Resting, Out, NoResync,
     RoomState, WorkState, FlusherState, PeerState, ResyncState, Rows, Peers
<1>3. LogIsNumbered
  BY FS_EmptySet DEF Init, LogIsNumbered
<1> QED BY <1>2, <1>3 DEF Typed

\* What a transaction writes is a row above all others.
LEMMA AppendTyped ==
    ASSUME Typed, NEW edits \in SUBSET Edits, LogAppend(edits)
    PROVE  /\ log' \in SUBSET Rows /\ lastSeq' \in Nat /\ strained' \in BOOLEAN
           /\ LogIsNumbered'
<1>1. /\ log \in SUBSET Rows /\ lastSeq \in Nat /\ IsFiniteSet(log)
      /\ \A r \in log : r.seq \in Nat /\ r.seq <= lastSeq
      /\ \A r, q \in log : r.seq = q.seq => r = q
  BY DEF Typed, RoomTypeOK, LogIsNumbered, Rows
<1> DEFINE new == Row(lastSeq + 1, edits)
<1>2. new \in Rows /\ new.seq = lastSeq + 1
  BY <1>1 DEF Row, Rows
<1>3. log' = log \cup {new} /\ lastSeq' = lastSeq + 1 /\ strained' \in BOOLEAN
  BY DEF LogAppend, NextSeq, Typed, RoomTypeOK
<1> HIDE DEF new
<1>4. IsFiniteSet(log')
  BY <1>1, <1>3, FS_AddElement
<1>5. \A r \in log' : r.seq <= lastSeq'
  BY <1>1, <1>2, <1>3
<1>6. \A r, q \in log' : r.seq = q.seq => r = q
  <2> SUFFICES ASSUME NEW r \in log', NEW q \in log', r.seq = q.seq
               PROVE  r = q
    OBVIOUS
  <2>1. CASE r \in log /\ q \in log
    BY <2>1, <1>1
  <2>2. CASE r = new \/ q = new
    BY <2>2, <1>1, <1>2, <1>3
  <2> QED BY <2>1, <2>2, <1>3
<1>7. log' \in SUBSET Rows /\ lastSeq' \in Nat
  BY <1>1, <1>2, <1>3
<1> QED BY <1>3, <1>4, <1>5, <1>6, <1>7 DEF LogIsNumbered

LEMMA ReplaceTyped ==
    ASSUME Typed, NEW edits \in SUBSET Edits, Replace(edits)
    PROVE  /\ log' \in SUBSET Rows /\ lastSeq' \in Nat /\ strained' \in BOOLEAN
           /\ LogIsNumbered'
<1>1. lastSeq \in Nat /\ strained \in BOOLEAN
  BY DEF Typed, RoomTypeOK
<1> DEFINE new == Row(lastSeq + 1, edits)
<1>2. new \in Rows /\ new.seq = lastSeq + 1
  BY <1>1 DEF Row, Rows
<1>3. log' = {new} /\ lastSeq' = lastSeq + 1 /\ strained' \in BOOLEAN
  BY <1>1 DEF Replace, NextSeq
<1> HIDE DEF new
<1>4. IsFiniteSet(log')
  BY <1>3, FS_Singleton
<1> QED BY <1>1, <1>2, <1>3, <1>4 DEF LogIsNumbered

\* The states a record starts from.
LEMMA StartTyped ==
    /\ Out \in PeerState /\ Idle \in WorkState /\ Resting \in FlusherState
    /\ NoResync \in ResyncState /\ Blank \in RoomState
<1>1. Content({}) = {}
  BY DEF Content
<1> QED BY <1>1, RoomAssumption
   DEF Out, PeerState, Idle, WorkState, Resting, FlusherState, NoResync, ResyncState,
       Blank, Fresh, RoomState, Locks, Peers

LEMMA FreshTyped ==
    ASSUME NEW rows \in SUBSET Rows, NEW seen \in Nat, NEW frozen \in BOOLEAN
    PROVE  Fresh(rows, seen, frozen) \in RoomState
BY ContentType DEF Fresh, RoomState

\* The parts of the state of one room and of one peer.
LEMMA RoomParts ==
    ASSUME Typed, NEW r \in RoomIds
    PROVE  /\ room[r] \in RoomState /\ work[r] \in WorkState /\ flusher[r] \in FlusherState
           /\ room[r].replica \in SUBSET Edits /\ room[r].pending \in SUBSET Edits
           /\ room[r].base \in Nat /\ room[r].own \in Nat
           /\ work[r].batch \in SUBSET Edits /\ work[r].by \in Locks
           /\ work[r].snap \in SUBSET Edits /\ work[r].state \in SUBSET Edits
           /\ work[r].seen \in Nat /\ work[r].tries \in Nat
<1>1. room[r] \in RoomState /\ work[r] \in WorkState /\ flusher[r] \in FlusherState
  BY DEF Typed, RoomTypeOK
<1>2. /\ room[r].replica \in SUBSET Edits /\ room[r].pending \in SUBSET Edits
      /\ room[r].base \in Nat /\ room[r].own \in Nat
  BY <1>1 DEF RoomState
<1>3. /\ work[r].batch \in SUBSET Edits /\ work[r].by \in Locks
      /\ work[r].snap \in SUBSET Edits /\ work[r].state \in SUBSET Edits
      /\ work[r].seen \in Nat /\ work[r].tries \in Nat
  BY <1>1 DEF WorkState, Locks
<1> QED BY <1>1, <1>2, <1>3

LEMMA PeerParts ==
    ASSUME Typed, NEW p \in Peers
    PROVE  /\ peer[p] \in PeerState /\ peer[p].room \in RoomIds \cup {NoRoom}
           /\ peer[p].rows \in SUBSET Rows /\ peer[p].seen \in Nat
           /\ peer[p].frozen \in BOOLEAN /\ peer[p].tries \in Nat
           /\ peer[p].hand \in Edits \cup {NoEdit}
<1>1. peer[p] \in PeerState
  BY DEF Typed, RoomTypeOK
<1> QED BY <1>1 DEF PeerState

LEMMA TopTyped ==
    ASSUME Typed
    PROVE  TopSeq(log, 0) \in Nat /\ TopSeq(log, 0) <= lastSeq
           /\ \A r \in log : r.seq <= TopSeq(log, 0)
<1>1. log \in SUBSET Rows /\ lastSeq \in Nat /\ \A r \in log : r.seq <= lastSeq
  BY DEF Typed, RoomTypeOK, LogIsNumbered
<1> QED BY <1>1, TopSeqIsTop

\* Giving a lock back.
LEMMA ReturnTyped ==
    ASSUME Typed, NEW r \in RoomIds, NEW q \in Locks, Return(r, q)
    PROVE  peer' \in [Peers -> PeerState] /\ flusher' \in [RoomIds -> FlusherState]
<1>1. peer \in [Peers -> PeerState] /\ flusher \in [RoomIds -> FlusherState]
  BY DEF Typed, RoomTypeOK
<1>2. CASE q = Flusher
  BY <1>1, <1>2 DEF Return, FlusherState
<1>3. CASE q # Flusher
  BY <1>1, <1>3 DEF Return, PeerState, Locks
<1> QED BY <1>2, <1>3

LEMMA ReleaseTyped ==
    ASSUME Typed, NEW r \in RoomIds, Release(r)
    PROVE  /\ peer' \in [Peers -> PeerState] /\ flusher' \in [RoomIds -> FlusherState]
           /\ work' \in [RoomIds -> WorkState]
<1>1. work \in [RoomIds -> WorkState] /\ work[r].by \in Locks
  BY RoomParts DEF Typed, RoomTypeOK
<1>2. peer' \in [Peers -> PeerState] /\ flusher' \in [RoomIds -> FlusherState]
  BY <1>1, ReturnTyped DEF Release
<1>3. work' = [work EXCEPT ![r] = Idle]
  BY DEF Release
<1> QED BY <1>1, <1>2, <1>3, StartTyped

LEMMA EndResetTyped ==
    ASSUME Typed, NEW r \in RoomIds, EndReset(r)
    PROVE  peer' \in [Peers -> PeerState] /\ work' \in [RoomIds -> WorkState]
<1>1. work' \in [RoomIds -> WorkState]
  BY StartTyped DEF EndReset, Typed, RoomTypeOK
<1>2. CASE work[r].by \in Peers
  <2>1. [peer[work[r].by] EXCEPT !.pc = "parted", !.hand = NoEdit] \in PeerState
    BY <1>2, PeerParts DEF PeerState
  <2>2. peer' = [peer EXCEPT ![work[r].by] =
                   [peer[work[r].by] EXCEPT !.pc = "parted", !.hand = NoEdit]]
    BY DEF EndReset
  <2> QED BY <1>1, <2>1, <2>2 DEF Typed, RoomTypeOK
<1>3. CASE work[r].by \notin Peers
  BY <1>1, <1>3 DEF EndReset, Typed, RoomTypeOK
<1> QED BY <1>2, <1>3

LEMMA JoinTyped ==
    ASSUME Typed, PlaceInv, NEW p \in Peers, Join(p)
    PROVE  Typed'
<1>1. CASE JoinOpen(p)
  <2>1. map \in RoomIds /\ [Out EXCEPT !.pc = "in", !.room = map] \in PeerState
    BY <1>1, StartTyped DEF JoinOpen, Typed, RoomTypeOK, PeerState
  <2>2. peer' \in [Peers -> PeerState]
    BY <1>1, <2>1 DEF JoinOpen, Typed, RoomTypeOK
  <2>3. events' \in Nat
    BY <1>1 DEF JoinOpen, Counted, Typed, RoomTypeOK
  <2>4. UNCHANGED <<log, lastSeq, archived, owed, resync, map, room, work, flusher, live, frame, strained>>
    BY <1>1 DEF JoinOpen, dbVars, freezeVars
  <2> QED BY <2>2, <2>3, <2>4 DEF Typed, RoomTypeOK, LogIsNumbered
<1>2. CASE Load(p)
  <2>1. [Out EXCEPT !.pc = "loading", !.rows = log] \in PeerState
    BY StartTyped DEF Typed, RoomTypeOK, PeerState
  <2>2. peer' \in [Peers -> PeerState]
    BY <1>2, <2>1 DEF Load, Typed, RoomTypeOK
  <2>3. events' \in Nat
    BY <1>2 DEF Load, Counted, Typed, RoomTypeOK
  <2>4. UNCHANGED <<log, lastSeq, archived, owed, resync, map, room, work, flusher, live, frame, strained>>
    BY <1>2 DEF Load, dbVars, freezeVars
  <2> QED BY <2>2, <2>3, <2>4 DEF Typed, RoomTypeOK, LogIsNumbered
<1>3. CASE ReadTop(p)
  <2>1. [peer[p] EXCEPT !.pc = "loaded", !.seen = TopSeq(log, 0)] \in PeerState
    BY PeerParts, TopTyped DEF PeerState
  <2>2. peer' = [peer EXCEPT ![p] = [peer[p] EXCEPT !.pc = "loaded", !.seen = TopSeq(log, 0)]]
    BY <1>3 DEF ReadTop
  <2>3. peer' \in [Peers -> PeerState]
    BY <2>1, <2>2 DEF Typed, RoomTypeOK
  <2>4. UNCHANGED <<log, lastSeq, archived, events, owed, resync, map, room, work, flusher, live, frame, strained>>
    BY <1>3 DEF ReadTop, dbVars, freezeVars
  <2> QED BY <2>3, <2>4 DEF Typed, RoomTypeOK, LogIsNumbered
<1>4. CASE AskFrozen(p)
  <2>1. [peer[p] EXCEPT !.pc = "asked", !.frozen = archived, !.moved = FALSE] \in PeerState
    BY PeerParts DEF PeerState, Typed, RoomTypeOK
  <2>2. peer' = [peer EXCEPT ![p] =
                     [peer[p] EXCEPT !.pc = "asked", !.frozen = archived, !.moved = FALSE]]
    BY <1>4 DEF AskFrozen
  <2>3. peer' \in [Peers -> PeerState]
    BY <2>1, <2>2 DEF Typed, RoomTypeOK
  <2>4. UNCHANGED <<log, lastSeq, archived, events, owed, resync, map, room, work, flusher, live, frame, strained>>
    BY <1>4 DEF AskFrozen, dbVars, freezeVars
  <2> QED BY <2>3, <2>4 DEF Typed, RoomTypeOK, LogIsNumbered
<1>5. CASE JoinAgain(p)
  <2>1. \A n \in Nat : [peer[p] EXCEPT !.pc = "loaded", !.tries = n] \in PeerState
    BY PeerParts DEF PeerState
  <2>2. peer[p].tries + 1 \in Nat
    BY PeerParts
  <2>3. peer' \in [Peers -> PeerState]
    BY <1>5, <2>1, <2>2, StartTyped DEF JoinAgain, Typed, RoomTypeOK
  <2>4. UNCHANGED <<log, lastSeq, archived, events, owed, resync, map, room, work, flusher, live, frame, strained>>
    BY <1>5 DEF JoinAgain, dbVars, freezeVars
  <2> QED BY <2>3, <2>4 DEF Typed, RoomTypeOK, LogIsNumbered
<1>6. CASE JoinWinner(p)
  <2>1. map \in RoomIds /\ [Out EXCEPT !.pc = "in", !.room = map] \in PeerState
    BY <1>6, StartTyped DEF JoinWinner, Typed, RoomTypeOK, PeerState
  <2>2. peer' \in [Peers -> PeerState]
    BY <1>6, <2>1 DEF JoinWinner, Typed, RoomTypeOK
  <2>3. UNCHANGED <<log, lastSeq, archived, events, owed, resync, map, room, work, flusher, live, frame, strained>>
    BY <1>6 DEF JoinWinner, dbVars, freezeVars
  <2> QED BY <2>2, <2>3 DEF Typed, RoomTypeOK, LogIsNumbered
<1>7. CASE Install(p)
  <2>1. PICK r \in RoomIds :
             /\ map' = r
             /\ room' = [room EXCEPT ![r] = Fresh(peer[p].rows, peer[p].seen, peer[p].frozen)]
             /\ flusher' = [flusher EXCEPT ![r].pc = "tick"]
             /\ peer' = [peer EXCEPT ![p] = [Out EXCEPT !.pc = "in", !.room = r]]
             /\ strained' \in BOOLEAN
    BY <1>7 DEF Install, Typed, RoomTypeOK
  <2>2. [Out EXCEPT !.pc = "in", !.room = r] \in PeerState
    BY StartTyped DEF PeerState
  <2>3. peer' \in [Peers -> PeerState]
    BY <2>1, <2>2 DEF Typed, RoomTypeOK
  <2>4. room' \in [RoomIds -> RoomState]
    BY <2>1, PeerParts, FreshTyped DEF Typed, RoomTypeOK
  <2>5. flusher' \in [RoomIds -> FlusherState]
    BY <2>1 DEF Typed, RoomTypeOK, FlusherState
  <2>6. map' \in RoomIds \cup {NoRoom} /\ strained' \in BOOLEAN
    BY <2>1
  <2>7. UNCHANGED <<log, lastSeq, archived, events, owed, resync, work, live, frame>>
    BY <1>7 DEF Install, dbVars, freezeVars
  <2> QED BY <2>3, <2>4, <2>5, <2>6, <2>7 DEF Typed, RoomTypeOK, LogIsNumbered
<1> QED BY <1>1, <1>2, <1>3, <1>4, <1>5, <1>6, <1>7 DEF Join

LEMMA PublishTyped ==
    ASSUME Typed, PlaceInv, Freeze \/ Publish
    PROVE  Typed'
<1>1. CASE Freeze
  <2>1. archived' \in BOOLEAN /\ owed' \in Nat /\ events' \in Nat
    BY <1>1 DEF Freeze, Counted, Typed, RoomTypeOK
  <2>2. UNCHANGED <<log, lastSeq, resync, map, room, work, flusher, peer, live, frame, strained>>
    BY <1>1 DEF Freeze, dbVars, freezeVars
  <2> QED BY <2>1, <2>2 DEF Typed, RoomTypeOK, LogIsNumbered
<1>2. CASE ResyncStart
  <2>1. resync' = [NoResync EXCEPT !.pc = "taken", !.room = map] /\ owed' = owed - 1 /\ owed > 0
    BY <1>2 DEF ResyncStart
  <2>2. owed' \in Nat
    BY <2>1 DEF Typed, RoomTypeOK
  <2>3. map \in RoomIds \cup {NoRoom}
    BY DEF Typed, RoomTypeOK
  <2>4. resync' \in ResyncState
    BY <2>1, <2>3, StartTyped DEF ResyncState
  <2>5. ASSUME NEW q \in Peers
        PROVE  [peer[q] EXCEPT !.moved = @ \/ peer[q].pc = "asked"] \in PeerState
    BY PeerParts DEF PeerState
  <2>6. peer' \in [Peers -> PeerState]
    BY <1>2, <2>5 DEF ResyncStart
  <2>7. ASSUME NEW r \in RoomIds
        PROVE  [flusher[r] EXCEPT !.moved = @ \/ flusher[r].pc = "asked"] \in FlusherState
    BY RoomParts DEF FlusherState
  <2>8. flusher' \in [RoomIds -> FlusherState]
    BY <1>2, <2>7 DEF ResyncStart
  <2>9. UNCHANGED <<log, lastSeq, archived, events, map, room, work, live, frame, strained>>
    BY <1>2 DEF ResyncStart, dbVars, freezeVars
  <2> QED BY <2>2, <2>4, <2>6, <2>8, <2>9 DEF Typed, RoomTypeOK, LogIsNumbered
<1>3. CASE ResyncRead
  <2>1. resync' = [resync EXCEPT !.pc = "read", !.frozen = archived]
    BY <1>3 DEF ResyncRead
  <2>2. resync' \in ResyncState
    BY <2>1 DEF ResyncState, Typed, RoomTypeOK
  <2>3. UNCHANGED <<log, lastSeq, archived, events, owed, map, room, work, flusher, peer, live, frame, strained>>
    BY <1>3 DEF ResyncRead, dbVars, freezeVars
  <2> QED BY <2>2, <2>3 DEF Typed, RoomTypeOK, LogIsNumbered
<1>4. CASE ResyncPublish
  <2>1. resync' \in ResyncState /\ resync.frozen \in BOOLEAN
    BY <1>4, StartTyped DEF ResyncPublish, Typed, RoomTypeOK, ResyncState
  <2>2. ASSUME NEW r \in RoomIds PROVE [room[r] EXCEPT !.frozen = resync.frozen] \in RoomState
    BY <2>1, RoomParts DEF RoomState
  <2>3. room' \in [RoomIds -> RoomState]
    BY <1>4, <2>2, RoomParts DEF ResyncPublish
  <2>4. UNCHANGED <<log, lastSeq, archived, events, owed, map, work, flusher, peer, live, frame, strained>>
    BY <1>4 DEF ResyncPublish, dbVars, freezeVars
  <2> QED BY <2>1, <2>3, <2>4 DEF Typed, RoomTypeOK, LogIsNumbered
<1> QED BY <1>1, <1>2, <1>3, <1>4 DEF Publish

LEMMA EditTyped ==
    ASSUME Typed, PlaceInv, NEW p \in Peers, NEW e \in Edits, Edit(p, e)
    PROVE  Typed'
<1>1. CASE SendDropped(p, e)
  <2>1. peer' \in [Peers -> PeerState]
    BY <1>1 DEF SendDropped, Typed, RoomTypeOK, PeerState
  <2>2. frame' \in [Edits -> {"none", "dropped", "taken"}]
    BY <1>1 DEF SendDropped, Typed, RoomTypeOK
  <2>3. UNCHANGED <<log, lastSeq, archived, events, owed, resync, map, room, work, flusher, live, strained>>
    BY <1>1 DEF SendDropped, dbVars, freezeVars
  <2> QED BY <2>1, <2>2, <2>3 DEF Typed, RoomTypeOK, LogIsNumbered
<1>2. CASE Send(p, e)
  <2>1. [peer[p] EXCEPT !.pc = "in",
                      !.hand = IF e \in room[peer[p].room].replica THEN peer[p].hand ELSE e] \in PeerState
    BY PeerParts DEF PeerState
  <2>2. peer' = [peer EXCEPT ![p] =
                [peer[p] EXCEPT !.pc = "in",
                    !.hand = IF e \in room[peer[p].room].replica THEN peer[p].hand ELSE e]]
    BY <1>2 DEF Send
  <2>3. peer' \in [Peers -> PeerState]
    BY <2>1, <2>2 DEF Typed, RoomTypeOK
  <2>4. \A r \in RoomIds : [room[r] EXCEPT !.replica = room[r].replica \cup {e}] \in RoomState
    BY RoomParts DEF RoomState
  <2>5. room' = [room EXCEPT ![peer[p].room] =
                [room[peer[p].room] EXCEPT !.replica = room[peer[p].room].replica \cup {e}]]
    BY <1>2 DEF Send
  <2>6. room' \in [RoomIds -> RoomState]
    BY <2>4, <2>5 DEF Typed, RoomTypeOK
  <2>7. frame' \in [Edits -> {"none", "dropped", "taken"}]
    BY <1>2 DEF Send, Typed, RoomTypeOK
  <2>8. UNCHANGED <<log, lastSeq, archived, events, owed, resync, map, work, flusher, live, strained>>
    BY <1>2 DEF Send, dbVars, freezeVars
  <2> QED BY <2>3, <2>6, <2>7, <2>8 DEF Typed, RoomTypeOK, LogIsNumbered
<1>3. CASE Mutate(p, e)
  <2>1. peer' \in [Peers -> PeerState]
    BY <1>3 DEF Mutate, Typed, RoomTypeOK, PeerState
  <2>2. \A r \in RoomIds : [room[r] EXCEPT !.replica = room[r].replica \cup {e}] \in RoomState
    BY RoomParts DEF RoomState
  <2>3. room' = [room EXCEPT ![peer[p].room] =
                [room[peer[p].room] EXCEPT !.replica = room[peer[p].room].replica \cup {e}]]
    BY <1>3 DEF Mutate
  <2>4. room' \in [RoomIds -> RoomState]
    BY <2>2, <2>3 DEF Typed, RoomTypeOK
  <2>5. UNCHANGED <<log, lastSeq, archived, events, owed, resync, map, work, flusher, live, frame, strained>>
    BY <1>3 DEF Mutate, dbVars, freezeVars
  <2> QED BY <2>1, <2>4, <2>5 DEF Typed, RoomTypeOK, LogIsNumbered
<1>4. CASE ResetTake(p, e)
  <2>1. [peer[p] EXCEPT !.pc = "reset", !.hand = e] \in PeerState
    BY PeerParts DEF PeerState
  <2>2. peer' = [peer EXCEPT ![p] = [peer[p] EXCEPT !.pc = "reset", !.hand = e]]
    BY <1>4 DEF ResetTake
  <2>3. peer' \in [Peers -> PeerState]
    BY <2>1, <2>2 DEF Typed, RoomTypeOK
  <2>4. \A r \in RoomIds : [room[r] EXCEPT !.pending = {}] \in RoomState
    BY RoomParts DEF RoomState
  <2>5. room' = [room EXCEPT ![peer[p].room] =
                [room[peer[p].room] EXCEPT !.pending = {}]]
    BY <1>4 DEF ResetTake
  <2>6. room' \in [RoomIds -> RoomState]
    BY <2>4, <2>5 DEF Typed, RoomTypeOK
  <2>7. ASSUME NEW r \in RoomIds
        PROVE  [Idle EXCEPT !.pc = "reset", !.by = p, !.batch = room[r].pending] \in WorkState
    BY RoomParts, StartTyped DEF WorkState
  <2>8. work' \in [RoomIds -> WorkState]
    BY <1>4, <2>7 DEF ResetTake, Typed, RoomTypeOK
  <2>9. UNCHANGED <<log, lastSeq, archived, events, owed, resync, map, flusher, live, frame, strained>>
    BY <1>4 DEF ResetTake, dbVars, freezeVars
  <2> QED BY <2>3, <2>6, <2>8, <2>9 DEF Typed, RoomTypeOK, LogIsNumbered
<1>5. CASE MutateDurable(p, e)
  <2>1. peer[p].room \in RoomIds
    BY <1>5, PeerParts DEF MutateDurable, PlaceInv, PeersAreSomewhere, Joining
  <2>2. peer' = [peer EXCEPT ![p] = [peer[p] EXCEPT !.pc = "parted"]]
    BY <1>5 DEF MutateDurable
  <2>3. [peer[p] EXCEPT !.pc = "parted"] \in PeerState
    BY PeerParts DEF PeerState
  <2>4. peer' \in [Peers -> PeerState]
    BY <2>2, <2>3 DEF Typed, RoomTypeOK
  <2>5. room[peer[p].room].replica \cup {e} \in SUBSET Edits
    BY <2>1, RoomParts
  <2>6. \A s \in SUBSET Edits, n \in Nat :
             [room[peer[p].room] EXCEPT !.replica = s, !.own = n] \in RoomState
    BY <2>1, RoomParts DEF RoomState
  <2>7. room[peer[p].room].own + 1 \in Nat
    BY <2>1, RoomParts
  <2>8. room' = [room EXCEPT ![peer[p].room] =
                [room[peer[p].room] EXCEPT !.replica = room[peer[p].room].replica \cup {e},
                                           !.own = room[peer[p].room].own + 1]]
    BY <1>5 DEF MutateDurable
  <2>9. room' \in [RoomIds -> RoomState]
    BY <2>5, <2>6, <2>7, <2>8 DEF Typed, RoomTypeOK
  <2>10. /\ log' \in SUBSET Rows /\ lastSeq' \in Nat /\ strained' \in BOOLEAN
         /\ LogIsNumbered'
    BY <1>5, <2>5, AppendTyped DEF MutateDurable
  <2>11. UNCHANGED <<archived, events, owed, resync, map, work, flusher, live, frame>>
    BY <1>5 DEF MutateDurable, dbVars, freezeVars
  <2> QED BY <2>4, <2>9, <2>10, <2>11 DEF Typed, RoomTypeOK, LogIsNumbered
<1> QED BY <1>1, <1>2, <1>3, <1>4, <1>5 DEF Edit

LEMMA OfflineTyped ==
    ASSUME Typed, PlaceInv, NEW e \in Edits, EditOffline(e)
    PROVE  Typed'
<1>1. CASE EditOffline(e)
  <2>1. Content(log) \cup {e} \in SUBSET Edits
    BY ContentType DEF Typed, RoomTypeOK
  <2>2. /\ log' \in SUBSET Rows /\ lastSeq' \in Nat /\ strained' \in BOOLEAN
        /\ LogIsNumbered'
    BY <1>1, <2>1, AppendTyped DEF EditOffline
  <2>3. events' \in Nat
    BY <1>1 DEF EditOffline, Counted, Typed, RoomTypeOK
  <2>4. UNCHANGED <<archived, owed, resync, map, room, work, flusher, peer, live, frame>>
    BY <1>1 DEF EditOffline, dbVars, freezeVars
  <2> QED BY <2>2, <2>3, <2>4 DEF Typed, RoomTypeOK, LogIsNumbered
<1> QED BY <1>1

LEMMA LockTyped ==
    ASSUME Typed, PlaceInv, NEW r \in RoomIds, NEW q \in Locks, TakeLock(r, q)
    PROVE  Typed'
<1>1. CASE FlushEmpty(r, q)
  <2>1. peer' \in [Peers -> PeerState] /\ flusher' \in [RoomIds -> FlusherState]
    BY <1>1, ReturnTyped DEF FlushEmpty
  <2>2. UNCHANGED <<log, lastSeq, archived, events, owed, resync, map, room, work, live, frame, strained>>
    BY <1>1 DEF FlushEmpty, dbVars, freezeVars
  <2> QED BY <2>1, <2>2 DEF Typed, RoomTypeOK, LogIsNumbered
<1>2. CASE FlushTake(r, q)
  <2>1. [Idle EXCEPT !.pc = "taken", !.by = q, !.batch = room[r].pending] \in WorkState
    BY StartTyped, RoomParts DEF WorkState, Locks
  <2>2. work' \in [RoomIds -> WorkState]
    BY <1>2, <2>1 DEF FlushTake, Typed, RoomTypeOK
  <2>3. room' \in [RoomIds -> RoomState]
    BY <1>2 DEF FlushTake, Typed, RoomTypeOK, RoomState
  <2>4. UNCHANGED <<log, lastSeq, archived, events, owed, resync, map, flusher, peer, live, frame, strained>>
    BY <1>2 DEF FlushTake, dbVars, freezeVars
  <2> QED BY <2>2, <2>3, <2>4 DEF Typed, RoomTypeOK, LogIsNumbered
<1> QED BY <1>1, <1>2 DEF TakeLock

LEMMA HoldTyped ==
    ASSUME Typed, PlaceInv, NEW r \in RoomIds, Holding(r)
    PROVE  Typed'
<1>1. CASE FlushAppend(r)
  <2>1. PICK part \in Parts(r) :
             /\ LogAppend(part)
             /\ room' = [room EXCEPT ![r].own = @ + 1, ![r].escapeRefused = FALSE,
                            ![r].overloaded = @ /\ work[r].batch \ part # {}]
             /\ \/ work' = [work EXCEPT ![r].pc = "rowwise", ![r].batch = work[r].batch \ part]
                   /\ UNCHANGED <<flusher, peer>>
                \/ work' = [work EXCEPT ![r].pc = "snapshot", ![r].batch = {}]
                   /\ UNCHANGED <<flusher, peer>>
                \/ Release(r)
    BY <1>1 DEF FlushAppend
  <2>2. part \in SUBSET Edits
    BY RoomParts DEF Parts
  <2>3. /\ log' \in SUBSET Rows /\ lastSeq' \in Nat /\ strained' \in BOOLEAN
        /\ LogIsNumbered'
    BY <2>1, <2>2, AppendTyped
  <2>4. \A b \in BOOLEAN, n \in Nat :
             [room[r] EXCEPT !.own = n, !.escapeRefused = FALSE, !.overloaded = b] \in RoomState
    BY RoomParts DEF RoomState
  <2>5. room' = [room EXCEPT ![r] = [room[r] EXCEPT !.own = room[r].own + 1,
             !.escapeRefused = FALSE,
             !.overloaded = room[r].overloaded /\ work[r].batch \ part # {}]]
    BY <2>1
  <2>6. room[r].own + 1 \in Nat /\ (room[r].overloaded /\ work[r].batch \ part # {}) \in BOOLEAN
    BY RoomParts
  <2>7. room' \in [RoomIds -> RoomState]
    BY <2>4, <2>5, <2>6 DEF Typed, RoomTypeOK
  <2>8. \A b \in SUBSET Edits : [work[r] EXCEPT !.pc = "rowwise", !.batch = b] \in WorkState
                             /\ [work[r] EXCEPT !.pc = "snapshot", !.batch = b] \in WorkState
    BY RoomParts DEF WorkState
  <2>9. \/ /\ work' = [work EXCEPT ![r] = [work[r] EXCEPT !.pc = "rowwise", !.batch = work[r].batch \ part]]
           /\ UNCHANGED <<flusher, peer>>
        \/ /\ work' = [work EXCEPT ![r] = [work[r] EXCEPT !.pc = "snapshot", !.batch = {}]]
           /\ UNCHANGED <<flusher, peer>>
        \/ Release(r)
    BY <2>1
  <2>10. work[r].batch \ part \in SUBSET Edits /\ {} \in SUBSET Edits
    BY RoomParts
  <2>11. /\ peer' \in [Peers -> PeerState] /\ flusher' \in [RoomIds -> FlusherState]
         /\ work' \in [RoomIds -> WorkState]
    BY <2>8, <2>9, <2>10, ReleaseTyped DEF Typed, RoomTypeOK
  <2>12. UNCHANGED <<archived, events, owed, resync, map, live, frame>>
    BY <1>1 DEF FlushAppend, dbVars, freezeVars
  <2> QED BY <2>3, <2>7, <2>11, <2>12 DEF Typed, RoomTypeOK, LogIsNumbered
<1>2. CASE FlushRefused(r)
  <2>1. Requeued(room[r], work[r].batch) \in RoomState
    BY RoomParts DEF Requeued, RoomState
  <2>2. room' = [room EXCEPT ![r] = Requeued(room[r], work[r].batch)]
    BY <1>2 DEF FlushRefused
  <2>3. room' \in [RoomIds -> RoomState]
    BY <2>1, <2>2 DEF Typed, RoomTypeOK
  <2>4. [work[r] EXCEPT !.pc = "snapshot", !.batch = {}] \in WorkState
    BY RoomParts DEF WorkState
  <2>5. \/ work' = [work EXCEPT ![r] = [work[r] EXCEPT !.pc = "snapshot", !.batch = {}]]
           /\ UNCHANGED <<flusher, peer>>
        \/ Release(r)
    BY <1>2 DEF FlushRefused
  <2>6. /\ peer' \in [Peers -> PeerState] /\ flusher' \in [RoomIds -> FlusherState]
        /\ work' \in [RoomIds -> WorkState]
    BY <2>4, <2>5, ReleaseTyped DEF Typed, RoomTypeOK
  <2>7. UNCHANGED <<log, lastSeq, archived, events, owed, resync, map, live, frame, strained>>
    BY <1>2 DEF FlushRefused, dbVars, freezeVars
  <2> QED BY <2>3, <2>6, <2>7 DEF Typed, RoomTypeOK, LogIsNumbered
<1>3. CASE CompactSnapshot(r)
  <2>1. [work[r] EXCEPT !.pc = "compact", !.snap = room[r].replica] \in WorkState
    BY RoomParts DEF WorkState
  <2>2. work' = [work EXCEPT ![r] = [work[r] EXCEPT !.pc = "compact", !.snap = room[r].replica]]
    BY <1>3 DEF CompactSnapshot
  <2>3. work' \in [RoomIds -> WorkState]
    BY <2>1, <2>2 DEF Typed, RoomTypeOK
  <2>4. UNCHANGED <<log, lastSeq, archived, events, owed, resync, map, room, flusher, peer, live, frame, strained>>
    BY <1>3 DEF CompactSnapshot, dbVars, freezeVars
  <2> QED BY <2>3, <2>4 DEF Typed, RoomTypeOK, LogIsNumbered
<1>4. CASE CompactCommit(r)
  <2>1. /\ log' \in SUBSET Rows /\ lastSeq' \in Nat /\ strained' \in BOOLEAN
        /\ LogIsNumbered'
    BY <1>4, RoomParts, ReplaceTyped DEF CompactCommit
  <2>2. room' \in [RoomIds -> RoomState]
    BY <1>4 DEF CompactCommit, Typed, RoomTypeOK, RoomState
  <2>3. /\ peer' \in [Peers -> PeerState] /\ flusher' \in [RoomIds -> FlusherState]
        /\ work' \in [RoomIds -> WorkState]
    BY <1>4, ReleaseTyped DEF CompactCommit
  <2>4. UNCHANGED <<archived, events, owed, resync, map, live, frame>>
    BY <1>4 DEF CompactCommit, dbVars, freezeVars
  <2> QED BY <2>1, <2>2, <2>3, <2>4 DEF Typed, RoomTypeOK, LogIsNumbered
<1>5. CASE CompactRefused(r)
  <2>1. After(room[r].base) \in SUBSET Rows /\ \A q \in After(room[r].base) : q.seq <= lastSeq + room[r].base
    BY RoomParts DEF After, Typed, RoomTypeOK, LogIsNumbered, Rows
  <2>2. lastSeq + room[r].base \in Nat /\ room[r].base <= lastSeq + room[r].base
    BY RoomParts DEF Typed, RoomTypeOK
  <2>3. TopSeq(After(room[r].base), room[r].base) \in Nat
    BY <2>1, <2>2, RoomParts, TopSeqIsTop
  <2>4. Content(After(room[r].base)) \in SUBSET Edits
    BY <2>1, ContentType
  <2>5. \A sized \in BOOLEAN :
             [room[r] EXCEPT !.replica = room[r].replica \cup Content(After(room[r].base)),
                  !.base = TopSeq(After(room[r].base), room[r].base), !.own = 0,
                  !.escapeRefused = room[r].escapeRefused \/ sized] \in RoomState
    BY <2>3, <2>4, RoomParts DEF RoomState
  <2>6. PICK sized \in BOOLEAN : room' = [room EXCEPT ![r] =
             [room[r] EXCEPT !.replica = room[r].replica \cup Content(After(room[r].base)),
                  !.base = TopSeq(After(room[r].base), room[r].base), !.own = 0,
                  !.escapeRefused = room[r].escapeRefused \/ sized]]
    BY <1>5 DEF CompactRefused, NoGain
  <2>7. room' \in [RoomIds -> RoomState]
    BY <2>5, <2>6 DEF Typed, RoomTypeOK
  <2>8. /\ peer' \in [Peers -> PeerState] /\ flusher' \in [RoomIds -> FlusherState]
        /\ work' \in [RoomIds -> WorkState]
    BY <1>5, ReleaseTyped DEF CompactRefused
  <2>9. UNCHANGED <<log, lastSeq, archived, events, owed, resync, map, live, frame, strained>>
    BY <1>5 DEF CompactRefused, dbVars, freezeVars
  <2> QED BY <2>7, <2>8, <2>9 DEF Typed, RoomTypeOK, LogIsNumbered
<1>6. CASE ResetSnapshot(r)
  <2>1. [work[r] EXCEPT !.pc = "read", !.snap = room[r].replica] \in WorkState
    BY RoomParts DEF WorkState
  <2>2. work' = [work EXCEPT ![r] = [work[r] EXCEPT !.pc = "read", !.snap = room[r].replica]]
    BY <1>6 DEF ResetSnapshot
  <2>3. work' \in [RoomIds -> WorkState]
    BY <2>1, <2>2 DEF Typed, RoomTypeOK
  <2>4. UNCHANGED <<log, lastSeq, archived, events, owed, resync, map, room, flusher, peer, live, frame, strained>>
    BY <1>6 DEF ResetSnapshot, dbVars, freezeVars
  <2> QED BY <2>3, <2>4 DEF Typed, RoomTypeOK, LogIsNumbered
<1>7. CASE ResetRead(r)
  <2>1. work[r].by \in Peers /\ peer[work[r].by].hand # NoEdit
    BY <1>7 DEF ResetRead, PlaceInv, LockIsHeld, PeersAreSomewhere, Resetting, Peers
  <2>2. peer[work[r].by].hand \in Edits
    BY <2>1, PeerParts
  <2>3. After(room[r].base) \in SUBSET Rows
    BY DEF After, Typed, RoomTypeOK
  <2>4. work[r].snap \cup Content(After(room[r].base)) \cup {peer[work[r].by].hand} \in SUBSET Edits
    BY <2>2, <2>3, ContentType, RoomParts
  <2>5. [work[r] EXCEPT !.pc = "commit", !.seen = TopSeq(log, 0),
             !.state = work[r].snap \cup Content(After(room[r].base))
                       \cup {peer[work[r].by].hand}] \in WorkState
    BY <2>4, RoomParts, TopTyped DEF WorkState
  <2>6. work' = [work EXCEPT ![r] = [work[r] EXCEPT !.pc = "commit", !.seen = TopSeq(log, 0),
             !.state = work[r].snap \cup Content(After(room[r].base))
                       \cup {peer[work[r].by].hand}]]
    BY <1>7 DEF ResetRead
  <2>7. work' \in [RoomIds -> WorkState]
    BY <2>5, <2>6 DEF Typed, RoomTypeOK
  <2>8. UNCHANGED <<log, lastSeq, archived, events, owed, resync, map, room, flusher, peer, live, frame, strained>>
    BY <1>7 DEF ResetRead, dbVars, freezeVars
  <2> QED BY <2>7, <2>8 DEF Typed, RoomTypeOK, LogIsNumbered
<1>8. CASE ResetCommit(r)
  <2>1. /\ log' \in SUBSET Rows /\ lastSeq' \in Nat /\ strained' \in BOOLEAN
        /\ LogIsNumbered'
    BY <1>8, RoomParts, ReplaceTyped DEF ResetCommit
  <2>2. \A s \in SUBSET Edits, n \in Nat :
             [room[r] EXCEPT !.replica = s, !.base = n, !.own = 0, !.escapeRefused = FALSE,
                             !.overloaded = FALSE] \in RoomState
    BY RoomParts DEF RoomState
  <2>3. room[r].replica \cup work[r].state \in SUBSET Edits /\ lastSeq + 1 \in Nat
    BY RoomParts DEF Typed, RoomTypeOK
  <2>4. room' = [room EXCEPT ![r] =
             [room[r] EXCEPT !.replica = room[r].replica \cup work[r].state, !.base = lastSeq + 1,
             !.own = 0, !.escapeRefused = FALSE, !.overloaded = FALSE]]
    BY <1>8 DEF ResetCommit
  <2>5. room' \in [RoomIds -> RoomState]
    BY <2>2, <2>3, <2>4 DEF Typed, RoomTypeOK
  <2>6. peer' \in [Peers -> PeerState] /\ work' \in [RoomIds -> WorkState]
    BY <1>8, EndResetTyped DEF ResetCommit
  <2>7. UNCHANGED <<archived, events, owed, resync, map, flusher, live, frame>>
    BY <1>8 DEF ResetCommit, dbVars, freezeVars
  <2> QED BY <2>1, <2>5, <2>6, <2>7 DEF Typed, RoomTypeOK, LogIsNumbered
<1>9. CASE ResetRetry(r)
  <2>1. \A n \in Nat : [work[r] EXCEPT !.pc = "read", !.tries = n] \in WorkState
    BY RoomParts DEF WorkState
  <2>2. work[r].tries + 1 \in Nat
    BY RoomParts
  <2>3. work' = [work EXCEPT ![r] = [work[r] EXCEPT !.pc = "read", !.tries = work[r].tries + 1]]
    BY <1>9 DEF ResetRetry
  <2>4. work' \in [RoomIds -> WorkState]
    BY <2>1, <2>2, <2>3 DEF Typed, RoomTypeOK
  <2>5. UNCHANGED <<log, lastSeq, archived, events, owed, resync, map, room, flusher, peer, live, frame, strained>>
    BY <1>9 DEF ResetRetry, dbVars, freezeVars
  <2> QED BY <2>4, <2>5 DEF Typed, RoomTypeOK, LogIsNumbered
<1>10. CASE ResetRefused(r)
  <2>1. Requeued(room[r], work[r].batch) \in RoomState
    BY RoomParts DEF Requeued, RoomState
  <2>2. room' = [room EXCEPT ![r] = Requeued(room[r], work[r].batch)]
    BY <1>10 DEF ResetRefused
  <2>3. room' \in [RoomIds -> RoomState]
    BY <2>1, <2>2 DEF Typed, RoomTypeOK
  <2>4. peer' \in [Peers -> PeerState] /\ work' \in [RoomIds -> WorkState]
    BY <1>10, EndResetTyped DEF ResetRefused
  <2>5. UNCHANGED <<log, lastSeq, archived, events, owed, resync, map, flusher, live, frame, strained>>
    BY <1>10 DEF ResetRefused, dbVars, freezeVars
  <2> QED BY <2>3, <2>4, <2>5 DEF Typed, RoomTypeOK, LogIsNumbered
<1> QED BY <1>1, <1>2, <1>3, <1>4, <1>5, <1>6, <1>7, <1>8, <1>9, <1>10 DEF Holding

LEMMA RoundTyped ==
    ASSUME Typed, PlaceInv, NEW r \in RoomIds, Round(r)
    PROVE  Typed'
<1>1. CASE FlusherTick(r)
  <2>1. [pc |-> "asked", frozen |-> archived, moved |-> FALSE] \in FlusherState
    BY DEF FlusherState, Typed, RoomTypeOK
  <2>2. flusher' \in [RoomIds -> FlusherState]
    BY <1>1, <2>1 DEF FlusherTick, Typed, RoomTypeOK
  <2>3. room' = [room EXCEPT ![r].escapeRefused = FALSE] \/ room' = room
    BY <1>1 DEF FlusherTick
  <2>4. [room[r] EXCEPT !.escapeRefused = FALSE] \in RoomState
    BY RoomParts DEF RoomState
  <2>5. room' \in [RoomIds -> RoomState]
    BY <2>3, <2>4 DEF Typed, RoomTypeOK
  <2>6. UNCHANGED <<log, lastSeq, archived, events, owed, resync, map, work, peer, live, frame, strained>>
    BY <1>1 DEF FlusherTick, dbVars, freezeVars
  <2> QED BY <2>2, <2>5, <2>6 DEF Typed, RoomTypeOK, LogIsNumbered
<1>2. CASE FlusherPublish(r)
  <2>1. [Resting EXCEPT !.pc = "flush"] \in FlusherState
    BY StartTyped DEF FlusherState
  <2>2. flusher' \in [RoomIds -> FlusherState]
    BY <1>2, <2>1 DEF FlusherPublish, Typed, RoomTypeOK
  <2>3. flusher[r].frozen \in BOOLEAN
    BY RoomParts DEF FlusherState
  <2>4. [room[r] EXCEPT !.frozen = IF flusher[r].moved THEN room[r].frozen ELSE flusher[r].frozen]
             \in RoomState
    BY <2>3, RoomParts DEF RoomState
  <2>5. room' = [room EXCEPT ![r] =
             [room[r] EXCEPT !.frozen = IF flusher[r].moved THEN room[r].frozen
                                        ELSE flusher[r].frozen]]
    BY <1>2 DEF FlusherPublish
  <2>6. room' \in [RoomIds -> RoomState]
    BY <2>4, <2>5 DEF Typed, RoomTypeOK
  <2>7. UNCHANGED <<log, lastSeq, archived, events, owed, resync, map, work, peer, live, frame, strained>>
    BY <1>2 DEF FlusherPublish, dbVars, freezeVars
  <2> QED BY <2>2, <2>6, <2>7 DEF Typed, RoomTypeOK, LogIsNumbered
<1>3. CASE FlusherStays(r)
  <2>1. flusher' \in [RoomIds -> FlusherState]
    BY <1>3 DEF FlusherStays, Typed, RoomTypeOK, FlusherState
  <2>2. UNCHANGED <<log, lastSeq, archived, events, owed, resync, map, room, work, peer, live, frame, strained>>
    BY <1>3 DEF FlusherStays, dbVars, freezeVars
  <2> QED BY <2>1, <2>2 DEF Typed, RoomTypeOK, LogIsNumbered
<1>4. CASE FlusherQuits(r)
  <2>1. flusher' \in [RoomIds -> FlusherState]
    BY <1>4 DEF FlusherQuits, Typed, RoomTypeOK, FlusherState
  <2>2. map' \in RoomIds \cup {NoRoom}
    BY <1>4 DEF FlusherQuits
  <2>3. UNCHANGED <<log, lastSeq, archived, events, owed, resync, room, work, peer, live, frame, strained>>
    BY <1>4 DEF FlusherQuits, dbVars, freezeVars
  <2> QED BY <2>1, <2>2, <2>3 DEF Typed, RoomTypeOK, LogIsNumbered
<1>5. CASE Drop(r)
  <2>1. flusher' \in [RoomIds -> FlusherState]
    BY <1>5, StartTyped DEF Drop, Typed, RoomTypeOK
  <2>2. room' \in [RoomIds -> RoomState]
    BY <1>5, StartTyped DEF Drop, Typed, RoomTypeOK
  <2>3. resync' \in ResyncState
    BY <1>5 DEF Drop, Typed, RoomTypeOK, ResyncState
  <2>4. UNCHANGED <<log, lastSeq, archived, events, owed, map, work, peer, live, frame, strained>>
    BY <1>5 DEF Drop, dbVars, freezeVars
  <2> QED BY <2>1, <2>2, <2>3, <2>4 DEF Typed, RoomTypeOK, LogIsNumbered
<1> QED BY <1>1, <1>2, <1>3, <1>4, <1>5 DEF Round

LEMMA PeerTyped ==
    ASSUME Typed, PlaceInv, NEW p \in Peers, Finish(p) \/ Hangup(p) \/ AskSaved(p) \/ Reply(p)
           \/ Recheck(p) \/ EndSession(p)
    PROVE  Typed'
<1>1. CASE Push(p)
  <2>1. PICK then \in {"persist", "parted", "in"} :
             peer' = [peer EXCEPT ![p].hand = NoEdit, ![p].pc = then]
    BY <1>1 DEF Push
  <2>2. [peer[p] EXCEPT !.hand = NoEdit, !.pc = then] \in PeerState
    BY PeerParts DEF PeerState
  <2>3. peer' = [peer EXCEPT ![p] = [peer[p] EXCEPT !.hand = NoEdit, !.pc = then]]
    BY <2>1
  <2>4. peer' \in [Peers -> PeerState]
    BY <2>2, <2>3 DEF Typed, RoomTypeOK
  <2>5. peer[p].hand \in Edits
    BY <1>1, PeerParts DEF Push
  <2>6. \A r \in RoomIds : [room[r] EXCEPT !.pending = room[r].pending \cup {peer[p].hand}] \in RoomState
    BY <2>5, RoomParts DEF RoomState
  <2>7. room' = [room EXCEPT ![peer[p].room] =
                [room[peer[p].room] EXCEPT !.pending = room[peer[p].room].pending \cup {peer[p].hand}]]
    BY <1>1 DEF Push
  <2>8. room' \in [RoomIds -> RoomState]
    BY <2>6, <2>7 DEF Typed, RoomTypeOK
  <2>9. UNCHANGED <<log, lastSeq, archived, events, owed, resync, map, work, flusher, live, frame, strained>>
    BY <1>1 DEF Push, dbVars, freezeVars
  <2> QED BY <2>4, <2>8, <2>9 DEF Typed, RoomTypeOK, LogIsNumbered
<1>2. CASE Leave(p)
  <2>1. peer' \in [Peers -> PeerState]
    BY <1>2, StartTyped DEF Leave, Typed, RoomTypeOK
  <2>2. frame' \in [Edits -> {"none", "dropped", "taken"}]
    BY <1>2 DEF Leave, Typed, RoomTypeOK
  <2>3. UNCHANGED <<log, lastSeq, archived, events, owed, resync, map, room, work, flusher, live, strained>>
    BY <1>2 DEF Leave, dbVars, freezeVars
  <2> QED BY <2>1, <2>2, <2>3 DEF Typed, RoomTypeOK, LogIsNumbered
<1>3. CASE Hangup(p)
  <2>1. peer' \in [Peers -> PeerState]
    BY <1>3 DEF Hangup, Parting, Typed, RoomTypeOK, PeerState
  <2>2. UNCHANGED <<log, lastSeq, archived, events, owed, resync, map, room, work, flusher, live, frame, strained>>
    BY <1>3 DEF Hangup, dbVars, freezeVars
  <2> QED BY <2>1, <2>2 DEF Typed, RoomTypeOK, LogIsNumbered
<1>4. CASE AskSaved(p)
  <2>1. peer' \in [Peers -> PeerState]
    BY <1>4 DEF AskSaved, Parting, Typed, RoomTypeOK, PeerState
  <2>2. UNCHANGED <<log, lastSeq, archived, events, owed, resync, map, room, work, flusher, live, frame, strained>>
    BY <1>4 DEF AskSaved, dbVars, freezeVars
  <2> QED BY <2>1, <2>2 DEF Typed, RoomTypeOK, LogIsNumbered
<1>5. CASE Reply(p)
  <2>1. PICK pc \in {"acked", "in"} : peer' = [peer EXCEPT ![p].pc = pc]
    BY <1>5 DEF Reply
  <2>2. peer' \in [Peers -> PeerState]
    BY <2>1 DEF Typed, RoomTypeOK, PeerState
  <2>3. UNCHANGED <<log, lastSeq, archived, events, owed, resync, map, room, work, flusher, live, frame, strained>>
    BY <1>5 DEF Reply, dbVars, freezeVars
  <2> QED BY <2>2, <2>3 DEF Typed, RoomTypeOK, LogIsNumbered
<1>6. CASE Recheck(p)
  <2>1. peer' \in [Peers -> PeerState]
    BY <1>6 DEF Recheck, Parting, Typed, RoomTypeOK, PeerState
  <2>2. UNCHANGED <<log, lastSeq, archived, events, owed, resync, map, room, work, flusher, live, frame, strained>>
    BY <1>6 DEF Recheck, dbVars, freezeVars
  <2> QED BY <2>1, <2>2 DEF Typed, RoomTypeOK, LogIsNumbered
<1>7. CASE EndSession(p)
  <2>1. events' \in Nat
    BY <1>7 DEF EndSession, Counted, Typed, RoomTypeOK
  <2>2. live' \in [Sockets -> BOOLEAN]
    BY <1>7 DEF EndSession, Typed, RoomTypeOK
  <2>3. UNCHANGED <<log, lastSeq, archived, owed, resync, map, room, work, flusher, peer, frame, strained>>
    BY <1>7 DEF EndSession, dbVars, freezeVars
  <2> QED BY <2>1, <2>2, <2>3 DEF Typed, RoomTypeOK, LogIsNumbered
<1> QED BY <1>1, <1>2, <1>3, <1>4, <1>5, <1>6, <1>7 DEF Finish

-----------------------------------------------------------------------------
(* Places.  Most steps leave every peer in its room.                         *)

Inside == {"in", "acked", "check"}

Calm(q) ==
    /\ peer'[q].room = peer[q].room
    /\ \/ peer'[q].pc = peer[q].pc /\ peer'[q].hand = peer[q].hand
       \/ peer[q].pc \in Joining /\ peer'[q].pc \in Joining /\ peer'[q].hand = NoEdit
       \/ /\ peer[q].pc \in Inside
          /\ peer'[q].pc \in {"in", "acked", "barrier", "persist", "parting", "parted"}
          /\ peer'[q].hand # NoEdit => peer'[q].pc = "in" /\ peer'[q].hand \in Own(q)

LEMMA CalmKeepsPlace ==
    ASSUME Typed, PlaceInv, map' = map, work' = work, strained => strained',
           \A r \in RoomIds : flusher'[r].pc = flusher[r].pc,
           \A q \in Peers : Calm(q)
    PROVE  PlaceInv'
<1>1. OneReplica' /\ RoundsAreMapped' /\ OneRoom'
  BY DEF PlaceInv, OneReplica, RoundsAreMapped, OneRoom, Calm
<1>2. LockIsHeld'
  <2> SUFFICES ASSUME NEW r \in RoomIds
               PROVE  /\ work[r].pc = "idle" => work[r] = Idle
                      /\ work[r].pc \in Flushing => Waits(r, work[r].by)'
                      /\ work[r].pc \in Resetting =>
                            /\ work[r].by \in Callers
                            /\ peer'[work[r].by].room = r /\ peer'[work[r].by].pc = "reset"
    BY DEF LockIsHeld
  <2>1. work[r].by \in Peers \/ work[r].by = Flusher
    BY RoomParts DEF Locks
  <2>2. ASSUME work[r].pc \in Flushing PROVE Waits(r, work[r].by)'
    BY <2>1, <2>2 DEF PlaceInv, LockIsHeld, Waits, Calm, Inside, Joining
  <2>3. ASSUME work[r].pc \in Resetting
        PROVE  /\ work[r].by \in Callers
               /\ peer'[work[r].by].room = r /\ peer'[work[r].by].pc = "reset"
    BY <2>3, RoomAssumption DEF PlaceInv, LockIsHeld, Calm, Inside, Joining, Peers
  <2> QED BY <2>2, <2>3 DEF PlaceInv, LockIsHeld
<1>3. PeersAreSomewhere'
  BY DEF PlaceInv, PeersAreSomewhere, Calm, Inside, Joining
<1> QED BY <1>1, <1>2, <1>3 DEF PlaceInv

\* A peer enters the room of the map.
LEMMA EntryKeepsPlace ==
    ASSUME Typed, PlaceInv, NEW p \in Peers, map # NoRoom, UNCHANGED <<map, work, flusher, strained>>,
           peer[p].pc \in Joining,
           peer' = [peer EXCEPT ![p] = [Out EXCEPT !.pc = "in", !.room = map]]
    PROVE  PlaceInv'
<1>1. /\ peer'[p].pc = "in" /\ peer'[p].room = map /\ peer'[p].hand = NoEdit
      /\ \A q \in Peers \ {p} : peer'[q] = peer[q]
  BY DEF Typed, RoomTypeOK, Out
<1>2. OneReplica' /\ RoundsAreMapped' /\ OneRoom'
  BY <1>1 DEF PlaceInv, OneReplica, RoundsAreMapped, OneRoom
<1>3. \A r \in RoomIds : work[r].by = p => work[r].pc = "idle"
  <2> SUFFICES ASSUME NEW r \in RoomIds, work[r].by = p PROVE work[r].pc = "idle"
    OBVIOUS
  <2>1. ~Waits(r, p) /\ peer[p].pc # "reset"
    BY RoomAssumption DEF Waits, Joining
  <2>2. work[r].pc \in {"idle"} \cup Resetting \cup Flushing
    BY RoomParts DEF WorkState, Flushing, Resetting
  <2> QED BY <2>1, <2>2 DEF PlaceInv, LockIsHeld
<1>4. LockIsHeld'
  <2> SUFFICES ASSUME NEW r \in RoomIds
               PROVE  /\ work[r].pc = "idle" => work[r] = Idle
                      /\ work[r].pc \in Flushing => Waits(r, work[r].by)'
                      /\ work[r].pc \in Resetting =>
                            /\ work[r].by \in Callers
                            /\ peer'[work[r].by].room = r /\ peer'[work[r].by].pc = "reset"
    BY DEF LockIsHeld
  <2>1. work[r].by \in Peers \/ work[r].by = Flusher
    BY RoomParts DEF Locks
  <2>2. ASSUME work[r].pc \in Flushing PROVE Waits(r, work[r].by)'
    BY <2>1, <2>2, <1>1, <1>3 DEF PlaceInv, LockIsHeld, Waits, Flushing
  <2>3. ASSUME work[r].pc \in Resetting
        PROVE  /\ work[r].by \in Callers
               /\ peer'[work[r].by].room = r /\ peer'[work[r].by].pc = "reset"
    BY <2>3, <1>1, <1>3 DEF PlaceInv, LockIsHeld, Peers, Resetting
  <2> QED BY <2>2, <2>3 DEF PlaceInv, LockIsHeld
<1>5. PeersAreSomewhere'
  BY <1>1 DEF PlaceInv, PeersAreSomewhere, Joining
<1> QED BY <1>2, <1>4, <1>5 DEF PlaceInv

\* What is to show of the locks.
HeldRightly(r) ==
    /\ work'[r].pc = "idle" => work'[r] = Idle
    /\ work'[r].pc \in Flushing => Waits(r, work[r].by)'
    /\ work'[r].pc \in Resetting =>
          /\ work'[r].by \in Callers
          /\ peer'[work'[r].by].room = r /\ peer'[work'[r].by].pc = "reset"

\* The holder of a lock takes or keeps it.
LEMMA LockKeepsPlace ==
    ASSUME Typed, PlaceInv, UNCHANGED <<map, flusher, peer>>, strained => strained',
           NEW r \in RoomIds, NEW w, work' = [work EXCEPT ![r] = w],
           \/ w.pc \in Flushing /\ Waits(r, w.by) /\ work[r].pc \notin Resetting
           \/ w.pc \in Resetting /\ work[r].pc \in Resetting /\ w.by = work[r].by
    PROVE  PlaceInv'
<1>1. OneReplica' /\ RoundsAreMapped' /\ OneRoom'
  BY DEF PlaceInv, OneReplica, RoundsAreMapped, OneRoom
<1>2. work'[r] = w /\ \A q \in RoomIds \ {r} : work'[q] = work[q]
  BY DEF Typed, RoomTypeOK
<1>3. ASSUME NEW q \in RoomIds PROVE HeldRightly(q)
  <2>1. CASE q = r
    BY <1>2, <2>1 DEF HeldRightly, PlaceInv, LockIsHeld, Waits, Flushing, Resetting
  <2>2. CASE q # r
    BY <1>2, <2>2 DEF HeldRightly, PlaceInv, LockIsHeld, Waits
  <2> QED BY <2>1, <2>2
<1>4. LockIsHeld'
  BY <1>3 DEF LockIsHeld, HeldRightly
<1>5. PeersAreSomewhere'
  <2> SUFFICES ASSUME NEW p \in Peers
               PROVE  peer[p].pc = "reset" => /\ peer[p].hand # NoEdit
                                              /\ work'[peer[p].room].by = p
                                              /\ work'[peer[p].room].pc \in Resetting
    BY DEF PlaceInv, PeersAreSomewhere
  <2>1. peer[p].pc = "reset" => peer[p].room \in RoomIds
    BY PeerParts DEF PlaceInv, PeersAreSomewhere, Joining
  <2> QED BY <1>2, <2>1 DEF PlaceInv, PeersAreSomewhere
<1> QED BY <1>1, <1>4, <1>5 DEF PlaceInv

\* A flush returns, with the lock free.
LEMMA ReturnKeepsPlace ==
    ASSUME Typed, PlaceInv, map' = map, strained => strained',
           NEW r \in RoomIds, NEW q \in Locks, Waits(r, q), Return(r, q),
           work[r].pc \notin Resetting, work' = [work EXCEPT ![r] = Idle]
    PROVE  PlaceInv'
<1>1. work'[r] = Idle /\ \A s \in RoomIds \ {r} : work'[s] = work[s]
  BY DEF Typed, RoomTypeOK
<1>2. Idle.pc = "idle" /\ "idle" \notin Flushing /\ "idle" \notin Resetting
  BY DEF Idle, Flushing, Resetting
<1>3. CASE q = Flusher
  <2>1. /\ peer' = peer /\ \A s \in RoomIds \ {r} : flusher'[s] = flusher[s]
        /\ \/ flusher[r].pc = "flush" /\ flusher'[r].pc = "check"
           \/ flusher[r].pc = "last" /\ flusher'[r].pc = "done"
    <3>1. flusher \in [RoomIds -> FlusherState]
      BY DEF Typed, RoomTypeOK
    <3> QED BY <1>3, <3>1 DEF Waits, Return, FlusherState
  <2>2. OneReplica' /\ RoundsAreMapped' /\ OneRoom'
    BY <2>1 DEF PlaceInv, OneReplica, RoundsAreMapped, OneRoom, Busy
  <2>3. ASSUME NEW s \in RoomIds PROVE HeldRightly(s)
    <3>1. CASE s = r
      BY <1>1, <1>2, <3>1 DEF HeldRightly
    <3>2. CASE s # r
      BY <1>1, <2>1, <3>2 DEF HeldRightly, PlaceInv, LockIsHeld, Waits
    <3> QED BY <3>1, <3>2
  <2>4. LockIsHeld'
    BY <2>3 DEF LockIsHeld, HeldRightly
  <2>5. PeersAreSomewhere'
    <3> SUFFICES ASSUME NEW p \in Peers
                 PROVE  peer[p].pc = "reset" => /\ peer[p].hand # NoEdit
                                                /\ work'[peer[p].room].by = p
                                                /\ work'[peer[p].room].pc \in Resetting
      BY <2>1 DEF PlaceInv, PeersAreSomewhere
    <3>1. peer[p].pc = "reset" => peer[p].room \in RoomIds
      BY PeerParts DEF PlaceInv, PeersAreSomewhere, Joining
    <3> QED BY <1>1, <3>1 DEF PlaceInv, PeersAreSomewhere
  <2> QED BY <2>2, <2>4, <2>5 DEF PlaceInv
<1>4. CASE q # Flusher
  <2>1. /\ flusher' = flusher /\ \A p \in Peers \ {q} : peer'[p] = peer[p]
        /\ q \in Peers /\ peer[q].room = r /\ peer[q].pc \in {"barrier", "persist", "parting"}
        /\ peer'[q].room = r /\ peer'[q].hand = peer[q].hand
        /\ peer'[q].pc \in {"check", "parted"}
    <3>1. peer \in [Peers -> PeerState] /\ q \in Peers
      BY <1>4 DEF Typed, RoomTypeOK, Locks
    <3> QED BY <1>4, <3>1 DEF Waits, Return, PeerState
  <2>2. OneReplica' /\ RoundsAreMapped' /\ OneRoom'
    BY <2>1 DEF PlaceInv, OneReplica, RoundsAreMapped, OneRoom
  <2>3. ASSUME NEW s \in RoomIds PROVE HeldRightly(s)
    <3>1. CASE s = r
      BY <1>1, <1>2, <3>1 DEF HeldRightly
    <3>2. CASE s # r
      <4>1. work[s].by \in Locks
        BY RoomParts
      <4>2. CASE work[s].by = q
        <5>1. ~Waits(s, q) /\ peer[q].pc # "reset"
          BY <1>4, <2>1, <3>2 DEF Waits
        <5> QED BY <1>1, <3>2, <4>2, <5>1 DEF HeldRightly, PlaceInv, LockIsHeld
      <4>3. CASE work[s].by # q
        <5>1. work'[s] = work[s]
          BY <1>1, <3>2
        <5>2. work[s].pc \in Flushing => Waits(s, work[s].by)'
          BY <2>1, <4>1, <4>3, <5>1 DEF PlaceInv, LockIsHeld, Waits, Locks
        <5>3. work[s].pc \in Resetting => peer'[work[s].by] = peer[work[s].by]
          BY <2>1, <4>3 DEF PlaceInv, LockIsHeld, Peers
        <5> QED BY <5>1, <5>2, <5>3 DEF HeldRightly, PlaceInv, LockIsHeld
      <4> QED BY <4>2, <4>3
    <3> QED BY <3>1, <3>2
  <2>4. LockIsHeld'
    BY <2>3 DEF LockIsHeld, HeldRightly
  <2>5. ASSUME NEW p \in Peers
        PROVE  /\ peer'[p].pc \in Joining <=> peer'[p].room = NoRoom
               /\ peer'[p].hand # NoEdit => peer'[p].pc \in {"in", "reset"} /\ peer'[p].hand \in Own(p)
               /\ peer'[p].pc = "reset" => /\ peer'[p].hand # NoEdit
                                           /\ work'[peer'[p].room].by = p
                                           /\ work'[peer'[p].room].pc \in Resetting
    <3>1. CASE p = q
      BY <2>1, <3>1, RoomAssumption DEF PlaceInv, PeersAreSomewhere, Joining
    <3>2. CASE p # q
      <4>1. peer[p].pc = "reset" => peer[p].room \in RoomIds
        BY PeerParts DEF PlaceInv, PeersAreSomewhere, Joining
      <4> QED BY <1>1, <2>1, <3>2, <4>1 DEF PlaceInv, PeersAreSomewhere
    <3> QED BY <3>1, <3>2
  <2>6. PeersAreSomewhere'
    BY <2>5 DEF PeersAreSomewhere
  <2> QED BY <2>2, <2>4, <2>6 DEF PlaceInv
<1> QED BY <1>3, <1>4

\* A flush of whoever holds the lock returns.
LEMMA ReleaseKeepsPlace ==
    ASSUME Typed, PlaceInv, map' = map, strained => strained',
           NEW r \in RoomIds, work[r].pc \in Flushing, Release(r)
    PROVE  PlaceInv'
<1>1. work[r].by \in Locks /\ Waits(r, work[r].by)
  BY RoomParts DEF PlaceInv, LockIsHeld
<1>2. work[r].pc \notin Resetting
  BY DEF Flushing, Resetting
<1> QED BY <1>1, <1>2, ReturnKeepsPlace DEF Release

\* A reset ends, taken or refused.
LEMMA EndResetKeepsPlace ==
    ASSUME Typed, PlaceInv, UNCHANGED <<map, flusher>>, strained => strained',
           NEW r \in RoomIds, work[r].pc \in Resetting, EndReset(r)
    PROVE  PlaceInv'
<1> DEFINE p == work[r].by
<1>1. /\ p \in Peers /\ p # Flusher
      /\ peer[p].room = r /\ peer[p].pc = "reset"
  BY RoomAssumption DEF PlaceInv, LockIsHeld, Peers
<1>2. work'[r] = Idle /\ \A s \in RoomIds \ {r} : work'[s] = work[s]
  BY DEF EndReset, Typed, RoomTypeOK
<1>3. /\ \A q \in Peers \ {p} : peer'[q] = peer[q]
      /\ peer'[p].room = r /\ peer'[p].pc = "parted" /\ peer'[p].hand = NoEdit
  <2>1. peer \in [Peers -> PeerState]
    BY DEF Typed, RoomTypeOK
  <2> QED BY <1>1, <2>1 DEF EndReset, PeerState
<1>4. Idle.pc = "idle" /\ "idle" \notin Flushing /\ "idle" \notin Resetting
  BY DEF Idle, Flushing, Resetting
<1>5. \A q \in Peers : peer'[q].room = peer[q].room
  BY <1>1, <1>3
<1> HIDE DEF p
<1>6. OneReplica' /\ RoundsAreMapped' /\ OneRoom'
  BY <1>5 DEF PlaceInv, OneReplica, RoundsAreMapped, OneRoom
<1>7. ASSUME NEW s \in RoomIds PROVE HeldRightly(s)
  <2>1. CASE s = r
    BY <1>2, <1>4, <2>1 DEF HeldRightly
  <2>2. CASE s # r
    <3>1. work'[s] = work[s] /\ work[s].by \in Peers \cup {Flusher}
      BY <1>2, <2>2, RoomParts DEF Locks
    <3>2. work[s].pc \in Resetting \cup Flushing => work[s].by # p
      BY <1>1, <2>2 DEF PlaceInv, LockIsHeld, Waits
    <3>3. work[s].pc \in Flushing => Waits(s, work[s].by)'
      BY <1>3, <3>1, <3>2 DEF PlaceInv, LockIsHeld, Waits
    <3>4. work[s].pc \in Resetting => peer'[work[s].by] = peer[work[s].by]
      BY <1>3, <3>2 DEF PlaceInv, LockIsHeld, Peers
    <3> QED BY <3>1, <3>3, <3>4 DEF HeldRightly, PlaceInv, LockIsHeld
  <2> QED BY <2>1, <2>2
<1>8. LockIsHeld'
  BY <1>7 DEF LockIsHeld, HeldRightly
<1>9. ASSUME NEW q \in Peers
      PROVE  /\ peer'[q].pc \in Joining <=> peer'[q].room = NoRoom
             /\ peer'[q].hand # NoEdit => peer'[q].pc \in {"in", "reset"} /\ peer'[q].hand \in Own(q)
             /\ peer'[q].pc = "reset" => /\ peer'[q].hand # NoEdit
                                         /\ work'[peer'[q].room].by = q
                                         /\ work'[peer'[q].room].pc \in Resetting
  <2>1. CASE q = p
    BY <1>3, <2>1, RoomAssumption DEF Joining
  <2>2. CASE q # p
    <3>1. peer[q].pc = "reset" => peer[q].room \in RoomIds \ {r}
      <4>1. peer[q].pc = "reset" => peer[q].room \in RoomIds /\ work[peer[q].room].by = q
        BY PeerParts DEF PlaceInv, PeersAreSomewhere, Joining
      <4> QED BY <4>1, <2>2 DEF p
    <3> QED BY <1>2, <1>3, <2>2, <3>1 DEF PlaceInv, PeersAreSomewhere
  <2> QED BY <2>1, <2>2
<1>10. PeersAreSomewhere'
  BY <1>9 DEF PeersAreSomewhere
<1> QED BY <1>6, <1>8, <1>10 DEF PlaceInv

\* A flusher goes on with its round.
LEMMA RoundKeepsPlace ==
    ASSUME Typed, PlaceInv, UNCHANGED <<map, work, peer>>, strained => strained',
           NEW r \in RoomIds, flusher[r].pc \in Busy, flusher'[r].pc \in Busy,
           flusher[r].pc # "flush", \A s \in RoomIds \ {r} : flusher'[s] = flusher[s]
    PROVE  PlaceInv'
<1>1. OneReplica' /\ RoundsAreMapped' /\ OneRoom'
  BY DEF PlaceInv, OneReplica, RoundsAreMapped, OneRoom, Busy
<1>2. ASSUME NEW s \in RoomIds PROVE HeldRightly(s)
  BY DEF HeldRightly, PlaceInv, LockIsHeld, Waits, Busy
<1>3. LockIsHeld'
  BY <1>2 DEF LockIsHeld, HeldRightly
<1>4. PeersAreSomewhere'
  BY DEF PlaceInv, PeersAreSomewhere
<1> QED BY <1>1, <1>3, <1>4 DEF PlaceInv

\* A flusher ends: it takes the empty room out of the map, or lets go of it.
LEMMA EndKeepsPlace ==
    ASSUME Typed, PlaceInv, UNCHANGED <<work, peer>>, strained => strained',
           NEW r \in RoomIds, \A s \in RoomIds \ {r} : flusher'[s].pc = flusher[s].pc,
           \/ flusher[r].pc = "check" /\ PeersOf(r) = {} /\ flusher'[r].pc = "last"
              /\ map' = NoRoom
           \/ flusher[r].pc = "done" /\ flusher'[r].pc = "free" /\ map' = map
    PROVE  PlaceInv'
<1>1. OneReplica'
  <2>1. CASE map' = map
    BY <2>1 DEF PlaceInv, OneReplica
  <2>2. CASE flusher[r].pc = "check" /\ PeersOf(r) = {} /\ map' = NoRoom
    BY <2>2 DEF PlaceInv, OneReplica, RoundsAreMapped, Busy, PeersOf
  <2> QED BY <2>1, <2>2
<1>2. RoundsAreMapped'
  BY RoomAssumption DEF PlaceInv, RoundsAreMapped, Busy
<1>3. OneRoom'
  BY DEF PlaceInv, OneRoom
<1>4. ASSUME NEW s \in RoomIds PROVE HeldRightly(s)
  BY DEF HeldRightly, PlaceInv, LockIsHeld, Waits
<1>5. LockIsHeld'
  BY <1>4 DEF LockIsHeld, HeldRightly
<1>6. PeersAreSomewhere'
  BY DEF PlaceInv, PeersAreSomewhere
<1> QED BY <1>1, <1>2, <1>3, <1>5, <1>6 DEF PlaceInv

\* What was strained stays so.
LEMMA StrainStays ==
    ASSUME NEW edits, LogAppend(edits) \/ Replace(edits)
    PROVE  strained => strained'
<1>1. NextSeq
  BY DEF LogAppend, Replace
<1> QED BY <1>1 DEF NextSeq

LEMMA InstallKeepsPlace ==
    ASSUME Typed, PlaceInv, NEW p \in Peers, Install(p)
    PROVE  PlaceInv'
<1>1. PICK r \in RoomIds :
        /\ flusher[r].pc = "free" /\ map' = r
        /\ strained' = (strained \/ \E q \in RoomIds : flusher[q].pc # "free")
        /\ flusher' = [flusher EXCEPT ![r].pc = "tick"]
        /\ peer' = [peer EXCEPT ![p] = [Out EXCEPT !.pc = "in", !.room = r]]
        /\ work' = work /\ map = NoRoom /\ peer[p].pc = "asked"
  BY DEF Install
<1>2. /\ peer'[p].pc = "in" /\ peer'[p].room = r /\ peer'[p].hand = NoEdit
      /\ \A q \in Peers \ {p} : peer'[q] = peer[q] /\ peer[q].room = NoRoom
      /\ peer[p].room = NoRoom
  BY <1>1 DEF Typed, RoomTypeOK, Out, PlaceInv, OneReplica
<1>3. flusher'[r].pc = "tick" /\ \A s \in RoomIds \ {r} : flusher'[s] = flusher[s]
  BY <1>1 DEF Typed, RoomTypeOK, FlusherState
<1>4. OneReplica' /\ RoundsAreMapped' /\ OneRoom'
  <2>1. OneReplica'
    BY <1>1, <1>2 DEF OneReplica
  <2>2. RoundsAreMapped'
    BY <1>1, <1>3, RoomAssumption DEF PlaceInv, RoundsAreMapped, Busy
  <2>3. OneRoom'
    BY <1>1, <1>3 DEF OneRoom
  <2> QED BY <2>1, <2>2, <2>3
<1>5. ASSUME NEW s \in RoomIds PROVE HeldRightly(s)
  <2>1. work[s].by \in Peers \cup {Flusher}
    BY RoomParts DEF Locks
  <2>2. \A q \in Peers : peer[q].room # s
    BY <1>2, RoomAssumption
  <2>3. work[s].pc \notin Resetting
    BY <2>2 DEF PlaceInv, LockIsHeld, Peers
  <2>4. work[s].pc \in Flushing => work[s].by = Flusher /\ s # r
    BY <1>1, <2>1, <2>2 DEF PlaceInv, LockIsHeld, Waits
  <2> QED BY <1>1, <1>3, <2>3, <2>4 DEF HeldRightly, PlaceInv, LockIsHeld, Waits
<1>6. LockIsHeld'
  BY <1>5 DEF LockIsHeld, HeldRightly
<1>7. PeersAreSomewhere'
  BY <1>1, <1>2, RoomAssumption DEF PlaceInv, PeersAreSomewhere, Joining
<1> QED BY <1>4, <1>6, <1>7 DEF PlaceInv

LEMMA LeaveKeepsPlace ==
    ASSUME Typed, PlaceInv, NEW p \in Peers, Leave(p)
    PROVE  PlaceInv'
<1>1. /\ peer[p].pc = "parted" /\ UNCHANGED <<map, work, flusher, strained>>
      /\ peer' = [peer EXCEPT ![p] = Out]
  BY DEF Leave
<1>2. /\ peer'[p].pc = "out" /\ peer'[p].room = NoRoom /\ peer'[p].hand = NoEdit
      /\ \A q \in Peers \ {p} : peer'[q] = peer[q]
  BY <1>1 DEF Typed, RoomTypeOK, Out
<1>3. OneReplica' /\ RoundsAreMapped' /\ OneRoom'
  BY <1>1, <1>2 DEF PlaceInv, OneReplica, RoundsAreMapped, OneRoom
<1>4. ASSUME NEW s \in RoomIds PROVE HeldRightly(s)
  <2>1. work[s].by \in Peers \cup {Flusher}
    BY RoomParts DEF Locks
  <2>2. work[s].pc \in Flushing \cup Resetting => work[s].by # p
    BY <1>1, RoomAssumption DEF PlaceInv, LockIsHeld, Waits
  <2>3. work[s].pc \in Flushing => Waits(s, work[s].by)'
    BY <1>1, <1>2, <2>1, <2>2 DEF PlaceInv, LockIsHeld, Waits
  <2>4. work[s].pc \in Resetting => peer'[work[s].by] = peer[work[s].by]
    BY <1>2, <2>2 DEF PlaceInv, LockIsHeld, Peers
  <2> QED BY <1>1, <2>3, <2>4 DEF HeldRightly, PlaceInv, LockIsHeld
<1>5. LockIsHeld'
  BY <1>4 DEF LockIsHeld, HeldRightly
<1>6. PeersAreSomewhere'
  BY <1>1, <1>2 DEF PlaceInv, PeersAreSomewhere, Joining
<1> QED BY <1>3, <1>5, <1>6 DEF PlaceInv

LEMMA ResetTakeKeepsPlace ==
    ASSUME Typed, PlaceInv, NEW p \in Peers, NEW e \in Edits, ResetTake(p, e)
    PROVE  PlaceInv'
<1> DEFINE r == peer[p].room
<1>1. /\ p \in Callers /\ peer[p].pc = "in" /\ e \in Own(p) /\ work[r].pc = "idle"
      /\ UNCHANGED <<map, flusher, strained>>
  BY DEF ResetTake
<1>2. r \in RoomIds
  BY <1>1, PeerParts DEF PlaceInv, PeersAreSomewhere, Joining
<1>3. /\ work'[r].pc = "reset" /\ work'[r].by = p
      /\ \A s \in RoomIds \ {r} : work'[s] = work[s]
  BY <1>2 DEF ResetTake, Typed, RoomTypeOK, Idle
<1>4. /\ peer'[p].pc = "reset" /\ peer'[p].room = r /\ peer'[p].hand = e
      /\ \A q \in Peers \ {p} : peer'[q] = peer[q]
  <2>1. peer \in [Peers -> PeerState]
    BY DEF Typed, RoomTypeOK
  <2> QED BY <2>1 DEF ResetTake, PeerState
<1> HIDE DEF r
<1>5. peer[p].room = r
  BY DEF r
<1>6. OneReplica' /\ RoundsAreMapped' /\ OneRoom'
  BY <1>1, <1>4, <1>5 DEF PlaceInv, OneReplica, RoundsAreMapped, OneRoom
<1>7. ASSUME NEW s \in RoomIds PROVE HeldRightly(s)
  <2>1. CASE s = r
    BY <1>1, <1>3, <1>4, <2>1 DEF HeldRightly, Flushing, Resetting
  <2>2. CASE s # r
    <3>1. work[s].by \in Peers \cup {Flusher}
      BY RoomParts DEF Locks
    <3>2. work[s].pc \in Flushing \cup Resetting => work[s].by # p
      BY <1>1, RoomAssumption DEF PlaceInv, LockIsHeld, Waits
    <3>3. work[s].pc \in Flushing => Waits(s, work[s].by)'
      BY <1>1, <1>3, <1>4, <2>2, <3>1, <3>2 DEF PlaceInv, LockIsHeld, Waits
    <3>4. work[s].pc \in Resetting => peer'[work[s].by] = peer[work[s].by]
      BY <1>4, <3>2 DEF PlaceInv, LockIsHeld, Peers
    <3> QED BY <1>3, <2>2, <3>3, <3>4 DEF HeldRightly, PlaceInv, LockIsHeld
  <2> QED BY <2>1, <2>2
<1>8. LockIsHeld'
  BY <1>7 DEF LockIsHeld, HeldRightly
<1>9. ASSUME NEW q \in Peers
      PROVE  /\ peer'[q].pc \in Joining <=> peer'[q].room = NoRoom
             /\ peer'[q].hand # NoEdit => peer'[q].pc \in {"in", "reset"} /\ peer'[q].hand \in Own(q)
             /\ peer'[q].pc = "reset" => /\ peer'[q].hand # NoEdit
                                         /\ work'[peer'[q].room].by = q
                                         /\ work'[peer'[q].room].pc \in Resetting
  <2>1. CASE q = p
    BY <1>1, <1>2, <1>3, <1>4, <2>1, RoomAssumption DEF Joining, Resetting
  <2>2. CASE q # p
    <3>1. peer[q].pc = "reset" => peer[q].room \in RoomIds \ {r}
      BY <1>1, PeerParts DEF PlaceInv, PeersAreSomewhere, Joining, Resetting
    <3> QED BY <1>3, <1>4, <2>2, <3>1 DEF PlaceInv, PeersAreSomewhere
  <2> QED BY <2>1, <2>2
<1>10. PeersAreSomewhere'
  BY <1>9 DEF PeersAreSomewhere
<1> QED BY <1>6, <1>8, <1>10 DEF PlaceInv

-----------------------------------------------------------------------------
LEMMA JoinPlace ==
    ASSUME Typed, PlaceInv, NEW p \in Peers, Join(p)
    PROVE  PlaceInv'
<1>0. peer \in [Peers -> PeerState] /\ p \in Peers
  BY DEF Typed, RoomTypeOK
<1>1. CASE JoinOpen(p) \/ JoinWinner(p)
  BY <1>1, EntryKeepsPlace DEF JoinOpen, JoinWinner, Joining
<1>2. CASE Load(p)
  <2>1. \A q \in Peers : Calm(q)
    BY <1>0, <1>2 DEF Load, Calm, Joining, Out, PlaceInv, PeersAreSomewhere
  <2> QED BY <1>2, <2>1, CalmKeepsPlace DEF Load
<1>3. CASE ReadTop(p)
  <2>1. \A q \in Peers : Calm(q)
    BY <1>0, <1>3 DEF ReadTop, Calm, Joining, PlaceInv, PeersAreSomewhere, PeerState
  <2> QED BY <1>3, <2>1, CalmKeepsPlace DEF ReadTop
<1>4. CASE AskFrozen(p)
  <2>1. \A q \in Peers : Calm(q)
    BY <1>0, <1>4 DEF AskFrozen, Calm, Joining, PlaceInv, PeersAreSomewhere, PeerState
  <2> QED BY <1>4, <2>1, CalmKeepsPlace DEF AskFrozen
<1>5. CASE JoinAgain(p)
  <2>1. \A q \in Peers : Calm(q)
    BY <1>0, <1>5 DEF JoinAgain, Calm, Joining, Out, PlaceInv, PeersAreSomewhere, PeerState
  <2> QED BY <1>5, <2>1, CalmKeepsPlace DEF JoinAgain
<1>6. CASE Install(p)
  BY <1>6, InstallKeepsPlace
<1> QED BY <1>1, <1>2, <1>3, <1>4, <1>5, <1>6 DEF Join

LEMMA PublishPlace ==
    ASSUME Typed, PlaceInv, Freeze \/ Publish
    PROVE  PlaceInv'
<1>0. peer \in [Peers -> PeerState] /\ flusher \in [RoomIds -> FlusherState]
  BY DEF Typed, RoomTypeOK
<1>1. UNCHANGED <<map, work, strained>>
  BY DEF Freeze, Publish, ResyncStart, ResyncRead, ResyncPublish
<1>2. CASE ResyncStart
  <2>1. \A q \in Peers : Calm(q)
    BY <1>0, <1>2 DEF ResyncStart, Calm, PeerState
  <2>2. \A r \in RoomIds : flusher'[r].pc = flusher[r].pc
    BY <1>0, <1>2 DEF ResyncStart, FlusherState
  <2> QED BY <1>1, <2>1, <2>2, CalmKeepsPlace
<1>3. CASE UNCHANGED <<peer, flusher>>
  <2>1. \A q \in Peers : Calm(q)
    BY <1>3 DEF Calm
  <2> QED BY <1>1, <1>3, <2>1, CalmKeepsPlace
<1> QED BY <1>2, <1>3 DEF Freeze, Publish, ResyncRead, ResyncPublish

LEMMA EditPlace ==
    ASSUME Typed, PlaceInv, NEW p \in Peers, NEW e \in Edits, Edit(p, e)
    PROVE  PlaceInv'
<1>0. peer \in [Peers -> PeerState]
  BY DEF Typed, RoomTypeOK
<1>1. CASE SendDropped(p, e)
  <2>1. \A q \in Peers : Calm(q)
    BY <1>0, <1>1 DEF SendDropped, Sends, Calm, Inside, PeerState
  <2> QED BY <1>1, <2>1, CalmKeepsPlace DEF SendDropped
<1>2. CASE Send(p, e)
  <2>1. \A q \in Peers : Calm(q)
    BY <1>0, <1>2 DEF Send, Sends, Calm, Inside, PeerState
  <2> QED BY <1>2, <2>1, CalmKeepsPlace DEF Send
<1>3. CASE Mutate(p, e)
  <2>1. \A q \in Peers : Calm(q)
    BY <1>0, <1>3 DEF Mutate, Calm, Inside, PeerState
  <2> QED BY <1>3, <2>1, CalmKeepsPlace DEF Mutate
<1>4. CASE ResetTake(p, e)
  BY <1>4, ResetTakeKeepsPlace
<1>5. CASE MutateDurable(p, e)
  <2>1. \A q \in Peers : Calm(q)
    BY <1>0, <1>5 DEF MutateDurable, Calm, Inside, PeerState
  <2> QED BY <1>5, <2>1, CalmKeepsPlace, StrainStays DEF MutateDurable
<1> QED BY <1>1, <1>2, <1>3, <1>4, <1>5 DEF Edit

LEMMA PeerPlace ==
    ASSUME Typed, PlaceInv, NEW p \in Peers,
           Finish(p) \/ Hangup(p) \/ AskSaved(p) \/ Reply(p) \/ Recheck(p) \/ EndSession(p)
    PROVE  PlaceInv'
<1>0. peer \in [Peers -> PeerState]
  BY DEF Typed, RoomTypeOK
<1>1. CASE Push(p)
  <2>1. PICK then \in {"persist", "parted", "in"} :
           peer' = [peer EXCEPT ![p].hand = NoEdit, ![p].pc = then]
    BY <1>1 DEF Push
  <2>2. \A q \in Peers : Calm(q)
    BY <1>0, <1>1, <2>1 DEF Push, Calm, Inside, PeerState
  <2> QED BY <1>1, <2>2, CalmKeepsPlace DEF Push
<1>2. CASE Leave(p)
  BY <1>2, LeaveKeepsPlace
<1>3. CASE Hangup(p) \/ Recheck(p) \/ AskSaved(p)
  <2>1. PICK to \in {"barrier", "parting", "parted"} : peer' = [peer EXCEPT ![p].pc = to]
    BY <1>3 DEF Hangup, Recheck, AskSaved, Parting
  <2>2. peer[p].pc \in Inside /\ peer[p].hand = NoEdit
    BY <1>3 DEF Hangup, Recheck, AskSaved, Inside
  <2>3. \A q \in Peers : Calm(q)
    BY <1>0, <2>1, <2>2 DEF Calm, PeerState
  <2>4. UNCHANGED <<map, work, flusher, strained>>
    BY <1>3 DEF Hangup, Recheck, AskSaved
  <2> QED BY <2>3, <2>4, CalmKeepsPlace
<1>4. CASE Reply(p)
  <2>1. PICK to \in {"acked", "in"} : peer' = [peer EXCEPT ![p].pc = to]
    BY <1>4 DEF Reply
  <2>2. \A q \in Peers : Calm(q)
    BY <1>0, <1>4, <2>1 DEF Reply, Calm, Inside, PeerState, PlaceInv, PeersAreSomewhere
  <2> QED BY <1>4, <2>2, CalmKeepsPlace DEF Reply
<1>5. CASE EndSession(p)
  <2>1. \A q \in Peers : Calm(q)
    BY <1>5 DEF EndSession, Calm
  <2> QED BY <1>5, <2>1, CalmKeepsPlace DEF EndSession
<1> QED BY <1>1, <1>2, <1>3, <1>4, <1>5 DEF Finish

LEMMA LockPlace ==
    ASSUME Typed, PlaceInv, NEW r \in RoomIds, NEW q \in Locks, TakeLock(r, q)
    PROVE  PlaceInv'
<1>1. CASE FlushEmpty(r, q)
  <2>1. work[r] = Idle /\ work' = work /\ work[r].pc = "idle"
    BY <1>1 DEF FlushEmpty, PlaceInv, LockIsHeld
  <2>2. work' = [work EXCEPT ![r] = Idle] /\ work[r].pc \notin Resetting
    BY <2>1 DEF Typed, RoomTypeOK, Resetting
  <2> QED BY <1>1, <2>2, ReturnKeepsPlace DEF FlushEmpty
<1>2. CASE FlushTake(r, q)
  <2> DEFINE w == [Idle EXCEPT !.pc = "taken", !.by = q, !.batch = room[r].pending]
  <2>1. work' = [work EXCEPT ![r] = w] /\ UNCHANGED <<map, flusher, peer, strained>>
    BY <1>2 DEF FlushTake
  <2>2. w.pc \in Flushing /\ w.by = q
    BY DEF Idle, Flushing
  <2>3. Waits(r, q) /\ work[r].pc \notin Resetting
    BY <1>2 DEF FlushTake, Resetting
  <2> HIDE DEF w
  <2> QED BY <2>1, <2>2, <2>3, LockKeepsPlace
<1> QED BY <1>1, <1>2 DEF TakeLock

LEMMA HoldPlace ==
    ASSUME Typed, PlaceInv, NEW r \in RoomIds, Holding(r)
    PROVE  PlaceInv'
<1>0. work \in [RoomIds -> WorkState] /\ work[r] \in WorkState
  BY DEF Typed, RoomTypeOK
<1>1. CASE FlushAppend(r) \/ FlushRefused(r) \/ CompactSnapshot(r)
  <2>1. work[r].pc \in Flushing /\ map' = map /\ (strained => strained')
    <3>1. CASE FlushAppend(r)
      <4>1. PICK part : LogAppend(part)
        BY <3>1 DEF FlushAppend
      <4> QED BY <3>1, <4>1, StrainStays DEF FlushAppend, Flushing
    <3>2. CASE FlushRefused(r)
      BY <3>2 DEF FlushRefused, Flushing
    <3>3. CASE CompactSnapshot(r)
      BY <3>3 DEF CompactSnapshot, Flushing
    <3> QED BY <1>1, <3>1, <3>2, <3>3
  <2>2. \/ Release(r)
        \/ /\ UNCHANGED <<flusher, peer>>
           /\ \E pc \in Flushing : \E b :
                work' = [work EXCEPT ![r] = [work[r] EXCEPT !.pc = pc, !.batch = b]]
        \/ /\ UNCHANGED <<flusher, peer>>
           /\ \E s : work' = [work EXCEPT ![r] = [work[r] EXCEPT !.pc = "compact", !.snap = s]]
    <3>1. CASE FlushAppend(r)
      <4>1. PICK rest : \/ Release(r)
                        \/ /\ UNCHANGED <<flusher, peer>>
                           /\ work' = [work EXCEPT ![r].pc = "rowwise", ![r].batch = rest]
                        \/ /\ UNCHANGED <<flusher, peer>>
                           /\ work' = [work EXCEPT ![r].pc = "snapshot", ![r].batch = {}]
        BY <3>1 DEF FlushAppend
      <4>2. \/ Release(r)
            \/ /\ UNCHANGED <<flusher, peer>>
               /\ work' = [work EXCEPT ![r] = [work[r] EXCEPT !.pc = "rowwise", !.batch = rest]]
            \/ /\ UNCHANGED <<flusher, peer>>
               /\ work' = [work EXCEPT ![r] = [work[r] EXCEPT !.pc = "snapshot", !.batch = {}]]
        BY <4>1
      <4>3. "rowwise" \in Flushing /\ "snapshot" \in Flushing
        BY DEF Flushing
      <4> QED BY <4>2, <4>3
    <3>2. CASE FlushRefused(r)
      BY <3>2 DEF FlushRefused, Flushing
    <3>3. CASE CompactSnapshot(r)
      BY <3>3 DEF CompactSnapshot
    <3> QED BY <1>1, <3>1, <3>2, <3>3
  <2>3. CASE Release(r)
    BY <2>1, <2>3, ReleaseKeepsPlace
  <2>4. CASE ~Release(r)
    <3>1. PICK w : work' = [work EXCEPT ![r] = w] /\ w.pc \in Flushing /\ w.by = work[r].by
      <4>1. \A pc \in Flushing : \A b :
               /\ [work[r] EXCEPT !.pc = pc, !.batch = b].pc \in Flushing
               /\ [work[r] EXCEPT !.pc = pc, !.batch = b].by = work[r].by
        BY <1>0 DEF WorkState
      <4>2. \A s : /\ [work[r] EXCEPT !.pc = "compact", !.snap = s].pc \in Flushing
                   /\ [work[r] EXCEPT !.pc = "compact", !.snap = s].by = work[r].by
        BY <1>0 DEF WorkState, Flushing
      <4>3. CASE \E pc \in Flushing : \E b :
                   work' = [work EXCEPT ![r] = [work[r] EXCEPT !.pc = pc, !.batch = b]]
        <5>1. PICK pc \in Flushing :
                \E b : work' = [work EXCEPT ![r] = [work[r] EXCEPT !.pc = pc, !.batch = b]]
          BY <4>3
        <5>2. PICK b : work' = [work EXCEPT ![r] = [work[r] EXCEPT !.pc = pc, !.batch = b]]
          BY <5>1
        <5> QED BY <4>1, <5>2
      <4>4. CASE \E s : work' = [work EXCEPT ![r] = [work[r] EXCEPT !.pc = "compact", !.snap = s]]
        <5>1. PICK s : work' = [work EXCEPT ![r] = [work[r] EXCEPT !.pc = "compact", !.snap = s]]
          BY <4>4
        <5> QED BY <4>2, <5>1
      <4> QED BY <2>2, <2>4, <4>3, <4>4
    <3>2. Waits(r, w.by) /\ work[r].pc \notin Resetting
      BY <2>1, <3>1 DEF PlaceInv, LockIsHeld, Flushing, Resetting
    <3>3. UNCHANGED <<flusher, peer>>
      BY <2>2, <2>4
    <3> QED BY <2>1, <3>1, <3>2, <3>3, LockKeepsPlace
  <2> QED BY <2>3, <2>4
<1>2. CASE CompactCommit(r) \/ CompactRefused(r)
  <2>1. work[r].pc \in Flushing /\ map' = map /\ (strained => strained') /\ Release(r)
    <3>1. CASE CompactCommit(r)
      BY <3>1, StrainStays DEF CompactCommit, Flushing
    <3>2. CASE CompactRefused(r)
      BY <3>2 DEF CompactRefused, Flushing
    <3> QED BY <1>2, <3>1, <3>2
  <2> QED BY <2>1, ReleaseKeepsPlace
<1>3. CASE ResetSnapshot(r) \/ ResetRead(r) \/ ResetRetry(r)
  <2>1. work[r].pc \in Resetting /\ UNCHANGED <<map, flusher, peer, strained>>
    BY <1>3 DEF ResetSnapshot, ResetRead, ResetRetry, Resetting
  <2>2. PICK w : work' = [work EXCEPT ![r] = w] /\ w.pc \in Resetting /\ w.by = work[r].by
    <3>1. CASE ResetSnapshot(r)
      <4> DEFINE w == [work[r] EXCEPT !.pc = "read", !.snap = room[r].replica]
      <4>1. work' = [work EXCEPT ![r] = w]
        BY <3>1 DEF ResetSnapshot
      <4>2. w.pc \in Resetting /\ w.by = work[r].by
        BY <1>0 DEF WorkState, Resetting
      <4> QED BY <4>1, <4>2
    <3>2. CASE ResetRead(r)
      <4> DEFINE w == [work[r] EXCEPT !.pc = "commit", !.seen = TopSeq(log, 0),
                            !.state = work[r].snap \cup Content(After(room[r].base))
                                      \cup {peer[work[r].by].hand}]
      <4>1. work' = [work EXCEPT ![r] = w]
        BY <3>2 DEF ResetRead
      <4>2. w.pc \in Resetting /\ w.by = work[r].by
        BY <1>0 DEF WorkState, Resetting
      <4> QED BY <4>1, <4>2
    <3>3. CASE ResetRetry(r)
      <4> DEFINE w == [work[r] EXCEPT !.pc = "read", !.tries = work[r].tries + 1]
      <4>1. work' = [work EXCEPT ![r] = w]
        BY <3>3 DEF ResetRetry
      <4>2. w.pc \in Resetting /\ w.by = work[r].by
        BY <1>0 DEF WorkState, Resetting
      <4> QED BY <4>1, <4>2
    <3> QED BY <1>3, <3>1, <3>2, <3>3
  <2> QED BY <2>1, <2>2, LockKeepsPlace
<1>4. CASE ResetCommit(r) \/ ResetRefused(r)
  <2>1. /\ work[r].pc \in Resetting /\ UNCHANGED <<map, flusher>>
        /\ (strained => strained') /\ EndReset(r)
    <3>1. CASE ResetCommit(r)
      BY <3>1, StrainStays DEF ResetCommit, Resetting
    <3>2. CASE ResetRefused(r)
      BY <3>2 DEF ResetRefused, Resetting
    <3> QED BY <1>4, <3>1, <3>2
  <2> QED BY <2>1, EndResetKeepsPlace
<1> QED BY <1>1, <1>2, <1>3, <1>4 DEF Holding

LEMMA RoundPlace ==
    ASSUME Typed, PlaceInv, NEW r \in RoomIds, Round(r)
    PROVE  PlaceInv'
<1>0. flusher \in [RoomIds -> FlusherState] /\ UNCHANGED <<work, peer, strained>>
  BY DEF Typed, RoomTypeOK, Round, FlusherTick, FlusherPublish, FlusherStays, FlusherQuits, Drop
<1>1. CASE FlusherTick(r) \/ FlusherPublish(r) \/ FlusherStays(r)
  <2>1. /\ flusher[r].pc \in Busy \ {"flush"} /\ flusher'[r].pc \in Busy /\ map' = map
        /\ \A s \in RoomIds \ {r} : flusher'[s] = flusher[s]
    BY <1>0, <1>1 DEF FlusherTick, FlusherPublish, FlusherStays, Busy, Resting, FlusherState
  <2> QED BY <1>0, <2>1, RoundKeepsPlace
<1>2. CASE FlusherQuits(r) \/ Drop(r)
  <2>1. /\ \A s \in RoomIds \ {r} : flusher'[s].pc = flusher[s].pc
        /\ \/ flusher[r].pc = "check" /\ PeersOf(r) = {} /\ flusher'[r].pc = "last"
              /\ map' = NoRoom
           \/ flusher[r].pc = "done" /\ flusher'[r].pc = "free" /\ map' = map
    BY <1>0, <1>2 DEF FlusherQuits, Drop, Resting, FlusherState
  <2> QED BY <1>0, <2>1, EndKeepsPlace
<1> QED BY <1>1, <1>2 DEF Round

LEMMA OfflinePlace ==
    ASSUME Typed, PlaceInv, NEW e \in Edits, EditOffline(e)
    PROVE  PlaceInv'
<1>1. PICK edits : LogAppend(edits)
  BY DEF EditOffline
<1>2. UNCHANGED <<map, work, flusher, peer>>
  BY DEF EditOffline
<1>3. \A q \in Peers : Calm(q)
  BY <1>2 DEF Calm
<1> QED BY <1>1, <1>2, <1>3, StrainStays, CalmKeepsPlace

\* The steps of the system by whose they are.
LEMMA Steps ==
    ASSUME Next
    PROVE  \/ \E p \in Peers : Join(p)
           \/ \E p \in Peers : Finish(p) \/ Hangup(p) \/ AskSaved(p) \/ Reply(p)
                               \/ Recheck(p) \/ EndSession(p)
           \/ \E p \in Peers, e \in Edits : Edit(p, e)
           \/ \E e \in Edits : EditOffline(e)
           \/ \E r \in RoomIds, q \in Locks : TakeLock(r, q)
           \/ \E r \in RoomIds : Holding(r)
           \/ \E r \in RoomIds : Round(r)
           \/ Freeze \/ Publish
BY DEF Next, Locks

Placed == Typed /\ PlaceInv

LEMMA InitPlaced == Init => Placed
<1> SUFFICES ASSUME Init PROVE Placed
  OBVIOUS
<1>1. Typed
  BY InitTyped
<1>2. OneReplica /\ RoundsAreMapped /\ OneRoom
  BY RoomAssumption DEF Init, OneReplica, RoundsAreMapped, OneRoom, Out, Resting, Busy
<1>3. LockIsHeld
  BY DEF Init, LockIsHeld, Idle, Flushing, Resetting
<1>4. PeersAreSomewhere
  BY DEF Init, PeersAreSomewhere, Out, Joining
<1> QED BY <1>1, <1>2, <1>3, <1>4 DEF Placed, PlaceInv

LEMMA StepPlaced == Placed /\ [Next]_vars => Placed'
<1> SUFFICES ASSUME Typed, PlaceInv, [Next]_vars PROVE Typed' /\ PlaceInv'
  BY DEF Placed
<1>1. CASE UNCHANGED vars
  <2>1. Typed'
    BY <1>1 DEF vars, dbVars, freezeVars, Typed, RoomTypeOK, LogIsNumbered
  <2>2. UNCHANGED <<map, work, flusher, peer, strained>>
    BY <1>1 DEF vars
  <2>3. \A q \in Peers : Calm(q)
    BY <2>2 DEF Calm
  <2> QED BY <2>1, <2>2, <2>3, CalmKeepsPlace
<1>2. CASE Next
  <2>1. ASSUME NEW p \in Peers, Join(p) PROVE Typed' /\ PlaceInv'
    BY <2>1, JoinTyped, JoinPlace
  <2>2. ASSUME NEW p \in Peers,
               Finish(p) \/ Hangup(p) \/ AskSaved(p) \/ Reply(p) \/ Recheck(p) \/ EndSession(p)
        PROVE  Typed' /\ PlaceInv'
    BY <2>2, PeerTyped, PeerPlace
  <2>3. ASSUME NEW p \in Peers, NEW e \in Edits, Edit(p, e) PROVE Typed' /\ PlaceInv'
    BY <2>3, EditTyped, EditPlace
  <2>4. ASSUME NEW e \in Edits, EditOffline(e) PROVE Typed' /\ PlaceInv'
    BY <2>4, OfflineTyped, OfflinePlace
  <2>5. ASSUME NEW r \in RoomIds, NEW q \in Locks, TakeLock(r, q) PROVE Typed' /\ PlaceInv'
    BY <2>5, LockTyped, LockPlace
  <2>6. ASSUME NEW r \in RoomIds, Holding(r) PROVE Typed' /\ PlaceInv'
    BY <2>6, HoldTyped, HoldPlace
  <2>7. ASSUME NEW r \in RoomIds, Round(r) PROVE Typed' /\ PlaceInv'
    BY <2>7, RoundTyped, RoundPlace
  <2>8. CASE Freeze \/ Publish
    BY <2>8, PublishTyped, PublishPlace
  <2> QED BY <1>2, <2>1, <2>2, <2>3, <2>4, <2>5, <2>6, <2>7, <2>8, Steps
<1> QED BY <1>1, <1>2

\* Every variable keeps its type, and rows of the log their numbers.
THEOREM RoomsTyped == Spec => []RoomTypeOK
<1>1. Spec => []Placed
  BY InitPlaced, StepPlaced, PTL DEF Spec
<1>2. Placed => RoomTypeOK
  BY DEF Placed, Typed
<1> QED BY <1>1, <1>2, PTL

\* An open object has one replica, however joins race each other and the flusher
\* that empties a room (Rooms::join, Rooms::spawn_flusher).
THEOREM OneReplicaHolds == Spec => []OneReplica
<1>1. Spec => []Placed
  BY InitPlaced, StepPlaced, PTL DEF Spec
<1>2. Placed => OneReplica
  BY DEF Placed, PlaceInv
<1> QED BY <1>1, <1>2, PTL

-----------------------------------------------------------------------------
(* Freezing.                                                                 *)

FreezeCalm ==
    /\ UNCHANGED <<archived, owed, resync, map>>
    /\ \A q \in Peers : peer'[q].pc = "asked" =>
          peer[q].pc = "asked" /\ peer'[q].moved = peer[q].moved /\ peer'[q].frozen = peer[q].frozen
    /\ \A r \in RoomIds : flusher'[r].pc = "asked" =>
          flusher[r].pc = "asked" /\ flusher'[r].moved = flusher[r].moved
          /\ flusher'[r].frozen = flusher[r].frozen
    /\ \A r \in RoomIds : room'[r].frozen = room[r].frozen

LEMMA FreezeStays ==
    ASSUME Typed, FreezeInv, FreezeCalm
    PROVE  FreezeInv'
<1>1. map \in RoomIds \cup {NoRoom}
  BY DEF Typed, RoomTypeOK
<1> QED BY <1>1 DEF FreezeInv, FreezeCalm

\* What a lock's holder writes leaves the flag alone.
LEMMA ReturnLeavesAsked ==
    ASSUME Typed, NEW r \in RoomIds, NEW q \in Locks, Return(r, q)
    PROVE  /\ \A p \in Peers : peer'[p].pc = "asked" => peer'[p] = peer[p]
           /\ \A s \in RoomIds : flusher'[s].pc = "asked" => flusher'[s] = flusher[s]
<1>1. peer \in [Peers -> PeerState] /\ flusher \in [RoomIds -> FlusherState]
  BY DEF Typed, RoomTypeOK
<1>2. CASE q = Flusher
  BY <1>1, <1>2 DEF Return, FlusherState
<1>3. CASE q # Flusher
  BY <1>1, <1>3 DEF Return, PeerState
<1> QED BY <1>2, <1>3

LEMMA JoinFreeze ==
    ASSUME Placed, FreezeInv, NEW p \in Peers, Join(p)
    PROVE  FreezeInv'
<1>0. Typed /\ PlaceInv /\ peer \in [Peers -> PeerState] /\ flusher \in [RoomIds -> FlusherState]
      /\ room \in [RoomIds -> RoomState]
  BY DEF Placed, Typed, RoomTypeOK
<1>1. CASE JoinOpen(p) \/ JoinWinner(p) \/ Load(p) \/ ReadTop(p) \/ JoinAgain(p)
  <2>1. UNCHANGED <<archived, owed, resync, map, flusher, room>>
    BY <1>1 DEF JoinOpen, JoinWinner, Load, ReadTop, JoinAgain, freezeVars
  <2>2. peer'[p].pc # "asked" /\ \A q \in Peers \ {p} : peer'[q] = peer[q]
    <3>1. CASE JoinOpen(p) \/ JoinWinner(p)
      BY <1>0, <3>1 DEF JoinOpen, JoinWinner, Out
    <3>2. CASE Load(p)
      BY <1>0, <3>2 DEF Load, Out
    <3>3. CASE ReadTop(p)
      BY <1>0, <3>3 DEF ReadTop, PeerState
    <3>4. CASE JoinAgain(p)
      BY <1>0, <3>4 DEF JoinAgain, Out, PeerState
    <3> QED BY <1>1, <3>1, <3>2, <3>3, <3>4
  <2>3. FreezeCalm
    BY <2>1, <2>2 DEF FreezeCalm
  <2> QED BY <1>0, <2>3, FreezeStays
<1>2. CASE AskFrozen(p)
  <2>1. UNCHANGED <<archived, owed, resync, map, flusher, room>>
    BY <1>2 DEF AskFrozen, freezeVars
  <2>2. peer'[p].frozen = archived /\ \A q \in Peers \ {p} : peer'[q] = peer[q]
    BY <1>0, <1>2 DEF AskFrozen, PeerState
  <2> QED BY <2>1, <2>2 DEF FreezeInv
<1>3. CASE Install(p)
  <2>1. PICK r \in RoomIds :
          /\ map' = r /\ map = NoRoom
          /\ room' = [room EXCEPT ![r] = Fresh(peer[p].rows, peer[p].seen, peer[p].frozen)]
          /\ flusher' = [flusher EXCEPT ![r].pc = "tick"]
          /\ peer' = [peer EXCEPT ![p] = [Out EXCEPT !.pc = "in", !.room = r]]
          /\ peer[p].pc = "asked" /\ ~peer[p].moved
          /\ UNCHANGED <<archived, owed, resync>>
    BY <1>3 DEF Install, freezeVars
  <2>2. room'[r].frozen = peer[p].frozen
    BY <1>0, <2>1 DEF Fresh
  <2>3. peer'[p].pc # "asked" /\ \A q \in Peers \ {p} : peer'[q] = peer[q]
    BY <1>0, <2>1 DEF Out
  <2>4. \A s \in RoomIds : flusher'[s].pc = "asked" => flusher'[s] = flusher[s]
    BY <1>0, <2>1 DEF FlusherState
  <2> QED BY <2>1, <2>2, <2>3, <2>4 DEF FreezeInv
<1> QED BY <1>1, <1>2, <1>3 DEF Join

LEMMA PublishFreeze ==
    ASSUME Placed, FreezeInv, Freeze \/ Publish
    PROVE  FreezeInv'
<1>0. /\ peer \in [Peers -> PeerState] /\ flusher \in [RoomIds -> FlusherState]
      /\ room \in [RoomIds -> RoomState] /\ resync \in ResyncState /\ owed \in Nat
      /\ map \in RoomIds \cup {NoRoom}
  BY DEF Placed, Typed, RoomTypeOK
<1>1. CASE Freeze
  <2>1. owed' # 0
    BY <1>0, <1>1 DEF Freeze
  <2> QED BY <2>1 DEF FreezeInv
<1>2. CASE ResyncStart
  <2>1. resync'.pc = "taken" /\ resync'.room = map' /\ UNCHANGED <<archived, map, room>>
    BY <1>2 DEF ResyncStart, NoResync
  <2>2. \A q \in Peers : peer'[q].pc = "asked" => peer'[q].moved
    BY <1>0, <1>2 DEF ResyncStart, PeerState
  <2>3. \A r \in RoomIds : flusher'[r].pc = "asked" => flusher'[r].moved
    BY <1>0, <1>2 DEF ResyncStart, FlusherState
  <2> QED BY <2>1, <2>2, <2>3 DEF FreezeInv
<1>3. CASE ResyncRead
  <2>1. /\ resync'.pc = "read" /\ resync'.room = resync.room /\ resync'.frozen = archived
        /\ resync.pc = "taken"
    BY <1>0, <1>3 DEF ResyncRead, ResyncState
  <2>2. UNCHANGED <<archived, owed, map, room, flusher, peer>>
    BY <1>3 DEF ResyncRead
  <2> QED BY <2>1, <2>2 DEF FreezeInv
<1>4. CASE ResyncPublish
  <2>1. /\ resync'.pc = "idle" /\ resync.pc = "read"
        /\ UNCHANGED <<archived, owed, map, flusher, peer>>
    BY <1>4 DEF ResyncPublish, NoResync
  <2>2. \A r \in RoomIds : room'[r].frozen = IF r = resync.room THEN resync.frozen
                                             ELSE room[r].frozen
    BY <1>0, <1>4 DEF ResyncPublish, RoomState
  <2>3. map # NoRoom => map \in RoomIds
    BY <1>0
  <2> QED BY <2>1, <2>2, <2>3 DEF FreezeInv
<1> QED BY <1>1, <1>2, <1>3, <1>4 DEF Publish

LEMMA EditFreeze ==
    ASSUME Placed, FreezeInv, NEW p \in Peers, NEW e \in Edits, Edit(p, e)
    PROVE  FreezeInv'
<1>0. Typed /\ peer \in [Peers -> PeerState] /\ room \in [RoomIds -> RoomState]
  BY DEF Placed, Typed, RoomTypeOK
<1>1. UNCHANGED <<archived, owed, resync, map, flusher>>
  BY DEF Edit, SendDropped, Send, Mutate, ResetTake, MutateDurable, freezeVars
<1>2. \A q \in Peers : peer'[q].pc = "asked" => peer'[q] = peer[q]
  <2>1. CASE SendDropped(p, e)
    BY <1>0, <2>1 DEF SendDropped, PeerState
  <2>2. CASE Send(p, e)
    BY <1>0, <2>2 DEF Send, PeerState
  <2>3. CASE Mutate(p, e)
    BY <1>0, <2>3 DEF Mutate, PeerState
  <2>4. CASE ResetTake(p, e)
    BY <1>0, <2>4 DEF ResetTake, PeerState
  <2>5. CASE MutateDurable(p, e)
    BY <1>0, <2>5 DEF MutateDurable, PeerState
  <2> QED BY <2>1, <2>2, <2>3, <2>4, <2>5 DEF Edit
<1>3. \A r \in RoomIds : room'[r].frozen = room[r].frozen
  <2>1. CASE SendDropped(p, e)
    BY <2>1 DEF SendDropped
  <2>2. CASE Send(p, e)
    BY <1>0, <2>2 DEF Send, RoomState
  <2>3. CASE Mutate(p, e)
    BY <1>0, <2>3 DEF Mutate, RoomState
  <2>4. CASE ResetTake(p, e)
    BY <1>0, <2>4 DEF ResetTake, RoomState
  <2>5. CASE MutateDurable(p, e)
    BY <1>0, <2>5 DEF MutateDurable, RoomState
  <2> QED BY <2>1, <2>2, <2>3, <2>4, <2>5 DEF Edit
<1>4. FreezeCalm
  BY <1>1, <1>2, <1>3 DEF FreezeCalm
<1> QED BY <1>0, <1>4, FreezeStays

LEMMA PeerFreeze ==
    ASSUME Placed, FreezeInv, NEW p \in Peers,
           Finish(p) \/ Hangup(p) \/ AskSaved(p) \/ Reply(p) \/ Recheck(p) \/ EndSession(p)
    PROVE  FreezeInv'
<1>0. Typed /\ peer \in [Peers -> PeerState] /\ room \in [RoomIds -> RoomState]
  BY DEF Placed, Typed, RoomTypeOK
<1>1. UNCHANGED <<archived, owed, resync, map, flusher>>
  BY DEF Finish, Push, Leave, Hangup, AskSaved, Reply, Recheck, EndSession, freezeVars
<1>2. \A q \in Peers : peer'[q].pc = "asked" => peer'[q] = peer[q]
  <2>1. CASE Push(p)
    BY <1>0, <2>1 DEF Push, PeerState
  <2>2. CASE Leave(p)
    BY <1>0, <2>2 DEF Leave, Out
  <2>3. CASE Hangup(p) \/ AskSaved(p) \/ Recheck(p)
    BY <1>0, <2>3 DEF Hangup, AskSaved, Recheck, Parting, PeerState
  <2>4. CASE Reply(p)
    BY <1>0, <2>4 DEF Reply, PeerState
  <2>5. CASE EndSession(p)
    BY <2>5 DEF EndSession
  <2> QED BY <2>1, <2>2, <2>3, <2>4, <2>5 DEF Finish
<1>3. \A r \in RoomIds : room'[r].frozen = room[r].frozen
  <2>1. CASE Push(p)
    BY <1>0, <2>1 DEF Push, RoomState
  <2>2. CASE room' = room
    BY <2>2
  <2> QED BY <2>1, <2>2 DEF Finish, Leave, Hangup, AskSaved, Reply, Recheck, EndSession
<1>4. FreezeCalm
  BY <1>1, <1>2, <1>3 DEF FreezeCalm
<1> QED BY <1>0, <1>4, FreezeStays

LEMMA LockFreeze ==
    ASSUME Placed, FreezeInv, NEW r \in RoomIds, NEW q \in Locks, TakeLock(r, q)
    PROVE  FreezeInv'
<1>0. Typed /\ room \in [RoomIds -> RoomState]
  BY DEF Placed, Typed, RoomTypeOK
<1>1. UNCHANGED <<archived, owed, resync, map>>
  BY DEF TakeLock, FlushEmpty, FlushTake, freezeVars
<1>2. /\ \A p \in Peers : peer'[p].pc = "asked" => peer'[p] = peer[p]
      /\ \A s \in RoomIds : flusher'[s].pc = "asked" => flusher'[s] = flusher[s]
  BY <1>0, ReturnLeavesAsked DEF TakeLock, FlushEmpty, FlushTake
<1>3. \A s \in RoomIds : room'[s].frozen = room[s].frozen
  BY <1>0 DEF TakeLock, FlushEmpty, FlushTake, RoomState
<1>4. FreezeCalm
  BY <1>1, <1>2, <1>3 DEF FreezeCalm
<1> QED BY <1>0, <1>4, FreezeStays

LEMMA HoldFreeze ==
    ASSUME Placed, FreezeInv, NEW r \in RoomIds, Holding(r)
    PROVE  FreezeInv'
<1>0. /\ Typed /\ peer \in [Peers -> PeerState] /\ room \in [RoomIds -> RoomState]
      /\ work[r].by \in Locks
  BY RoomParts DEF Placed, Typed, RoomTypeOK
<1>1. UNCHANGED <<archived, owed, resync, map>>
  BY DEF Holding, FlushAppend, FlushRefused, CompactSnapshot, CompactCommit, CompactRefused,
         ResetSnapshot, ResetRead, ResetCommit, ResetRetry, ResetRefused, freezeVars
<1>2. \/ Release(r)
      \/ EndReset(r) /\ flusher' = flusher
      \/ UNCHANGED <<peer, flusher>>
  <2>1. CASE FlushAppend(r)
    BY <2>1 DEF FlushAppend
  <2>2. CASE FlushRefused(r)
    BY <2>2 DEF FlushRefused
  <2>3. CASE CompactCommit(r) \/ CompactRefused(r) \/ ResetCommit(r) \/ ResetRefused(r)
    BY <2>3 DEF CompactCommit, CompactRefused, ResetCommit, ResetRefused
  <2>4. CASE CompactSnapshot(r) \/ ResetSnapshot(r) \/ ResetRead(r) \/ ResetRetry(r)
    BY <2>4 DEF CompactSnapshot, ResetSnapshot, ResetRead, ResetRetry
  <2> QED BY <2>1, <2>2, <2>3, <2>4 DEF Holding
<1>3. /\ \A p \in Peers : peer'[p].pc = "asked" => peer'[p] = peer[p]
      /\ \A s \in RoomIds : flusher'[s].pc = "asked" => flusher'[s] = flusher[s]
  <2>1. CASE Release(r)
    BY <1>0, <2>1, ReturnLeavesAsked DEF Release
  <2>2. CASE EndReset(r) /\ flusher' = flusher
    BY <1>0, <2>2 DEF EndReset, PeerState
  <2>3. CASE UNCHANGED <<peer, flusher>>
    BY <2>3
  <2> QED BY <1>2, <2>1, <2>2, <2>3
<1>4. \A s \in RoomIds : room'[s].frozen = room[s].frozen
  <2>1. CASE FlushAppend(r)
    <3>1. PICK batch : room' = [room EXCEPT ![r].own = @ + 1, ![r].escapeRefused = FALSE,
                                            ![r].overloaded = @ /\ batch # {}]
      BY <2>1 DEF FlushAppend
    <3> QED BY <1>0, <3>1 DEF RoomState
  <2>2. CASE FlushRefused(r) \/ ResetRefused(r)
    <3>1. room' = [room EXCEPT ![r] = Requeued(room[r], work[r].batch)]
      BY <2>2 DEF FlushRefused, ResetRefused
    <3>2. Requeued(room[r], work[r].batch).frozen = room[r].frozen
      BY <1>0 DEF Requeued, RoomState
    <3> QED BY <1>0, <3>1, <3>2
  <2>3. CASE CompactCommit(r)
    BY <1>0, <2>3 DEF CompactCommit, RoomState
  <2>4. CASE CompactRefused(r)
    BY <1>0, <2>4 DEF CompactRefused, RoomState
  <2>5. CASE ResetCommit(r)
    BY <1>0, <2>5 DEF ResetCommit, RoomState
  <2>6. CASE CompactSnapshot(r) \/ ResetSnapshot(r) \/ ResetRead(r) \/ ResetRetry(r)
    BY <2>6 DEF CompactSnapshot, ResetSnapshot, ResetRead, ResetRetry
  <2> QED BY <2>1, <2>2, <2>3, <2>4, <2>5, <2>6 DEF Holding
<1>5. FreezeCalm
  BY <1>1, <1>3, <1>4 DEF FreezeCalm
<1> QED BY <1>0, <1>5, FreezeStays

LEMMA RoundFreeze ==
    ASSUME Placed, FreezeInv, NEW r \in RoomIds, Round(r)
    PROVE  FreezeInv'
<1>0. /\ Typed /\ PlaceInv /\ room \in [RoomIds -> RoomState]
      /\ flusher \in [RoomIds -> FlusherState] /\ peer' = peer
      /\ resync \in ResyncState /\ map \in RoomIds \cup {NoRoom} /\ UNCHANGED <<archived, owed>>
  BY DEF Placed, Typed, RoomTypeOK, Round, FlusherTick, FlusherPublish, FlusherStays,
         FlusherQuits, Drop, freezeVars
<1>1. CASE FlusherTick(r)
  <2>1. flusher'[r].frozen = archived /\ \A s \in RoomIds \ {r} : flusher'[s] = flusher[s]
    BY <1>0, <1>1 DEF FlusherTick
  <2>2. \A s \in RoomIds : room'[s].frozen = room[s].frozen
    BY <1>0, <1>1 DEF FlusherTick, RoomState
  <2>3. UNCHANGED <<resync, map>>
    BY <1>1 DEF FlusherTick, freezeVars
  <2> QED BY <1>0, <2>1, <2>2, <2>3 DEF FreezeInv
<1>2. CASE FlusherPublish(r)
  <2>1. flusher'[r].pc = "flush" /\ \A s \in RoomIds \ {r} : flusher'[s] = flusher[s]
    BY <1>0, <1>2 DEF FlusherPublish, Resting
  <2>2. /\ room'[r].frozen = IF flusher[r].moved THEN room[r].frozen ELSE flusher[r].frozen
        /\ \A s \in RoomIds \ {r} : room'[s] = room[s]
    BY <1>0, <1>2 DEF FlusherPublish, RoomState
  <2>3. UNCHANGED <<resync, map>> /\ flusher[r].pc = "asked"
    BY <1>2 DEF FlusherPublish, freezeVars
  <2> QED BY <1>0, <2>1, <2>2, <2>3 DEF FreezeInv
<1>3. CASE FlusherStays(r)
  <2>1. /\ \A s \in RoomIds : flusher'[s].pc = "asked" => flusher'[s] = flusher[s]
        /\ UNCHANGED <<room, resync, map>>
    BY <1>0, <1>3 DEF FlusherStays, FlusherState, freezeVars
  <2> QED BY <1>0, <2>1 DEF FreezeInv
<1>4. CASE FlusherQuits(r)
  <2>1. /\ \A s \in RoomIds : flusher'[s].pc = "asked" => flusher'[s] = flusher[s]
        /\ UNCHANGED <<room, resync>> /\ map' = NoRoom
    BY <1>0, <1>4 DEF FlusherQuits, FlusherState, freezeVars
  <2> QED BY <1>0, <2>1 DEF FreezeInv
<1>5. CASE Drop(r)
  <2>1. map' = map /\ map # r
    BY <1>0, <1>5 DEF Drop, PlaceInv, RoundsAreMapped, Busy
  <2>2. \A s \in RoomIds : flusher'[s].pc = "asked" => flusher'[s] = flusher[s]
    BY <1>0, <1>5 DEF Drop, Resting
  <2>3. \A s \in RoomIds \ {r} : room'[s] = room[s]
    BY <1>0, <1>5 DEF Drop
  <2>4. /\ resync'.pc = resync.pc /\ resync'.frozen = resync.frozen
        /\ resync'.room = IF resync.room = r THEN NoRoom ELSE resync.room
    BY <1>0, <1>5 DEF Drop, ResyncState
  <2> QED BY <1>0, <2>1, <2>2, <2>3, <2>4 DEF FreezeInv
<1> QED BY <1>1, <1>2, <1>3, <1>4, <1>5 DEF Round

Frozen == Placed /\ FreezeInv

LEMMA InitFrozen == Init => Frozen
<1>1. Init => FreezeInv
  BY DEF Init, FreezeInv, Out, Resting, NoResync
<1> QED BY <1>1, InitPlaced DEF Frozen

LEMMA StepFrozen == Frozen /\ [Next]_vars => Frozen'
<1> SUFFICES ASSUME Placed, FreezeInv, [Next]_vars PROVE FreezeInv'
  BY StepPlaced DEF Frozen
<1>0. Typed
  BY DEF Placed
<1>1. CASE UNCHANGED vars
  <2>1. FreezeCalm
    BY <1>1 DEF vars, freezeVars, FreezeCalm
  <2> QED BY <1>0, <2>1, FreezeStays
<1>2. ASSUME NEW e \in Edits, EditOffline(e) PROVE FreezeInv'
  <2>1. FreezeCalm
    BY <1>2 DEF EditOffline, freezeVars, FreezeCalm
  <2> QED BY <1>0, <2>1, FreezeStays
<1>3. CASE Next
  BY <1>2, <1>3, Steps, JoinFreeze, PublishFreeze, EditFreeze, PeerFreeze, LockFreeze,
     HoldFreeze, RoundFreeze
<1> QED BY <1>1, <1>3

\* When every archive and restore has been published, the open room has the flag
\* the store has, whatever answers were under way (Rooms::resync_frozen, the epoch
\* a join and a flusher compare).
THEOREM FreezeReachesRoomHolds == Spec => []FreezeReachesRoom
<1>1. Spec => []Frozen
  BY InitFrozen, StepFrozen, PTL DEF Spec
<1>2. Frozen => FreezeReachesRoom
  BY DEF Frozen, FreezeInv, FreezeReachesRoom
<1> QED BY <1>1, <1>2, PTL

-----------------------------------------------------------------------------
(* The log under a transaction.                                              *)

LEMMA ContentGrows ==
    ASSUME NEW A, NEW B, A \subseteq B
    PROVE  Content(A) \subseteq Content(B)
BY DEF Content

LEMMA ContentOfBoth ==
    ASSUME NEW A, NEW B
    PROVE  Content(A \cup B) = Content(A) \cup Content(B)
BY DEF Content

\* Below and above a number is all there is.
LEMMA LogSplits ==
    ASSUME Typed, NEW base \in Nat
    PROVE  log = Upto(base) \cup After(base) /\ After(base) \subseteq log /\ Upto(base) \subseteq log
           /\ Content(log) = Content(Upto(base)) \cup Content(After(base))
<1>1. \A r \in log : r.seq \in Nat
  BY DEF Typed, RoomTypeOK, Rows
<1>2. log = Upto(base) \cup After(base) /\ After(base) \subseteq log /\ Upto(base) \subseteq log
  BY <1>1 DEF Upto, After
<1> QED BY <1>2, ContentOfBoth

\* An append leaves the rows below any old number, and adds one above it.
LEMMA AppendEffect ==
    ASSUME Typed, NEW edits \in SUBSET Edits, LogAppend(edits)
    PROVE  /\ Content(log') = Content(log) \cup edits
           /\ lastSeq' = lastSeq + 1
           /\ ~strained' => ~strained /\ \A p \in Peers : peer[p].pc # "loading"
           /\ TopSeq(log', 0) > lastSeq
           /\ \A n \in Nat : n <= lastSeq =>
                 /\ Upto(n)' = Upto(n)
                 /\ After(n)' = After(n) \cup {Row(lastSeq + 1, edits)}
                 /\ Row(lastSeq + 1, edits) \notin After(n)
<1>1. /\ lastSeq \in Nat /\ lastSeq + 1 \in Nat
      /\ \A r \in log : r.seq \in Nat /\ r.seq <= lastSeq
  BY DEF Typed, RoomTypeOK, LogIsNumbered, Rows
<1> DEFINE new == Row(lastSeq + 1, edits)
<1>2. new.seq = lastSeq + 1 /\ new.edits = edits
  BY DEF Row
<1>3. log' = log \cup {new} /\ lastSeq' = lastSeq + 1
  BY DEF LogAppend, NextSeq
<1>4. ~strained' => ~strained /\ \A p \in Peers : peer[p].pc # "loading"
  <2>1. NextSeq
    BY DEF LogAppend
  <2> QED BY <2>1 DEF NextSeq
<1> HIDE DEF new
<1>5. Content(log') = Content(log) \cup edits
  BY <1>2, <1>3 DEF Content
<1>6. TopSeq(log', 0) > lastSeq
  <2>1. log' \in SUBSET Rows /\ lastSeq' \in Nat /\ \A r \in log' : r.seq <= lastSeq'
    BY AppendTyped DEF LogIsNumbered
  <2>2. TopSeq(log', 0) \in Nat /\ \A r \in log' : r.seq <= TopSeq(log', 0)
    BY <2>1, TopSeqIsTop
  <2> DEFINE top == TopSeq(log', 0)
  <2>3. top \in Nat /\ lastSeq + 1 <= top
    BY <1>2, <1>3, <2>2
  <2> HIDE DEF top
  <2>4. top > lastSeq
    BY <1>1, <2>3
  <2> QED BY <2>4 DEF top
<1>7. ASSUME NEW n \in Nat, n <= lastSeq
      PROVE  /\ Upto(n)' = Upto(n)
             /\ After(n)' = After(n) \cup {new}
             /\ new \notin After(n)
  <2>1. Upto(n)' = {r \in log' : r.seq <= n} /\ Upto(n) = {r \in log : r.seq <= n}
    BY DEF Upto
  <2>2. After(n)' = {r \in log' : r.seq > n} /\ After(n) = {r \in log : r.seq > n}
    BY DEF After
  <2> QED BY <1>1, <1>2, <1>3, <1>7, <2>1, <2>2
<1> QED BY <1>3, <1>4, <1>5, <1>6, <1>7 DEF new

\* A rewrite leaves one row, above any old number.
LEMMA ReplaceEffect ==
    ASSUME Typed, NEW edits \in SUBSET Edits, Replace(edits)
    PROVE  /\ Content(log') = edits
           /\ lastSeq' = lastSeq + 1
           /\ ~strained' => ~strained /\ \A p \in Peers : peer[p].pc # "loading"
           /\ \A n \in Nat : n <= lastSeq =>
                 Upto(n)' = {} /\ After(n)' = {Row(lastSeq + 1, edits)}
           /\ \A n \in Nat : n > lastSeq => Upto(n)' = {Row(lastSeq + 1, edits)}
           /\ Content({Row(lastSeq + 1, edits)}) = edits
<1>1. lastSeq \in Nat /\ lastSeq + 1 \in Nat
  BY DEF Typed, RoomTypeOK
<1> DEFINE new == Row(lastSeq + 1, edits)
<1>2. new.seq = lastSeq + 1 /\ new.edits = edits
  BY DEF Row
<1>3. log' = {new} /\ lastSeq' = lastSeq + 1
  BY DEF Replace, NextSeq
<1>4. ~strained' => ~strained /\ \A p \in Peers : peer[p].pc # "loading"
  <2>1. NextSeq
    BY DEF Replace
  <2> QED BY <2>1 DEF NextSeq
<1> HIDE DEF new
<1>5. Content({new}) = edits
  BY <1>2 DEF Content
<1>6. ASSUME NEW n \in Nat, n <= lastSeq
      PROVE  Upto(n)' = {} /\ After(n)' = {new}
  BY <1>1, <1>2, <1>3, <1>6 DEF Upto, After
<1>7. ASSUME NEW n \in Nat, n > lastSeq
      PROVE  Upto(n)' = {new}
  BY <1>1, <1>2, <1>3, <1>7 DEF Upto
<1> QED BY <1>3, <1>4, <1>5, <1>6, <1>7 DEF new

-----------------------------------------------------------------------------
(* The accounting of compact_collab: base_seq and own_appends.               *)

\* When every row above the baseline is the room's own, the replica has the log.
LEMMA AllMineKnowsAll ==
    ASSUME Typed, NEW base \in Nat, NEW own \in Nat, NEW replica,
           Accounts(base, own, replica), Cardinality(After(base)) = own
    PROVE  Content(log) \subseteq replica
<1>1. PICK mine \in SUBSET After(base) :
        Cardinality(mine) = own /\ Content(mine) \subseteq replica
  BY DEF Accounts
<1>2. IsFiniteSet(After(base))
  BY LogSplits, FS_Subset DEF Typed, LogIsNumbered
<1>3. mine = After(base)
  BY <1>1, <1>2, FS_Subset
<1> QED BY <1>1, <1>3, LogSplits DEF Accounts

LEMMA AccountsFresh ==
    ASSUME Typed, NEW base \in Nat, base <= lastSeq, NEW replica,
           Content(Upto(base)) \subseteq replica
    PROVE  Accounts(base, 0, replica)
<1>1. {} \subseteq After(base) /\ Cardinality({}) = 0 /\ Content({}) = {}
  BY FS_EmptySet DEF Content
<1> QED BY <1>1 DEF Accounts

LEMMA AccountsGrows ==
    ASSUME NEW base, NEW own, NEW replica, NEW more, Accounts(base, own, replica),
           replica \subseteq more
    PROVE  Accounts(base, own, more)
BY DEF Accounts

\* Somebody else appends; the room itself appends; the room compacts.
LEMMA AccountsOther ==
    ASSUME Typed, NEW edits \in SUBSET Edits, LogAppend(edits),
           NEW base \in Nat, NEW own, NEW replica, Accounts(base, own, replica)
    PROVE  Accounts(base, own, replica)'
<1>1. base <= lastSeq /\ base <= lastSeq'
  BY AppendEffect DEF Accounts, Typed, RoomTypeOK
<1>2. Upto(base)' = Upto(base) /\ After(base) \subseteq After(base)'
  BY <1>1, AppendEffect
<1>3. PICK mine \in SUBSET After(base) :
        Cardinality(mine) = own /\ Content(mine) \subseteq replica
  BY DEF Accounts
<1>4. mine \in SUBSET (After(base)') /\ Content(Upto(base)') \subseteq replica
  BY <1>2, <1>3 DEF Accounts
<1> QED BY <1>1, <1>3, <1>4 DEF Accounts

LEMMA AccountsOwn ==
    ASSUME Typed, NEW edits \in SUBSET Edits, LogAppend(edits),
           NEW base \in Nat, NEW own \in Nat, NEW replica, Accounts(base, own, replica),
           NEW more, replica \cup edits \subseteq more
    PROVE  Accounts(base, own + 1, more)'
<1> DEFINE new == Row(lastSeq + 1, edits)
<1>1. base <= lastSeq /\ base <= lastSeq'
  BY AppendEffect DEF Accounts, Typed, RoomTypeOK
<1>2. /\ Upto(base)' = Upto(base) /\ After(base)' = After(base) \cup {new}
      /\ new \notin After(base)
  BY <1>1, AppendEffect
<1>3. PICK mine \in SUBSET After(base) :
        Cardinality(mine) = own /\ Content(mine) \subseteq replica
  BY DEF Accounts
<1>4. Content({new}) = edits
  BY DEF Content, Row
<1> HIDE DEF new
<1>5. IsFiniteSet(mine) /\ new \notin mine
  BY <1>2, LogSplits, FS_Subset DEF Typed, LogIsNumbered
<1>6. Cardinality(mine \cup {new}) = own + 1
  BY <1>3, <1>5, FS_AddElement
<1>7. Content(mine \cup {new}) \subseteq more
  BY <1>3, <1>4, ContentOfBoth
<1>8. mine \cup {new} \in SUBSET (After(base)') /\ Content(Upto(base)') \subseteq more
  BY <1>2, <1>3 DEF Accounts
<1> QED BY <1>1, <1>6, <1>7, <1>8 DEF Accounts

LEMMA AccountsCompacted ==
    ASSUME Typed, NEW edits \in SUBSET Edits, Replace(edits),
           NEW base \in Nat, base <= lastSeq, NEW replica, edits \subseteq replica
    PROVE  Accounts(base, 1, replica)'
<1> DEFINE new == Row(lastSeq + 1, edits)
<1>0. lastSeq \in Nat /\ lastSeq' = lastSeq + 1
  BY ReplaceEffect DEF Typed, RoomTypeOK
<1>1. base <= lastSeq' /\ Upto(base)' = {} /\ After(base)' = {new} /\ Content({new}) = edits
  BY <1>0, ReplaceEffect
<1> HIDE DEF new
<1>2. Cardinality({new}) = 1 /\ Content({}) = {}
  BY FS_Singleton DEF Content
<1>3. {new} \in SUBSET (After(base)') /\ Content(Upto(base)') \subseteq replica
  BY <1>1, <1>2
<1> QED BY <1>1, <1>2, <1>3 DEF Accounts

LEMMA AccountsReset ==
    ASSUME Typed, NEW edits \in SUBSET Edits, Replace(edits), NEW base \in Nat,
           base = lastSeq + 1, NEW replica, edits \subseteq replica
    PROVE  Accounts(base, 0, replica)'
<1>0. lastSeq \in Nat /\ lastSeq' = lastSeq + 1
  BY ReplaceEffect DEF Typed, RoomTypeOK
<1>1. base <= lastSeq' /\ Upto(base)' = {Row(lastSeq + 1, edits)}
      /\ Content({Row(lastSeq + 1, edits)}) = edits
  BY <1>0, ReplaceEffect
<1>2. {} \in SUBSET (After(base)') /\ Cardinality({}) = 0 /\ Content({}) = {}
  BY FS_EmptySet DEF Content
<1> QED BY <1>1, <1>2 DEF Accounts

-----------------------------------------------------------------------------
(* What most steps leave alone.                                              *)

\* Whoever works on a room or is in it keeps it open.
LEMMA OccupiedIsOpen ==
    ASSUME Placed, NEW r \in RoomIds, \/ work[r].pc # "idle"
                                      \/ \E p \in Peers : peer[p].room = r
    PROVE  flusher[r].pc # "free"
<1>0. Typed /\ PlaceInv
  BY DEF Placed
<1>1. CASE \E p \in Peers : peer[p].room = r
  BY <1>0, <1>1, RoomAssumption DEF PlaceInv, OneReplica, RoundsAreMapped, Busy
<1>2. CASE work[r].pc # "idle" /\ \A p \in Peers : peer[p].room # r
  <2>1. work[r].pc \in Flushing \cup Resetting /\ work[r].by \in Peers \cup {Flusher}
    BY <1>0, <1>2, RoomParts DEF WorkState, Flushing, Resetting, Locks
  <2> QED BY <1>0, <1>2, <2>1 DEF PlaceInv, LockIsHeld, Waits, Peers
<1> QED BY <1>1, <1>2

\* The room of somebody who works in it.
LEMMA InsideRoom ==
    ASSUME Placed, NEW p \in Peers, peer[p].pc \notin Joining
    PROVE  peer[p].room \in RoomIds /\ flusher[peer[p].room].pc # "free"
<1>1. peer[p].room \in RoomIds
  BY PeerParts DEF Placed, PlaceInv, PeersAreSomewhere
<1> QED BY <1>1, OccupiedIsOpen

JoinCalm(q) ==
    /\ peer'[q].pc = "loading" => peer[q].pc = "loading" /\ peer'[q].rows = peer[q].rows
    /\ peer'[q].pc \in {"loaded", "asked"} =>
          /\ peer[q].pc \in {"loaded", "asked"}
          /\ peer'[q].rows = peer[q].rows /\ peer'[q].seen = peer[q].seen

LEMMA JoinsStay ==
    ASSUME Placed, JoinsAreWhole, \A q \in Peers : JoinCalm(q),
           \/ UNCHANGED <<log, lastSeq, strained>>
           \/ \E edits \in SUBSET Edits : LogAppend(edits)
           \/ \E edits \in SUBSET Edits :
                Replace(edits) /\ (~strained' => Content(log) \subseteq edits)
    PROVE  JoinsAreWhole'
<1>0. Typed
  BY DEF Placed
<1> SUFFICES ASSUME ~strained', NEW q \in Peers
             PROVE  /\ peer'[q].pc = "loading" => peer'[q].rows = log'
                    /\ peer'[q].pc \in {"loaded", "asked"} =>
                          /\ peer'[q].seen <= lastSeq'
                          /\ Content(Upto(peer[q].seen)') \subseteq Content(peer'[q].rows)
                          /\ Content(peer'[q].rows) \subseteq Content(log')
  BY DEF JoinsAreWhole
<1>1. JoinCalm(q)
  OBVIOUS
<1>2. PICK seen \in Nat : seen = peer[q].seen
  BY <1>0, PeerParts
<1>3. lastSeq \in Nat
  BY <1>0 DEF Typed, RoomTypeOK
<1>4. CASE UNCHANGED <<log, lastSeq, strained>>
  <2>1. \A n \in Nat : Upto(n)' = Upto(n)
    BY <1>4 DEF Upto
  <2> QED BY <1>1, <1>2, <1>4, <2>1 DEF JoinsAreWhole, JoinCalm
<1>5. CASE \E edits \in SUBSET Edits : LogAppend(edits)
  <2>1. PICK edits \in SUBSET Edits : LogAppend(edits)
    BY <1>5
  <2>2. /\ Content(log) \subseteq Content(log') /\ lastSeq' = lastSeq + 1
        /\ ~strained /\ peer[q].pc # "loading"
        /\ seen <= lastSeq => Upto(seen)' = Upto(seen)
    BY <1>0, <1>3, <2>1, AppendEffect
  <2> QED BY <1>1, <1>2, <1>3, <2>2 DEF JoinsAreWhole, JoinCalm
<1>6. CASE \E edits \in SUBSET Edits :
             Replace(edits) /\ (~strained' => Content(log) \subseteq edits)
  <2>1. PICK edits \in SUBSET Edits : Replace(edits) /\ Content(log) \subseteq edits
    BY <1>6
  <2>2. /\ Content(log') = edits /\ lastSeq' = lastSeq + 1
        /\ ~strained /\ peer[q].pc # "loading"
        /\ seen <= lastSeq => Upto(seen)' = {}
    BY <1>0, <1>3, <2>1, ReplaceEffect
  <2>3. Content({}) = {}
    BY DEF Content
  <2> QED BY <1>1, <1>2, <1>3, <2>1, <2>2, <2>3 DEF JoinsAreWhole, JoinCalm
<1> QED BY <1>4, <1>5, <1>6

\* A room keeps what counts of it.
RoomCalm(r) ==
    flusher'[r].pc # "free" =>
        /\ flusher[r].pc # "free"
        /\ room'[r].replica = room[r].replica /\ room'[r].pending = room[r].pending
        /\ room'[r].base = room[r].base /\ room'[r].own = room[r].own
        /\ work'[r] = work[r]

SameHands(q) == \A r \in RoomIds, e \in Edits : Carries(q, r, e)' <=> Carries(q, r, e)

LEMMA HandsStay ==
    ASSUME \A q \in Peers : SameHands(q), NEW r \in RoomIds
    PROVE  InHands(r)' = InHands(r)
BY DEF InHands, SameHands

LEMMA RoomStays ==
    ASSUME Placed, NEW r \in RoomIds, RoomGood(r), UNCHANGED <<log, lastSeq>>,
           flusher'[r].pc # "free", RoomCalm(r), \A q \in Peers : SameHands(q)
    PROVE  RoomGood(r)'
<1>1. InHands(r)' = InHands(r)
  BY HandsStay
<1>2. \A b, o, s : Accounts(b, o, s)' <=> Accounts(b, o, s)
  BY DEF Accounts, Upto, After
<1>3. \A b : Upto(b)' = Upto(b)
  BY DEF Upto
<1>4. Sound(room[r], work[r])'
  BY <1>2, <1>3 DEF RoomGood, Sound, RoomCalm
<1>5. Kept(room[r], work[r], InHands(r))'
  BY <1>1 DEF RoomGood, Kept, RoomCalm
<1> QED BY <1>4, <1>5 DEF RoomGood

LEMMA RoomsStay ==
    ASSUME Placed, RoomsAreGood, UNCHANGED <<log, lastSeq, strained>>,
           \A r \in RoomIds : RoomCalm(r), \A q \in Peers : SameHands(q)
    PROVE  RoomsAreGood'
<1> SUFFICES ASSUME ~strained', NEW r \in RoomIds, flusher'[r].pc # "free"
             PROVE  RoomGood(r)'
  BY DEF RoomsAreGood
<1>1. flusher[r].pc # "free"
  BY DEF RoomCalm
<1> QED BY <1>1, RoomStays DEF RoomsAreGood

\* In an unstrained history the room that is open is the only one.
LEMMA OnlyRoom ==
    ASSUME Placed', NEW r \in RoomIds, flusher'[r].pc # "free", ~strained' => RoomGood(r)'
    PROVE  RoomsAreGood'
BY DEF RoomsAreGood, Placed, PlaceInv, OneRoom

-----------------------------------------------------------------------------
(* What is shown is kept, step by step.                                      *)

LEMMA InstallKeep ==
    ASSUME Placed, Placed', KeepInv, NEW p \in Peers, Install(p)
    PROVE  KeepInv'
<1>0. /\ Typed /\ PlaceInv /\ peer \in [Peers -> PeerState]
      /\ flusher \in [RoomIds -> FlusherState] /\ room \in [RoomIds -> RoomState]
  BY DEF Placed, Typed, RoomTypeOK
<1>1. PICK r \in RoomIds :
        /\ flusher[r].pc = "free" /\ map = NoRoom
        /\ strained' = (strained \/ \E q \in RoomIds : flusher[q].pc # "free")
        /\ room' = [room EXCEPT ![r] = Fresh(peer[p].rows, peer[p].seen, peer[p].frozen)]
        /\ flusher' = [flusher EXCEPT ![r].pc = "tick"]
        /\ peer' = [peer EXCEPT ![p] = [Out EXCEPT !.pc = "in", !.room = r]]
        /\ peer[p].pc = "asked"
        /\ UNCHANGED <<work, log, lastSeq>>
  BY DEF Install, dbVars
<1>2. /\ peer'[p].pc = "in" /\ peer'[p].hand = NoEdit
      /\ \A q \in Peers \ {p} : peer'[q] = peer[q]
  BY <1>0, <1>1 DEF Out
<1>3. flusher'[r].pc # "free"
  BY <1>0, <1>1 DEF FlusherState
<1>4. JoinsAreWhole'
  <2>1. ASSUME ~strained', NEW q \in Peers
        PROVE  /\ peer'[q].pc = "loading" => peer'[q].rows = log'
               /\ peer'[q].pc \in {"loaded", "asked"} =>
                     /\ peer'[q].seen <= lastSeq'
                     /\ Content({s \in log' : s.seq <= peer'[q].seen}) \subseteq Content(peer'[q].rows)
                     /\ Content(peer'[q].rows) \subseteq Content(log')
    <3>1. ~strained
      BY <1>1, <2>1
    <3> QED BY <1>1, <1>2, <3>1 DEF KeepInv, JoinsAreWhole, Upto
  <2> QED BY <2>1 DEF JoinsAreWhole, Upto
<1>5. ASSUME ~strained' PROVE RoomGood(r)'
  <2>1. ~strained
    BY <1>1, <1>5
  <2>2. /\ room'[r].replica = Content(peer[p].rows) /\ room'[r].pending = {}
        /\ room'[r].base = peer[p].seen /\ room'[r].own = 0
    BY <1>0, <1>1 DEF Fresh
  <2>3. work'[r].pc = "idle" /\ work'[r].batch = {}
    <3>1. work[r].pc = "idle"
      BY <1>1, OccupiedIsOpen
    <3> QED BY <1>0, <1>1, <3>1 DEF PlaceInv, LockIsHeld, Idle
  <2>4. InHands(r)' = {}
    <3>1. \A q \in Peers \ {p} : peer'[q].room # r
      BY <1>0, <1>1, <1>2, RoomAssumption DEF PlaceInv, OneReplica
    <3> QED BY <1>2, <3>1, RoomAssumption DEF InHands, Carries
  <2>5. PICK seen \in Nat : seen = peer[p].seen
    BY <1>0, PeerParts
  <2>6. /\ seen <= lastSeq /\ Content(Upto(seen)) \subseteq Content(peer[p].rows)
        /\ Content(peer[p].rows) \subseteq Content(log)
    BY <1>1, <2>1, <2>5 DEF KeepInv, JoinsAreWhole
  <2>7. Accounts(seen, 0, Content(peer[p].rows))
    BY <1>0, <2>6, AccountsFresh
  <2>8. \A s : Accounts(seen, 0, s) => Accounts(seen, 0, s)'
    BY <1>1 DEF Accounts, Upto, After
  <2>9. Sound(room[r], work[r])'
    BY <2>2, <2>3, <2>5, <2>7, <2>8 DEF Sound
  <2>10. Kept(room[r], work[r], InHands(r))'
    BY <1>1, <2>2, <2>4, <2>6 DEF Kept
  <2> QED BY <2>9, <2>10 DEF RoomGood
<1>6. RoomsAreGood'
  BY <1>3, <1>5, OnlyRoom
<1> QED BY <1>4, <1>6 DEF KeepInv

LEMMA JoinKeep ==
    ASSUME Placed, Placed', KeepInv, NEW p \in Peers, Join(p)
    PROVE  KeepInv'
<1>0. Typed /\ PlaceInv /\ peer \in [Peers -> PeerState] /\ JoinsAreWhole /\ RoomsAreGood
  BY DEF Placed, Typed, RoomTypeOK, KeepInv
<1>1. CASE Install(p)
  BY <1>1, InstallKeep
<1>2. CASE ~Install(p)
  <2>1. UNCHANGED <<log, lastSeq, room, work, flusher, strained>>
    BY <1>2 DEF Join, JoinOpen, JoinWinner, Load, ReadTop, AskFrozen, JoinAgain, dbVars
  <2>2. /\ peer[p].pc \in Joining /\ peer[p].hand = NoEdit
        /\ \A q \in Peers \ {p} : peer'[q] = peer[q]
    BY <1>0, <1>2 DEF Join, JoinOpen, JoinWinner, Load, ReadTop, AskFrozen, JoinAgain,
       Joining, PlaceInv, PeersAreSomewhere
  <2>3. peer'[p].hand = NoEdit
    <3>1. CASE JoinOpen(p) \/ JoinWinner(p) \/ Load(p)
      BY <1>0, <3>1 DEF JoinOpen, JoinWinner, Load, Out
    <3>2. CASE ReadTop(p)
      BY <1>0, <2>2, <3>2 DEF ReadTop, PeerState
    <3>3. CASE AskFrozen(p)
      BY <1>0, <2>2, <3>3 DEF AskFrozen, PeerState
    <3>4. CASE JoinAgain(p)
      BY <1>0, <2>2, <3>4 DEF JoinAgain, Out, PeerState
    <3> QED BY <1>2, <3>1, <3>2, <3>3, <3>4 DEF Join
  <2>4. RoomsAreGood'
    <3>1. \A q \in Peers : SameHands(q)
      BY <2>2, <2>3, RoomAssumption DEF SameHands, Carries
    <3>2. \A r \in RoomIds : RoomCalm(r)
      BY <2>1 DEF RoomCalm
    <3> QED BY <1>0, <2>1, <3>1, <3>2, RoomsStay
  <2>5. CASE JoinOpen(p) \/ JoinWinner(p) \/ AskFrozen(p) \/ JoinAgain(p)
    <3>1. JoinCalm(p)
      <4>1. CASE JoinOpen(p) \/ JoinWinner(p)
        BY <1>0, <4>1 DEF JoinOpen, JoinWinner, Out, JoinCalm
      <4>2. CASE AskFrozen(p)
        BY <1>0, <4>2 DEF AskFrozen, PeerState, JoinCalm
      <4>3. CASE JoinAgain(p)
        BY <1>0, <4>3 DEF JoinAgain, Out, PeerState, JoinCalm
      <4> QED BY <2>5, <4>1, <4>2, <4>3
    <3>2. \A q \in Peers : JoinCalm(q)
      BY <2>2, <3>1 DEF JoinCalm
    <3> QED BY <1>0, <2>1, <2>4, <3>2, JoinsStay DEF KeepInv
  <2>6. CASE Load(p)
    <3>1. peer'[p].pc = "loading" /\ peer'[p].rows = log
      BY <1>0, <2>6 DEF Load, Out
    <3>2. JoinsAreWhole'
      BY <1>0, <2>1, <2>2, <3>1 DEF JoinsAreWhole, Upto
    <3> QED BY <2>4, <3>2 DEF KeepInv
  <2>7. CASE ReadTop(p)
    <3>1. /\ peer'[p].pc = "loaded" /\ peer'[p].rows = peer[p].rows
          /\ peer'[p].seen = TopSeq(log, 0) /\ peer[p].pc = "loading"
      BY <1>0, <2>7 DEF ReadTop, PeerState
    <3>2. PICK top \in Nat : top = TopSeq(log, 0) /\ top <= lastSeq
      BY <1>0, TopTyped
    <3>3. Content(Upto(top)) \subseteq Content(log)
      BY <1>0, <3>2, LogSplits, ContentGrows
    <3>4. Upto(top)' = Upto(top) /\ Content(log') = Content(log)
      BY <2>1 DEF Upto
    <3>5. ASSUME ~strained
          PROVE  /\ peer'[p].seen <= lastSeq'
                 /\ Content({s \in log' : s.seq <= peer'[p].seen}) \subseteq Content(peer'[p].rows)
                 /\ Content(peer'[p].rows) \subseteq Content(log')
      <4>1. peer[p].rows = log
        BY <1>0, <3>1, <3>5 DEF JoinsAreWhole
      <4> QED BY <2>1, <3>1, <3>2, <3>3, <4>1 DEF Upto
    <3>6. JoinsAreWhole'
      BY <1>0, <2>1, <2>2, <3>1, <3>5 DEF JoinsAreWhole, Upto
    <3> QED BY <2>4, <3>6 DEF KeepInv
  <2> QED BY <1>2, <2>5, <2>6, <2>7 DEF Join
<1> QED BY <1>1, <1>2

LEMMA PublishKeep ==
    ASSUME Placed, Placed', KeepInv, Freeze \/ Publish
    PROVE  KeepInv'
<1>0. /\ peer \in [Peers -> PeerState] /\ flusher \in [RoomIds -> FlusherState]
      /\ room \in [RoomIds -> RoomState]
      /\ UNCHANGED <<log, lastSeq, work, strained>>
  BY DEF Placed, Typed, RoomTypeOK, Freeze, Publish, ResyncStart, ResyncRead, ResyncPublish, dbVars
<1>1. ASSUME NEW q \in Peers
      PROVE  /\ peer'[q].pc = peer[q].pc /\ peer'[q].rows = peer[q].rows
             /\ peer'[q].seen = peer[q].seen /\ peer'[q].room = peer[q].room
             /\ peer'[q].hand = peer[q].hand
  <2>1. CASE ResyncStart
    BY <1>0, <2>1 DEF ResyncStart, PeerState
  <2>2. CASE peer' = peer
    BY <2>2
  <2> QED BY <2>1, <2>2 DEF Freeze, Publish, ResyncRead, ResyncPublish
<1>2. ASSUME NEW r \in RoomIds PROVE RoomCalm(r)
  <2>1. flusher'[r].pc = flusher[r].pc
    <3>1. CASE ResyncStart
      BY <1>0, <3>1 DEF ResyncStart, FlusherState
    <3>2. CASE flusher' = flusher
      BY <3>2
    <3> QED BY <3>1, <3>2 DEF Freeze, Publish, ResyncRead, ResyncPublish
  <2>2. /\ room'[r].replica = room[r].replica /\ room'[r].pending = room[r].pending
        /\ room'[r].base = room[r].base /\ room'[r].own = room[r].own
    <3>1. CASE ResyncPublish
      BY <1>0, <3>1 DEF ResyncPublish, RoomState
    <3>2. CASE room' = room
      BY <3>2
    <3> QED BY <3>1, <3>2 DEF Freeze, Publish, ResyncRead, ResyncStart
  <2> QED BY <1>0, <2>1, <2>2 DEF RoomCalm
<1>3. \A q \in Peers : SameHands(q) /\ JoinCalm(q)
  BY <1>1 DEF SameHands, Carries, JoinCalm
<1> QED BY <1>0, <1>2, <1>3, RoomsStay, JoinsStay DEF KeepInv

LEMMA OfflineKeep ==
    ASSUME Placed, Placed', KeepInv, NEW e \in Edits, EditOffline(e)
    PROVE  KeepInv'
<1>0. Typed /\ UNCHANGED <<room, work, flusher, peer>>
  BY DEF Placed, EditOffline
<1>1. PICK edits \in SUBSET Edits : LogAppend(edits)
  <2>1. Content(log) \cup {e} \in SUBSET Edits
    BY <1>0, ContentType DEF Typed, RoomTypeOK
  <2> QED BY <2>1 DEF EditOffline
<1>2. JoinsAreWhole'
  <2>1. \A q \in Peers : JoinCalm(q)
    BY <1>0 DEF JoinCalm
  <2> QED BY <1>1, <2>1, JoinsStay DEF KeepInv
<1>3. ASSUME ~strained', NEW r \in RoomIds, flusher'[r].pc # "free" PROVE RoomGood(r)'
  <2>1. /\ Content(log) \subseteq Content(log') /\ lastSeq' = lastSeq + 1 /\ ~strained
        /\ TopSeq(log', 0) > lastSeq
    BY <1>0, <1>1, <1>3, AppendEffect
  <2>2. Sound(room[r], work[r]) /\ Kept(room[r], work[r], InHands(r))
    BY <1>0, <1>3, <2>1 DEF KeepInv, RoomsAreGood, RoomGood
  <2>3. PICK base \in Nat : base = room[r].base
    BY <1>0, RoomParts
  <2>4. \A o, s : Accounts(base, o, s) => Accounts(base, o, s)'
    BY <1>0, <1>1, AccountsOther
  <2>5. base <= lastSeq /\ Upto(base)' = Upto(base)
    BY <1>0, <1>1, <2>2, <2>3, AppendEffect DEF Sound, Accounts
  <2>6. PICK seen \in Nat : seen = work[r].seen
    BY <1>0, RoomParts
  <2>7. work[r].pc = "commit" => seen <= lastSeq' /\ TopSeq(log', 0) # seen
    BY <1>0, <2>1, <2>2, <2>6 DEF Sound, Typed, RoomTypeOK
  <2>8. Sound(room[r], work[r])'
    BY <1>0, <2>2, <2>3, <2>4, <2>5, <2>6, <2>7 DEF Sound
  <2>9. Kept(room[r], work[r], InHands(r))'
    BY <1>0, <2>1, <2>2 DEF Kept, InHands, Carries
  <2> QED BY <2>8, <2>9 DEF RoomGood
<1> QED BY <1>2, <1>3 DEF KeepInv, RoomsAreGood

\* What no transaction touched counts as before.
LEMMA AccountsStay ==
    ASSUME UNCHANGED <<log, lastSeq>>
    PROVE  /\ \A b, o, s : Accounts(b, o, s)' <=> Accounts(b, o, s)
           /\ \A b : Upto(b)' = Upto(b)
           /\ Content(log') = Content(log) /\ TopSeq(log', 0) = TopSeq(log, 0)
BY DEF Accounts, Upto, After

\* Before a step, the room of whoever works in it is good.
LEMMA GoodInside ==
    ASSUME Placed, RoomsAreGood, ~strained, NEW r \in RoomIds, flusher[r].pc # "free"
    PROVE  /\ Sound(room[r], work[r]) /\ Kept(room[r], work[r], InHands(r))
           /\ work[r].pc = "idle" => work[r] = Idle
BY DEF RoomsAreGood, RoomGood, Placed, PlaceInv, LockIsHeld

\* An edit that the replica takes, and whoever made it carries.
LEMMA ApplyKeep ==
    ASSUME Placed, Placed', RoomsAreGood, NEW p \in Peers, NEW e \in Edits, NEW r \in RoomIds,
           r = peer[p].room, flusher[r].pc # "free", peer[p].hand = NoEdit,
           room' = [room EXCEPT ![r].replica = room[r].replica \cup {e}],
           UNCHANGED <<log, lastSeq, work, flusher, strained>>,
           \A q \in Peers \ {p} : peer'[q] = peer[q],
           peer'[p].room = r, peer'[p].pc = "in",
           peer'[p].hand = IF e \in room[r].replica THEN NoEdit ELSE e
    PROVE  RoomsAreGood'
<1>0. Typed /\ room \in [RoomIds -> RoomState]
  BY DEF Placed, Typed, RoomTypeOK
<1>1. ASSUME ~strained' PROVE RoomGood(r)'
  <2>1. Sound(room[r], work[r]) /\ Kept(room[r], work[r], InHands(r))
    BY <1>1, GoodInside
  <2>2. /\ room'[r].replica = room[r].replica \cup {e}
        /\ room'[r].pending = room[r].pending
        /\ room'[r].base = room[r].base /\ room'[r].own = room[r].own /\ work'[r] = work[r]
    BY <1>0 DEF RoomState
  <2>3. InHands(r)' = InHands(r) \cup {e} \/ (InHands(r)' = InHands(r) /\ e \in room[r].replica)
    BY RoomAssumption DEF InHands, Carries
  <2>4. Kept(room[r], work[r], InHands(r))'
    <3>1. Kept(room[r], work[r], InHands(r))' <=>
            /\ room'[r].replica \subseteq Content(log') \cup room'[r].pending \cup work'[r].batch
                                          \cup InHands(r)'
            /\ InHands(r)' \subseteq room'[r].replica
      BY DEF Kept
    <3>2. Content(log') = Content(log)
      OBVIOUS
    <3> QED BY <2>1, <2>2, <2>3, <3>1, <3>2 DEF Kept
  <2>5. \A b, o, s, t : Accounts(b, o, s) /\ s \subseteq t => Accounts(b, o, t)'
    BY AccountsStay, AccountsGrows
  <2>6. Sound(room[r], work[r])'
    BY <2>1, <2>2, <2>5, AccountsStay DEF Sound
  <2> QED BY <2>4, <2>6 DEF RoomGood
<1> QED BY <1>1, OnlyRoom

LEMMA EditKeep ==
    ASSUME Placed, Placed', KeepInv, NEW p \in Peers, NEW e \in Edits, Edit(p, e)
    PROVE  KeepInv'
<1>0. /\ Typed /\ PlaceInv /\ JoinsAreWhole /\ RoomsAreGood
      /\ peer \in [Peers -> PeerState] /\ room \in [RoomIds -> RoomState]
      /\ work \in [RoomIds -> WorkState]
  BY DEF Placed, Typed, RoomTypeOK, KeepInv
<1>1. peer[p].pc \in {"in", "acked"}
  BY DEF Edit, SendDropped, Send, Mutate, ResetTake, MutateDurable, Sends
<1>2. PICK r \in RoomIds : r = peer[p].room /\ flusher[r].pc # "free"
  BY <1>1, InsideRoom DEF Joining
<1>3. /\ peer[p].pc \in {"in", "acked"} /\ peer[p].hand = NoEdit
      /\ \A q \in Peers \ {p} : peer'[q] = peer[q]
      /\ peer'[p].pc \in {"in", "parted", "reset"} /\ peer'[p].room = r
  BY <1>0, <1>2 DEF Edit, SendDropped, Send, Mutate, ResetTake, MutateDurable, Sends, PeerState
<1>4. \A q \in Peers : JoinCalm(q)
  BY <1>3 DEF JoinCalm
<1>5. CASE SendDropped(p, e)
  <2>1. peer'[p].hand = NoEdit /\ UNCHANGED <<log, lastSeq, room, work, flusher, strained>>
    BY <1>0, <1>3, <1>5 DEF SendDropped, PeerState, dbVars
  <2>2. \A q \in Peers : SameHands(q)
    BY <1>3, <2>1, RoomAssumption DEF SameHands, Carries
  <2>3. \A s \in RoomIds : RoomCalm(s)
    BY <2>1 DEF RoomCalm
  <2> QED BY <1>0, <1>4, <2>1, <2>2, <2>3, RoomsStay, JoinsStay DEF KeepInv
<1>6. CASE Send(p, e) \/ Mutate(p, e)
  <2>1. /\ room' = [room EXCEPT ![r].replica = room[r].replica \cup {e}]
        /\ UNCHANGED <<log, lastSeq, work, flusher, strained>>
        /\ peer'[p].hand = IF e \in room[r].replica THEN NoEdit ELSE e
        /\ peer'[p].pc = "in"
    <3>1. CASE Send(p, e)
      BY <1>0, <1>3, <1>2, <3>1 DEF Send, PeerState, dbVars
    <3>2. CASE Mutate(p, e)
      BY <1>0, <1>3, <1>2, <3>2 DEF Mutate, PeerState, dbVars
    <3> QED BY <1>6, <3>1, <3>2
  <2>2. RoomsAreGood'
    BY <1>0, <1>3, <1>2, <2>1, ApplyKeep
  <2> QED BY <1>0, <1>4, <2>1, <2>2, JoinsStay DEF KeepInv
<1>7. CASE ResetTake(p, e)
  <2>1. /\ room' = [room EXCEPT ![r].pending = {}] /\ work[r].pc = "idle"
        /\ work' = [work EXCEPT ![r] = [Idle EXCEPT !.pc = "reset", !.by = p,
                                                    !.batch = room[r].pending]]
        /\ UNCHANGED <<log, lastSeq, flusher, strained>>
    BY <1>2, <1>7 DEF ResetTake, dbVars
  <2>2. peer'[p].pc = "reset"
    BY <1>0, <1>7 DEF ResetTake, PeerState
  <2>3. ASSUME ~strained' PROVE RoomGood(r)'
    <3>1. /\ Sound(room[r], work[r]) /\ Kept(room[r], work[r], InHands(r)) /\ work[r] = Idle
      BY <1>0, <1>2, <2>1, <2>3, GoodInside
    <3>2. /\ room'[r].replica = room[r].replica /\ room'[r].pending = {}
          /\ room'[r].base = room[r].base /\ room'[r].own = room[r].own
          /\ work'[r].pc = "reset" /\ work'[r].batch = room[r].pending
      BY <1>0, <1>2, <2>1 DEF RoomState, Idle
    <3>3. InHands(r)' = InHands(r)
      BY <1>3, <2>2, RoomAssumption DEF InHands, Carries
    <3>4. Sound(room[r], work[r])'
      BY <2>1, <3>1, <3>2, AccountsStay DEF Sound
    <3>5. Kept(room[r], work[r], InHands(r))'
      BY <2>1, <3>1, <3>2, <3>3 DEF Kept, Idle
    <3> QED BY <3>4, <3>5 DEF RoomGood
  <2>4. RoomsAreGood'
    BY <1>2, <2>1, <2>3, OnlyRoom
  <2> QED BY <1>0, <1>4, <2>1, <2>4, JoinsStay DEF KeepInv
<1>8. CASE MutateDurable(p, e)
  <2>0. PICK state : state = room[r].replica \cup {e}
    OBVIOUS
  <2>1. /\ LogAppend(state) /\ work[r].pc = "idle"
        /\ room' = [room EXCEPT ![r] = [room[r] EXCEPT !.replica = state, !.own = room[r].own + 1]]
        /\ UNCHANGED <<work, flusher>>
    BY <1>2, <1>8, <2>0 DEF MutateDurable
  <2>2. state \in SUBSET Edits
    BY <1>0, <1>2, <2>0, RoomParts
  <2>3. peer'[p].pc = "parted"
    BY <1>0, <1>8 DEF MutateDurable, PeerState
  <2>4. ASSUME ~strained' PROVE RoomGood(r)'
    <3>1. ~strained /\ Content(log') = Content(log) \cup state
      BY <1>0, <2>1, <2>2, <2>4, AppendEffect
    <3>2. /\ Sound(room[r], work[r]) /\ Kept(room[r], work[r], InHands(r)) /\ work[r] = Idle
      BY <1>0, <1>2, <2>1, <3>1, GoodInside
    <3>3. /\ room'[r].replica = state /\ room'[r].pending = room[r].pending
          /\ room'[r].base = room[r].base /\ room'[r].own = room[r].own + 1
          /\ work'[r].pc = "idle" /\ work'[r].batch = {}
      BY <1>0, <1>2, <2>1, <3>2 DEF RoomState, Idle
    <3>4. InHands(r)' = InHands(r)
      BY <1>3, <2>3, RoomAssumption DEF InHands, Carries
    <3>5. PICK base \in Nat : base = room[r].base
      BY <1>0, <1>2, RoomParts
    <3>6. PICK own \in Nat : own = room[r].own
      BY <1>0, <1>2, RoomParts
    <3>8. Accounts(base, own + 1, state)'
      <4>1. Accounts(base, own, room[r].replica) /\ room[r].replica \cup state \subseteq state
        BY <3>2, <3>5, <3>6, <2>0 DEF Sound
      <4> QED BY <1>0, <2>1, <2>2, <4>1, AccountsOwn
    <3>9. Sound(room[r], work[r])'
      BY <3>2, <3>3, <2>0, <3>5, <3>6, <3>8 DEF Sound, Idle
    <3>10. Kept(room[r], work[r], InHands(r))'
      BY <2>0, <3>1, <3>2, <3>3, <3>4 DEF Kept
    <3> QED BY <3>9, <3>10 DEF RoomGood
  <2>5. RoomsAreGood'
    BY <1>2, <2>1, <2>4, OnlyRoom
  <2> QED BY <1>0, <1>4, <2>1, <2>2, <2>5, JoinsStay DEF KeepInv
<1> QED BY <1>5, <1>6, <1>7, <1>8 DEF Edit

LEMMA PushKeep ==
    ASSUME Placed, Placed', KeepInv, NEW p \in Peers, Push(p)
    PROVE  KeepInv'
<1>0. /\ Typed /\ PlaceInv /\ JoinsAreWhole /\ RoomsAreGood
      /\ peer \in [Peers -> PeerState] /\ room \in [RoomIds -> RoomState]
  BY DEF Placed, Typed, RoomTypeOK, KeepInv
<1>1. peer[p].pc = "in" /\ peer[p].hand # NoEdit /\ peer[p].hand \in Edits
  BY <1>0, PeerParts DEF Push
<1>2. PICK r \in RoomIds : r = peer[p].room /\ flusher[r].pc # "free"
  BY <1>1, InsideRoom DEF Joining
<1>3. PICK e \in Edits : e = peer[p].hand
  BY <1>1
<1>4. /\ room' = [room EXCEPT ![r].pending = room[r].pending \cup {e}]
      /\ UNCHANGED <<log, lastSeq, work, flusher, strained>>
      /\ peer'[p].pc \in {"persist", "parted", "in"} /\ peer'[p].hand = NoEdit
      /\ \A q \in Peers \ {p} : peer'[q] = peer[q]
  BY <1>0, <1>2, <1>3 DEF Push, PeerState, dbVars
<1>5. ASSUME ~strained' PROVE RoomGood(r)'
  <2>1. Sound(room[r], work[r]) /\ Kept(room[r], work[r], InHands(r))
    BY <1>0, <1>2, <1>4, <1>5, GoodInside
  <2>2. /\ room'[r].pending = room[r].pending \cup {e} /\ room'[r].replica = room[r].replica
        /\ room'[r].base = room[r].base /\ room'[r].own = room[r].own /\ work'[r] = work[r]
    BY <1>0, <1>2, <1>4 DEF RoomState
  <2>3. /\ InHands(r)' \subseteq InHands(r) /\ InHands(r) \subseteq InHands(r)' \cup {e}
        /\ e \in InHands(r)
    BY <1>1, <1>2, <1>3, <1>4, RoomAssumption DEF InHands, Carries
  <2>4. Sound(room[r], work[r])'
    BY <1>4, <2>1, <2>2, <2>3, AccountsStay DEF Sound, Kept
  <2>5. Kept(room[r], work[r], InHands(r))'
    BY <1>4, <2>1, <2>2, <2>3 DEF Kept
  <2> QED BY <2>4, <2>5 DEF RoomGood
<1>6. RoomsAreGood'
  BY <1>2, <1>4, <1>5, OnlyRoom
<1>7. \A q \in Peers : JoinCalm(q)
  BY <1>4 DEF JoinCalm
<1> QED BY <1>0, <1>4, <1>6, <1>7, JoinsStay DEF KeepInv

LEMMA PeerKeep ==
    ASSUME Placed, Placed', KeepInv, NEW p \in Peers,
           Finish(p) \/ Hangup(p) \/ AskSaved(p) \/ Reply(p) \/ Recheck(p) \/ EndSession(p)
    PROVE  KeepInv'
<1>0. Typed /\ PlaceInv /\ peer \in [Peers -> PeerState] /\ JoinsAreWhole /\ RoomsAreGood
  BY DEF Placed, Typed, RoomTypeOK, KeepInv
<1>1. CASE Push(p)
  BY <1>1, PushKeep
<1>2. CASE ~Push(p)
  <2>1. UNCHANGED <<log, lastSeq, room, work, flusher, strained>>
    BY <1>2 DEF Finish, Leave, Hangup, AskSaved, Reply, Recheck, EndSession, dbVars
  <2>2. ASSUME NEW q \in Peers
        PROVE  \/ peer'[q] = peer[q]
               \/ /\ peer[q].hand = NoEdit /\ peer'[q].hand = NoEdit
                  /\ peer'[q].pc \notin {"loading", "loaded", "asked"}
    <3>1. CASE Leave(p)
      BY <1>0, <3>1 DEF Leave, Out, PlaceInv, PeersAreSomewhere
    <3>2. CASE Hangup(p)
      BY <1>0, <3>2 DEF Hangup, Parting, PeerState
    <3>3. CASE AskSaved(p)
      BY <1>0, <3>3 DEF AskSaved, Parting, PeerState
    <3>4. CASE Recheck(p)
      BY <1>0, <3>4 DEF Recheck, Parting, PeerState
    <3>5. CASE Reply(p)
      BY <1>0, <3>5 DEF Reply, PeerState, PlaceInv, PeersAreSomewhere
    <3>6. CASE EndSession(p)
      BY <3>6 DEF EndSession
    <3> QED BY <1>2, <3>1, <3>2, <3>3, <3>4, <3>5, <3>6 DEF Finish
  <2>3. \A q \in Peers : SameHands(q) /\ JoinCalm(q)
    BY <2>2, RoomAssumption DEF SameHands, Carries, JoinCalm
  <2>4. \A r \in RoomIds : RoomCalm(r)
    BY <2>1 DEF RoomCalm
  <2> QED BY <1>0, <2>1, <2>3, <2>4, RoomsStay, JoinsStay DEF KeepInv
<1> QED BY <1>1, <1>2

\* Giving the lock back changes where its holder is, and nothing it carries.
LEMMA ReturnKeeps ==
    ASSUME Placed, NEW r \in RoomIds, NEW q \in Locks, Waits(r, q), Return(r, q)
    PROVE  /\ \A p \in Peers : SameHands(p) /\ JoinCalm(p)
           /\ \A s \in RoomIds : flusher'[s].pc # "free" => flusher[s].pc # "free"
           /\ flusher'[r].pc # "free"
<1>0. /\ Typed /\ PlaceInv /\ peer \in [Peers -> PeerState]
      /\ flusher \in [RoomIds -> FlusherState]
  BY DEF Placed, Typed, RoomTypeOK
<1>1. CASE q = Flusher
  <2>1. /\ flusher' = [flusher EXCEPT ![r].pc = IF flusher[r].pc = "flush" THEN "check" ELSE "done"]
        /\ peer' = peer /\ flusher[r].pc # "free"
    BY <1>1 DEF Return, Waits
  <2>2. \A p \in Peers : SameHands(p) /\ JoinCalm(p)
    BY <2>1 DEF SameHands, Carries, JoinCalm
  <2>3. /\ \A s \in RoomIds : flusher'[s].pc # "free" => flusher[s].pc # "free"
        /\ flusher'[r].pc # "free"
    BY <1>0, <2>1 DEF FlusherState
  <2> QED BY <2>2, <2>3
<1>2. CASE q # Flusher
  <2>1. /\ peer[q].pc \in {"barrier", "persist", "parting"} /\ q \in Peers /\ peer[q].room = r
        /\ peer' = [peer EXCEPT ![q].pc = IF peer[q].pc = "barrier" THEN "check" ELSE "parted"]
        /\ flusher' = flusher
    BY <1>2 DEF Return, Waits, Locks
  <2>2. peer[q].hand = NoEdit
    BY <1>0, <2>1 DEF PlaceInv, PeersAreSomewhere
  <2>3. /\ \A p \in Peers \ {q} : peer'[p] = peer[p]
        /\ peer'[q].pc \in {"check", "parted"} /\ peer'[q].hand = NoEdit
    BY <1>0, <2>1, <2>2 DEF PeerState
  <2>4. \A p \in Peers : SameHands(p) /\ JoinCalm(p)
    BY <2>2, <2>3, RoomAssumption DEF SameHands, Carries, JoinCalm
  <2> QED BY <2>1, <2>4, OccupiedIsOpen
<1> QED BY <1>1, <1>2

LEMMA LockKeep ==
    ASSUME Placed, Placed', KeepInv, NEW r \in RoomIds, NEW q \in Locks, TakeLock(r, q)
    PROVE  KeepInv'
<1>0. /\ Typed /\ PlaceInv /\ JoinsAreWhole /\ RoomsAreGood
      /\ room \in [RoomIds -> RoomState] /\ work \in [RoomIds -> WorkState]
  BY DEF Placed, Typed, RoomTypeOK, KeepInv
<1>1. CASE FlushEmpty(r, q)
  <2>1. UNCHANGED <<log, lastSeq, room, work, strained>>
    BY <1>1 DEF FlushEmpty, dbVars
  <2>2. /\ \A p \in Peers : SameHands(p) /\ JoinCalm(p)
        /\ \A s \in RoomIds : flusher'[s].pc # "free" => flusher[s].pc # "free"
    BY <1>1, ReturnKeeps DEF FlushEmpty
  <2>3. \A s \in RoomIds : RoomCalm(s)
    BY <2>1, <2>2 DEF RoomCalm
  <2> QED BY <1>0, <2>1, <2>2, <2>3, RoomsStay, JoinsStay DEF KeepInv
<1>2. CASE FlushTake(r, q)
  <2>1. /\ room' = [room EXCEPT ![r].pending = {}] /\ work[r].pc = "idle"
        /\ work' = [work EXCEPT ![r] = [Idle EXCEPT !.pc = "taken", !.by = q,
                                                    !.batch = room[r].pending]]
        /\ UNCHANGED <<log, lastSeq, flusher, peer, strained>>
    BY <1>2 DEF FlushTake, dbVars
  <2>2. flusher[r].pc # "free"
    BY <1>2, OccupiedIsOpen DEF FlushTake, Waits, Locks
  <2>3. ASSUME ~strained' PROVE RoomGood(r)'
    <3>1. /\ Sound(room[r], work[r]) /\ Kept(room[r], work[r], InHands(r)) /\ work[r] = Idle
      BY <1>0, <2>1, <2>2, <2>3, GoodInside
    <3>2. /\ room'[r].replica = room[r].replica /\ room'[r].pending = {}
          /\ room'[r].base = room[r].base /\ room'[r].own = room[r].own
          /\ work'[r].pc = "taken" /\ work'[r].batch = room[r].pending
      BY <1>0, <2>1 DEF RoomState, Idle
    <3>3. InHands(r)' = InHands(r)
      BY <2>1 DEF InHands, Carries
    <3>4. Sound(room[r], work[r])'
      BY <2>1, <3>1, <3>2, AccountsStay DEF Sound
    <3>5. Kept(room[r], work[r], InHands(r))'
      BY <2>1, <3>1, <3>2, <3>3 DEF Kept, Idle
    <3> QED BY <3>4, <3>5 DEF RoomGood
  <2>4. RoomsAreGood'
    BY <2>1, <2>2, <2>3, OnlyRoom
  <2>5. \A p \in Peers : JoinCalm(p)
    BY <2>1 DEF JoinCalm
  <2> QED BY <1>0, <2>1, <2>4, <2>5, JoinsStay DEF KeepInv
<1> QED BY <1>1, <1>2 DEF TakeLock

LEMMA RoundKeep ==
    ASSUME Placed, Placed', KeepInv, NEW r \in RoomIds, Round(r)
    PROVE  KeepInv'
<1>0. /\ Typed /\ JoinsAreWhole /\ RoomsAreGood /\ room \in [RoomIds -> RoomState]
      /\ flusher \in [RoomIds -> FlusherState]
      /\ UNCHANGED <<log, lastSeq, work, peer, strained>>
  BY DEF Placed, Typed, RoomTypeOK, KeepInv, Round, FlusherTick, FlusherPublish, FlusherStays,
     FlusherQuits, Drop, dbVars
<1>1. ASSUME NEW s \in RoomIds PROVE RoomCalm(s)
  <2>1. CASE FlusherTick(r)
    BY <1>0, <2>1 DEF FlusherTick, RoomCalm, RoomState
  <2>2. CASE FlusherPublish(r)
    BY <1>0, <2>2 DEF FlusherPublish, RoomCalm, RoomState, Resting
  <2>3. CASE FlusherStays(r)
    BY <1>0, <2>3 DEF FlusherStays, RoomCalm, FlusherState
  <2>4. CASE FlusherQuits(r)
    BY <1>0, <2>4 DEF FlusherQuits, RoomCalm, FlusherState
  <2>5. CASE Drop(r)
    BY <1>0, <2>5 DEF Drop, RoomCalm, Resting
  <2> QED BY <2>1, <2>2, <2>3, <2>4, <2>5 DEF Round
<1>2. \A q \in Peers : SameHands(q) /\ JoinCalm(q)
  BY <1>0 DEF SameHands, Carries, JoinCalm
<1> QED BY <1>0, <1>1, <1>2, RoomsStay, JoinsStay DEF KeepInv

\* The two ways a task gives up the lock.
LEMMA ReleaseKeeps ==
    ASSUME Placed, NEW r \in RoomIds, work[r].pc \in Flushing, Release(r)
    PROVE  /\ \A p \in Peers : SameHands(p) /\ JoinCalm(p)
           /\ flusher'[r].pc # "free" /\ work'[r] = Idle
<1>1. Typed /\ PlaceInv /\ work \in [RoomIds -> WorkState]
  BY DEF Placed, Typed, RoomTypeOK
<1>2. PICK q \in Locks : q = work[r].by /\ Waits(r, q)
  BY <1>1, RoomParts DEF PlaceInv, LockIsHeld
<1>3. Return(r, q) /\ work' = [work EXCEPT ![r] = Idle]
  BY <1>2 DEF Release
<1> QED BY <1>1, <1>2, <1>3, ReturnKeeps

LEMMA EndResetKeeps ==
    ASSUME Placed, NEW r \in RoomIds, work[r].pc \in Resetting, EndReset(r)
    PROVE  /\ \A p \in Peers : SameHands(p) /\ JoinCalm(p)
           /\ work'[r] = Idle
<1>1. /\ Typed /\ PlaceInv /\ work \in [RoomIds -> WorkState] /\ peer \in [Peers -> PeerState]
  BY DEF Placed, Typed, RoomTypeOK
<1>2. PICK q \in Peers : q = work[r].by /\ peer[q].pc = "reset"
  BY <1>1 DEF PlaceInv, LockIsHeld, Peers
<1>3. /\ peer' = [peer EXCEPT ![q] = [peer[q] EXCEPT !.pc = "parted", !.hand = NoEdit]]
      /\ work' = [work EXCEPT ![r] = Idle]
  BY <1>2 DEF EndReset
<1>4. /\ peer'[q].pc = "parted" /\ peer'[q].hand = NoEdit
      /\ \A p \in Peers \ {q} : peer'[p] = peer[p]
  BY <1>1, <1>3 DEF PeerState
<1>5. \A p \in Peers : SameHands(p) /\ JoinCalm(p)
  BY <1>2, <1>4, RoomAssumption DEF SameHands, Carries, JoinCalm
<1> QED BY <1>1, <1>3, <1>5

LEMMA AppendKeep ==
    ASSUME Placed, Placed', KeepInv, NEW r \in RoomIds, FlushAppend(r)
    PROVE  KeepInv'
<1>0. /\ Typed /\ JoinsAreWhole /\ RoomsAreGood
      /\ room \in [RoomIds -> RoomState] /\ work \in [RoomIds -> WorkState]
  BY DEF Placed, Typed, RoomTypeOK, KeepInv
<1>1. work[r].pc \in Flushing /\ flusher[r].pc # "free"
  BY OccupiedIsOpen DEF FlushAppend, Flushing
<1>2. PICK batch \in SUBSET Edits : batch = work[r].batch
  BY <1>0, RoomParts
<1>3. PICK part \in Parts(r) :
        /\ LogAppend(part)
        /\ room' = [room EXCEPT ![r] = [room[r] EXCEPT !.own = room[r].own + 1,
                         !.escapeRefused = FALSE,
                         !.overloaded = room[r].overloaded /\ batch \ part # {}]]
        /\ \/ /\ work' = [work EXCEPT ![r] = [work[r] EXCEPT !.pc = "rowwise",
                                                            !.batch = batch \ part]]
              /\ UNCHANGED <<flusher, peer>>
           \/ /\ work' = [work EXCEPT ![r] = [work[r] EXCEPT !.pc = "snapshot", !.batch = {}]]
              /\ UNCHANGED <<flusher, peer>> /\ batch \ part = {}
           \/ Release(r) /\ batch \ part = {}
  <2>1. PICK part \in Parts(r) :
          LET rest == work[r].batch \ part IN
          /\ ~Full(part) /\ LogAppend(part)
          /\ room' = [room EXCEPT ![r].own = @ + 1, ![r].escapeRefused = FALSE,
                                 ![r].overloaded = @ /\ rest # {}]
          /\ IF rest # {}
             THEN work' = [work EXCEPT ![r].pc = "rowwise", ![r].batch = rest]
                  /\ UNCHANGED <<flusher, peer>>
             ELSE IF Merged(r) /\ Cardinality(log) + 1 >= CompactAfter
             THEN work' = [work EXCEPT ![r].pc = "snapshot", ![r].batch = {}]
                  /\ UNCHANGED <<flusher, peer>>
             ELSE Release(r)
    BY DEF FlushAppend
  <2>2. room' = [room EXCEPT ![r] = [room[r] EXCEPT !.own = room[r].own + 1,
                         !.escapeRefused = FALSE,
                         !.overloaded = room[r].overloaded /\ batch \ part # {}]]
    BY <1>2, <2>1, Zenon
  <2>3. CASE batch \ part # {}
    <3>1. /\ work' = [work EXCEPT ![r].pc = "rowwise", ![r].batch = batch \ part]
          /\ UNCHANGED <<flusher, peer>>
      BY <1>2, <2>1, <2>3
    <3>2. work' = [work EXCEPT ![r] = [work[r] EXCEPT !.pc = "rowwise", !.batch = batch \ part]]
      BY <3>1
    <3> QED BY <2>1, <2>2, <3>1, <3>2
  <2>4. CASE batch \ part = {}
    <3>1. \/ /\ work' = [work EXCEPT ![r].pc = "snapshot", ![r].batch = {}]
             /\ UNCHANGED <<flusher, peer>>
          \/ Release(r)
      BY <1>2, <2>1, <2>4
    <3> QED BY <2>1, <2>2, <2>4, <3>1
  <2> QED BY <2>3, <2>4
<1>4. part \in SUBSET batch /\ part \in SUBSET Edits
  BY <1>2, <1>3 DEF Parts
<1>5. /\ work'[r].pc \in {"rowwise", "snapshot", "idle"} /\ work'[r].batch = batch \ part
      /\ work'[r].pc = "snapshot" => work'[r].batch = {}
      /\ flusher'[r].pc # "free" /\ \A p \in Peers : SameHands(p) /\ JoinCalm(p)
  <2>1. CASE Release(r) /\ batch \ part = {}
    BY <1>1, <2>1, ReleaseKeeps DEF Idle
  <2>2. CASE UNCHANGED <<flusher, peer>>
    <3>1. \A p \in Peers : SameHands(p) /\ JoinCalm(p)
      BY <2>2 DEF SameHands, Carries, JoinCalm
    <3>2. CASE work' = [work EXCEPT ![r] = [work[r] EXCEPT !.pc = "rowwise", !.batch = batch \ part]]
      BY <1>0, <1>1, <2>2, <3>1, <3>2 DEF WorkState
    <3>3. CASE /\ work' = [work EXCEPT ![r] = [work[r] EXCEPT !.pc = "snapshot", !.batch = {}]]
               /\ batch \ part = {}
      BY <1>0, <1>1, <2>2, <3>1, <3>3 DEF WorkState
    <3> QED BY <1>3, <2>1, <2>2, <3>2, <3>3
  <2> QED BY <1>3, <2>1, <2>2
<1>6. ASSUME ~strained' PROVE RoomGood(r)'
  <2>1. ~strained /\ Content(log') = Content(log) \cup part
    BY <1>0, <1>3, <1>4, <1>6, AppendEffect
  <2>2. Sound(room[r], work[r]) /\ Kept(room[r], work[r], InHands(r))
    BY <1>0, <1>1, <2>1, GoodInside
  <2>3. /\ room'[r].replica = room[r].replica /\ room'[r].pending = room[r].pending
        /\ room'[r].base = room[r].base /\ room'[r].own = room[r].own + 1
    BY <1>0, <1>3 DEF RoomState
  <2>4. InHands(r)' = InHands(r)
    BY <1>5, HandsStay
  <2>5. PICK base \in Nat : base = room[r].base
    BY <1>0, RoomParts
  <2>6. PICK own \in Nat : own = room[r].own
    BY <1>0, RoomParts
  <2>7. PICK replica \in SUBSET Edits : replica = room[r].replica
    BY <1>0, RoomParts
  <2>8. Accounts(base, own + 1, replica)'
    <3>1. Accounts(base, own, replica) /\ replica \cup part \subseteq replica
      BY <1>2, <1>4, <2>2, <2>5, <2>6, <2>7 DEF Sound
    <3> QED BY <1>0, <1>3, <1>4, <3>1, AccountsOwn
  <2>9. Sound(room[r], work[r])'
    BY <1>2, <1>5, <2>2, <2>3, <2>5, <2>6, <2>7, <2>8 DEF Sound
  <2>10. Kept(room[r], work[r], InHands(r))'
    BY <1>2, <1>4, <1>5, <2>1, <2>2, <2>3, <2>4 DEF Kept
  <2> QED BY <2>9, <2>10 DEF RoomGood
<1>7. RoomsAreGood'
  BY <1>5, <1>6, OnlyRoom
<1> QED BY <1>0, <1>3, <1>4, <1>5, <1>7, JoinsStay DEF KeepInv

LEMMA RefusedKeep ==
    ASSUME Placed, Placed', KeepInv, NEW r \in RoomIds, FlushRefused(r) \/ ResetRefused(r)
    PROVE  KeepInv'
<1>0. /\ Typed /\ JoinsAreWhole /\ RoomsAreGood
      /\ room \in [RoomIds -> RoomState] /\ work \in [RoomIds -> WorkState]
      /\ UNCHANGED <<log, lastSeq, strained>>
      /\ room' = [room EXCEPT ![r] = Requeued(room[r], work[r].batch)]
  BY DEF Placed, Typed, RoomTypeOK, KeepInv, FlushRefused, ResetRefused, dbVars
<1>1. work[r].pc \in Flushing \cup Resetting /\ flusher[r].pc # "free"
  BY OccupiedIsOpen DEF FlushRefused, ResetRefused, Flushing, Resetting
<1>2. /\ work'[r].batch = {} /\ work'[r].pc \in {"snapshot", "idle"}
      /\ flusher'[r].pc # "free" /\ \A p \in Peers : SameHands(p) /\ JoinCalm(p)
  <2>1. CASE Release(r) /\ FlushRefused(r)
    BY <2>1, ReleaseKeeps DEF Idle, FlushRefused, Flushing
  <2>2. CASE EndReset(r) /\ ResetRefused(r)
    BY <1>1, <2>2, EndResetKeeps DEF Idle, ResetRefused, Resetting
  <2>3. CASE /\ work' = [work EXCEPT ![r].pc = "snapshot", ![r].batch = {}]
             /\ UNCHANGED <<flusher, peer>>
    <3>1. work'[r].batch = {} /\ work'[r].pc = "snapshot"
      BY <1>0, <2>3 DEF WorkState
    <3> QED BY <1>1, <2>3, <3>1 DEF SameHands, Carries, JoinCalm
  <2> QED BY <2>1, <2>2, <2>3 DEF FlushRefused, ResetRefused
<1>3. ASSUME ~strained' PROVE RoomGood(r)'
  <2>1. Sound(room[r], work[r]) /\ Kept(room[r], work[r], InHands(r))
    BY <1>0, <1>1, <1>3, GoodInside
  <2>2. /\ room'[r].replica = room[r].replica /\ room'[r].base = room[r].base
        /\ room'[r].pending = room[r].pending \cup work[r].batch
        /\ room'[r].own = room[r].own
    BY <1>0 DEF RoomState, Requeued
  <2>3. InHands(r)' = InHands(r)
    BY <1>2, HandsStay
  <2>4. Sound(room[r], work[r])'
    BY <1>0, <1>2, <2>1, <2>2, AccountsStay DEF Sound
  <2>5. Kept(room[r], work[r], InHands(r))'
    BY <1>0, <1>2, <2>1, <2>2, <2>3 DEF Kept
  <2> QED BY <2>4, <2>5 DEF RoomGood
<1>4. RoomsAreGood'
  BY <1>2, <1>3, OnlyRoom
<1> QED BY <1>0, <1>2, <1>4, JoinsStay DEF KeepInv

\* What a compaction and a reset write has all that the log has.
LEMMA CompactionKnows ==
    ASSUME Placed, RoomsAreGood, ~strained, NEW r \in RoomIds, CompactCommit(r)
    PROVE  Content(log) \subseteq work[r].snap /\ work[r].snap \subseteq room[r].replica
<1>0. Typed
  BY DEF Placed
<1>1. /\ work[r].pc = "compact" /\ flusher[r].pc # "free"
      /\ Cardinality(After(room[r].base)) = room[r].own
  BY OccupiedIsOpen DEF CompactCommit, AllMine
<1>2. Accounts(room[r].base, room[r].own, work[r].snap) /\ work[r].snap \subseteq room[r].replica
  BY <1>1, GoodInside DEF Sound
<1> QED BY <1>0, <1>1, <1>2, RoomParts, AllMineKnowsAll

LEMMA ResetKnows ==
    ASSUME Placed, RoomsAreGood, ~strained, NEW r \in RoomIds, ResetCommit(r)
    PROVE  Content(log) \cup work[r].batch \subseteq work[r].state
<1>1. /\ work[r].pc = "commit" /\ flusher[r].pc # "free" /\ TopSeq(log, 0) = work[r].seen
  BY OccupiedIsOpen DEF ResetCommit, ResetStale
<1> QED BY <1>1, GoodInside DEF Sound

LEMMA CompactKeep ==
    ASSUME Placed, Placed', KeepInv, NEW r \in RoomIds,
           CompactSnapshot(r) \/ CompactCommit(r) \/ CompactRefused(r)
    PROVE  KeepInv'
<1>0. /\ Typed /\ JoinsAreWhole /\ RoomsAreGood
      /\ room \in [RoomIds -> RoomState] /\ work \in [RoomIds -> WorkState]
  BY DEF Placed, Typed, RoomTypeOK, KeepInv
<1>1. work[r].pc \in {"snapshot", "compact"} /\ work[r].pc \in Flushing /\ flusher[r].pc # "free"
  BY OccupiedIsOpen DEF CompactSnapshot, CompactCommit, CompactRefused, Flushing
<1>2. PICK base \in Nat : base = room[r].base
  BY <1>0, RoomParts
<1>3. PICK own \in Nat : own = room[r].own
  BY <1>0, RoomParts
<1>4. PICK replica \in SUBSET Edits : replica = room[r].replica
  BY <1>0, RoomParts
<1>5. PICK snap \in SUBSET Edits : snap = work[r].snap
  BY <1>0, RoomParts
<1>6. ASSUME ~strained
      PROVE  /\ Sound(room[r], work[r]) /\ Kept(room[r], work[r], InHands(r))
             /\ Accounts(base, own, replica) /\ work[r].batch = {}
  BY <1>0, <1>1, <1>2, <1>3, <1>4, <1>6, GoodInside DEF Sound
<1>7. CASE CompactSnapshot(r)
  <2>1. /\ UNCHANGED <<log, lastSeq, strained, room, flusher, peer>>
        /\ work' = [work EXCEPT ![r] = [work[r] EXCEPT !.pc = "compact", !.snap = replica]]
    BY <1>4, <1>7 DEF CompactSnapshot, dbVars
  <2>2. work'[r].pc = "compact" /\ work'[r].snap = replica /\ work'[r].batch = work[r].batch
    BY <1>0, <2>1 DEF WorkState
  <2>3. ASSUME ~strained' PROVE RoomGood(r)'
    <3>1. ~strained
      BY <2>1, <2>3
    <3>2. InHands(r)' = InHands(r)
      BY <2>1 DEF InHands, Carries
    <3>3. Sound(room[r], work[r])'
      BY <1>2, <1>3, <1>4, <1>6, <2>1, <2>2, <3>1, AccountsStay DEF Sound
    <3>4. Kept(room[r], work[r], InHands(r))'
      BY <1>6, <2>1, <2>2, <3>1, <3>2 DEF Kept
    <3> QED BY <3>3, <3>4 DEF RoomGood
  <2>4. RoomsAreGood'
    BY <1>1, <2>1, <2>3, OnlyRoom
  <2>5. \A q \in Peers : JoinCalm(q)
    BY <2>1 DEF JoinCalm
  <2> QED BY <1>0, <2>1, <2>4, <2>5, JoinsStay DEF KeepInv
<1>8. CASE CompactCommit(r)
  <2>1. /\ Replace(snap) /\ Release(r) /\ Cardinality(After(base)) = own
        /\ room' = [room EXCEPT ![r].own = 1] /\ work[r].pc = "compact"
    BY <1>2, <1>3, <1>5, <1>8 DEF CompactCommit, AllMine
  <2>2. /\ work'[r] = Idle /\ flusher'[r].pc # "free"
        /\ \A p \in Peers : SameHands(p) /\ JoinCalm(p)
    BY <1>1, <2>1, ReleaseKeeps
  <2>3. ASSUME ~strained PROVE Content(log) \subseteq snap /\ snap \subseteq replica
    BY <1>0, <1>4, <1>5, <1>8, <2>3, CompactionKnows
  <2>4. strained => strained'
    BY <2>1, StrainStays
  <2>5. ASSUME ~strained' PROVE RoomGood(r)'
    <3>1. ~strained /\ Content(log') = snap /\ Content(log) \subseteq snap /\ snap \subseteq replica
      BY <1>0, <2>1, <2>3, <2>4, <2>5, ReplaceEffect
    <3>2. /\ room'[r].replica = replica /\ room'[r].pending = room[r].pending
          /\ room'[r].base = base /\ room'[r].own = 1
      BY <1>0, <1>2, <1>4, <2>1 DEF RoomState
    <3>3. InHands(r)' = InHands(r)
      BY <2>2, HandsStay
    <3>4. Accounts(base, 1, replica)'
      <4>1. base <= lastSeq
        BY <1>6, <3>1 DEF Accounts
      <4> QED BY <1>0, <2>1, <3>1, <4>1, AccountsCompacted
    <3>5. Sound(room[r], work[r])'
      BY <1>4, <1>6, <2>2, <3>1, <3>2, <3>4 DEF Sound, Idle
    <3>6. Kept(room[r], work[r], InHands(r))'
      BY <1>4, <1>6, <2>2, <3>1, <3>2, <3>3 DEF Kept, Idle
    <3> QED BY <3>5, <3>6 DEF RoomGood
  <2>6. RoomsAreGood'
    BY <2>2, <2>5, OnlyRoom
  <2> QED BY <1>0, <2>1, <2>2, <2>3, <2>4, <2>6, JoinsStay DEF KeepInv
<1>9. CASE CompactRefused(r)
  <2>0. PICK unseen : unseen = After(base)
    OBVIOUS
  <2>1. PICK top \in Nat : top = TopSeq(unseen, base) /\ (base <= lastSeq => top <= lastSeq)
    <3>1. unseen \in SUBSET Rows /\ lastSeq \in Nat /\ \A s \in unseen : s.seq <= lastSeq
      BY <1>0, <2>0 DEF Typed, RoomTypeOK, LogIsNumbered, After
    <3>2. PICK bound \in Nat : /\ bound >= base /\ bound >= lastSeq
                               /\ (base <= lastSeq => bound = lastSeq)
      BY <3>1
    <3>3. \A s \in unseen : s.seq \in Nat /\ s.seq <= bound
      BY <3>1, <3>2 DEF Rows
    <3>4. TopSeq(unseen, base) \in Nat /\ TopSeq(unseen, base) <= bound
      BY <3>1, <3>2, <3>3, TopSeqIsTop
    <3> QED BY <3>2, <3>4
  <2>2. /\ Release(r) /\ UNCHANGED <<log, lastSeq, strained>>
        /\ \E escape \in BOOLEAN :
             room' = [room EXCEPT ![r] = [room[r] EXCEPT !.replica = replica \cup Content(unseen),
                                        !.base = top, !.own = 0, !.escapeRefused = escape]]
    <3>1. (room[r].escapeRefused \/ NoGain(work[r].snap)) \in BOOLEAN
      OBVIOUS
    <3>2. room' = [room EXCEPT ![r] = [room[r] EXCEPT !.replica = replica \cup Content(unseen),
                                   !.base = top, !.own = 0,
                                   !.escapeRefused = room[r].escapeRefused \/ NoGain(work[r].snap)]]
      BY <1>2, <1>4, <1>9, <2>0, <2>1 DEF CompactRefused
    <3> QED BY <1>9, <3>1, <3>2 DEF CompactRefused, dbVars
  <2>3. /\ work'[r] = Idle /\ flusher'[r].pc # "free"
        /\ \A p \in Peers : SameHands(p) /\ JoinCalm(p)
    BY <1>1, <2>2, ReleaseKeeps
  <2>4. ASSUME ~strained' PROVE RoomGood(r)'
    <3>1. ~strained
      BY <2>2, <2>4
    <3>2. /\ room'[r].replica = replica \cup Content(unseen) /\ room'[r].pending = room[r].pending
          /\ room'[r].base = top /\ room'[r].own = 0
      BY <1>0, <2>2 DEF RoomState
    <3>3. InHands(r)' = InHands(r)
      BY <2>3, HandsStay
    <3>4. Content(log) \subseteq replica \cup Content(unseen) /\ Content(unseen) \subseteq Content(log)
      BY <1>0, <1>6, <2>0, <3>1, LogSplits DEF Accounts
    <3>5. Accounts(top, 0, replica \cup Content(unseen))
      <4>1. top <= lastSeq
        BY <1>6, <2>1, <3>1 DEF Accounts
      <4>2. Content(Upto(top)) \subseteq Content(log)
        BY <1>0, LogSplits
      <4>3. Content(Upto(top)) \subseteq replica \cup Content(unseen)
        BY <3>4, <4>2
      <4> QED BY <1>0, <4>1, <4>3, AccountsFresh
    <3>6. Sound(room[r], work[r])'
      <4>1. PICK more : more = replica \cup Content(unseen)
        OBVIOUS
      <4>2. Accounts(top, 0, more)'
        BY <2>2, <3>5, <4>1, AccountsStay
      <4>3. room[r].pending \subseteq replica
        BY <1>4, <1>6, <3>1 DEF Sound
      <4>4. room'[r].replica = more
        BY <3>2, <4>1
      <4> QED BY <2>3, <3>2, <4>1, <4>2, <4>3, <4>4 DEF Sound, Idle
    <3>7. Kept(room[r], work[r], InHands(r))'
      BY <1>4, <1>6, <2>2, <2>3, <3>1, <3>2, <3>3, <3>4 DEF Kept, Idle
    <3> QED BY <3>6, <3>7 DEF RoomGood
  <2>5. RoomsAreGood'
    BY <2>3, <2>4, OnlyRoom
  <2> QED BY <1>0, <2>2, <2>3, <2>5, JoinsStay DEF KeepInv
<1> QED BY <1>7, <1>8, <1>9

LEMMA ResetKeep ==
    ASSUME Placed, Placed', KeepInv, NEW r \in RoomIds,
           ResetSnapshot(r) \/ ResetRead(r) \/ ResetRetry(r)
    PROVE  KeepInv'
<1>0. /\ Typed /\ JoinsAreWhole /\ RoomsAreGood /\ work \in [RoomIds -> WorkState]
      /\ UNCHANGED <<log, lastSeq, strained, room, flusher, peer>>
  BY DEF Placed, Typed, RoomTypeOK, KeepInv, ResetSnapshot, ResetRead, ResetRetry, dbVars
<1>1. flusher[r].pc # "free"
  BY OccupiedIsOpen DEF ResetSnapshot, ResetRead, ResetRetry
<1>2. PICK base \in Nat : base = room[r].base
  BY <1>0, RoomParts
<1>3. PICK replica \in SUBSET Edits : replica = room[r].replica
  BY <1>0, RoomParts
<1>4. work'[r].batch = work[r].batch
  BY <1>0 DEF ResetSnapshot, ResetRead, ResetRetry, WorkState
<1>5. ASSUME ~strained' PROVE Sound(room[r], work[r])'
  <2>1. Sound(room[r], work[r]) /\ Kept(room[r], work[r], InHands(r))
    BY <1>0, <1>1, <1>5, GoodInside
  <2>2. /\ Accounts(base, room[r].own, replica) /\ Content(Upto(base)) \subseteq replica
        /\ work[r].batch \subseteq replica
    BY <1>2, <1>3, <2>1 DEF Sound, Accounts
  <2>3. CASE ResetSnapshot(r)
    <3>1. work'[r].pc = "read" /\ work'[r].snap = replica
      BY <1>0, <1>3, <2>3 DEF ResetSnapshot, WorkState
    <3> QED BY <1>0, <1>2, <1>3, <1>4, <2>1, <2>2, <3>1, AccountsStay DEF Sound
  <2>4. CASE ResetRead(r)
    <3>1. PICK top \in Nat : top = TopSeq(log, 0) /\ top <= lastSeq
      BY <1>0, TopTyped
    <3>2. /\ work[r].pc = "read" /\ work'[r].pc = "commit" /\ work'[r].snap = work[r].snap
          /\ work'[r].seen = top
          /\ work[r].snap \cup Content(After(base)) \subseteq work'[r].state
      BY <1>0, <1>2, <2>4, <3>1 DEF ResetRead, WorkState
    <3>3. work[r].batch \cup Content(Upto(base)) \subseteq work[r].snap
      BY <1>2, <2>1, <3>2 DEF Sound
    <3>4. Content(log) \subseteq work'[r].state
      BY <1>0, <3>2, <3>3, LogSplits
    <3> QED BY <1>0, <1>2, <1>4, <2>1, <3>1, <3>2, <3>3, <3>4, AccountsStay DEF Sound
  <2>5. CASE ResetRetry(r)
    <3>1. work[r].pc = "commit" /\ work'[r].pc = "read" /\ work'[r].snap = work[r].snap
      BY <1>0, <2>5 DEF ResetRetry, WorkState
    <3> QED BY <1>0, <1>4, <2>1, <3>1, AccountsStay DEF Sound
  <2> QED BY <2>3, <2>4, <2>5
<1>6. ASSUME ~strained' PROVE Kept(room[r], work[r], InHands(r))'
  <2>1. Kept(room[r], work[r], InHands(r))
    BY <1>0, <1>1, <1>6, GoodInside
  <2>2. InHands(r)' = InHands(r)
    BY <1>0 DEF InHands, Carries
  <2> QED BY <1>0, <1>4, <2>1, <2>2 DEF Kept
<1>7. RoomsAreGood'
  BY <1>0, <1>1, <1>5, <1>6, OnlyRoom DEF RoomGood
<1>8. \A q \in Peers : JoinCalm(q)
  BY <1>0 DEF JoinCalm
<1> QED BY <1>0, <1>7, <1>8, JoinsStay DEF KeepInv

LEMMA ResetCommitKeep ==
    ASSUME Placed, Placed', KeepInv, NEW r \in RoomIds, ResetCommit(r)
    PROVE  KeepInv'
<1>0. /\ Typed /\ JoinsAreWhole /\ RoomsAreGood
      /\ room \in [RoomIds -> RoomState] /\ work \in [RoomIds -> WorkState]
  BY DEF Placed, Typed, RoomTypeOK, KeepInv
<1>1. work[r].pc = "commit" /\ work[r].pc \in Resetting /\ flusher[r].pc # "free"
  BY OccupiedIsOpen DEF ResetCommit, Resetting
<1>2. PICK state \in SUBSET Edits : state = work[r].state
  BY <1>0, RoomParts
<1>3. /\ Replace(state) /\ EndReset(r) /\ flusher' = flusher
      /\ room' = [room EXCEPT ![r] = [room[r] EXCEPT !.replica = room[r].replica \cup state,
                       !.base = lastSeq + 1, !.own = 0, !.escapeRefused = FALSE,
                       !.overloaded = FALSE]]
  BY <1>2 DEF ResetCommit
<1>4. work'[r] = Idle /\ \A q \in Peers : SameHands(q) /\ JoinCalm(q)
  BY <1>1, <1>3, EndResetKeeps
<1>5. ASSUME ~strained
      PROVE  /\ Sound(room[r], work[r]) /\ Kept(room[r], work[r], InHands(r))
             /\ Content(log) \cup work[r].batch \subseteq state
  BY <1>0, <1>1, <1>2, <1>5, GoodInside, ResetKnows
<1>6. strained => strained'
  BY <1>3, StrainStays
<1>7. ASSUME ~strained' PROVE RoomGood(r)'
  <2>1. ~strained /\ Content(log') = state
    BY <1>0, <1>3, <1>6, <1>7, ReplaceEffect
  <2>2. /\ room'[r].replica = room[r].replica \cup state
        /\ room'[r].pending = room[r].pending /\ room'[r].base = lastSeq + 1
        /\ room'[r].own = 0
    BY <1>0, <1>3 DEF RoomState
  <2>3. InHands(r)' = InHands(r)
    BY <1>4, HandsStay
  <2>4. PICK replica \in SUBSET Edits : replica = room[r].replica \cup state
    BY <1>0, RoomParts
  <2>5. PICK base \in Nat : base = lastSeq + 1
    BY <1>0 DEF Typed, RoomTypeOK
  <2>6. Accounts(base, 0, replica)'
    <3>1. state \subseteq replica
      BY <2>4
    <3> QED BY <1>0, <1>3, <2>5, <3>1, AccountsReset
  <2>7. room[r].pending \cup InHands(r) \subseteq replica
    BY <1>5, <2>1, <2>4 DEF Sound, Kept
  <2>8. Sound(room[r], work[r])'
    BY <1>4, <2>2, <2>4, <2>5, <2>6, <2>7 DEF Sound, Idle
  <2>9. Kept(room[r], work[r], InHands(r))'
    <3>1. replica \subseteq state \cup room[r].pending \cup InHands(r)
      BY <1>5, <2>1, <2>4 DEF Kept
    <3> QED BY <1>4, <2>1, <2>2, <2>3, <2>4, <2>7, <3>1 DEF Kept, Idle
  <2> QED BY <2>8, <2>9 DEF RoomGood
<1>8. RoomsAreGood'
  BY <1>1, <1>3, <1>7, OnlyRoom
<1> QED BY <1>0, <1>3, <1>4, <1>5, <1>6, <1>8, JoinsStay DEF KeepInv

Whole == Frozen /\ KeepInv

LEMMA InitWhole == Init => Whole
<1> SUFFICES ASSUME Init PROVE Whole
  OBVIOUS
<1>1. JoinsAreWhole
  BY DEF Init, JoinsAreWhole, Out
<1>2. RoomsAreGood
  BY DEF Init, RoomsAreGood, Resting
<1> QED BY <1>1, <1>2, InitFrozen DEF Whole, KeepInv

LEMMA StepWhole == Whole /\ [Next]_vars => Whole'
<1> SUFFICES ASSUME Frozen, KeepInv, [Next]_vars PROVE Frozen' /\ KeepInv'
  BY DEF Whole
<1>1. Frozen'
  BY StepFrozen
<1>2. Placed /\ Placed'
  BY <1>1 DEF Frozen
<1>3. CASE UNCHANGED vars
  <2>1. UNCHANGED <<log, lastSeq, strained, room, work, flusher, peer>>
    BY <1>3 DEF vars, dbVars
  <2>2. /\ \A r \in RoomIds : RoomCalm(r)
        /\ \A q \in Peers : SameHands(q) /\ JoinCalm(q)
    BY <2>1 DEF RoomCalm, SameHands, Carries, JoinCalm
  <2> QED BY <1>1, <1>2, <2>1, <2>2, RoomsStay, JoinsStay DEF KeepInv
<1>4. CASE Next
  <2>1. ASSUME NEW r \in RoomIds, Holding(r) PROVE KeepInv'
    BY <1>2, <2>1, AppendKeep, RefusedKeep, CompactKeep, ResetKeep, ResetCommitKeep DEF Holding
  <2> QED BY <1>1, <1>2, <1>4, <2>1, Steps, JoinKeep, PeerKeep, EditKeep, OfflineKeep, LockKeep,
             RoundKeep, PublishKeep
<1> QED BY <1>3, <1>4

\* What a room shows is written, queued, in a flush, or in its maker's hands.
THEOREM ShownIsKeptHolds == Spec => []ShownIsKept
<1>1. Whole => ShownIsKept
  <2> SUFFICES ASSUME Whole, NEW r \in RoomIds, flusher[r].pc # "free", ~strained
               PROVE  room[r].replica \subseteq
                         Content(log) \cup room[r].pending \cup work[r].batch
                         \cup {peer[p].hand : p \in PeersOf(r)}
    BY DEF ShownIsKept
  <2>1. Kept(room[r], work[r], InHands(r))
    BY GoodInside DEF Whole, KeepInv, Frozen
  <2>2. InHands(r) \subseteq {peer[p].hand : p \in PeersOf(r)}
    BY DEF InHands, Carries, PeersOf
  <2> QED BY <2>1, <2>2 DEF Kept
<1> QED BY <1>1, InitWhole, StepWhole, PTL DEF Spec

-----------------------------------------------------------------------------
(* The log keeps what it has.                                                *)

LEMMA LogGrows ==
    ASSUME Whole, [Next]_vars
    PROVE  ~strained' => ~strained /\ Content(log) \subseteq Content(log')
<1>0. Placed /\ Typed /\ RoomsAreGood
  BY DEF Whole, Frozen, Placed, KeepInv
<1>1. CASE UNCHANGED <<log, strained>>
  BY <1>1
<1>2. CASE \E edits \in SUBSET Edits : LogAppend(edits)
  BY <1>0, <1>2, AppendEffect
<1>3. ASSUME NEW r \in RoomIds, FlushAppend(r)
      PROVE  \E edits \in SUBSET Edits : LogAppend(edits)
  <2>1. PICK part \in Parts(r) : LogAppend(part)
    BY <1>3 DEF FlushAppend
  <2>2. part \in SUBSET Edits
    BY <1>0, <2>1, RoomParts DEF Parts
  <2> QED BY <2>1, <2>2
<1>4. ASSUME NEW r \in RoomIds, CompactCommit(r) \/ ResetCommit(r)
      PROVE  ~strained' => ~strained /\ Content(log) \subseteq Content(log')
  <2>1. PICK edits \in SUBSET Edits : Replace(edits) /\ (~strained => Content(log) \subseteq edits)
    <3>1. CASE CompactCommit(r)
      BY <1>0, <3>1, RoomParts, CompactionKnows DEF CompactCommit
    <3>2. CASE ResetCommit(r)
      BY <1>0, <3>2, RoomParts, ResetKnows DEF ResetCommit
    <3> QED BY <1>4, <3>1, <3>2
  <2> QED BY <1>0, <2>1, ReplaceEffect
<1>5. ASSUME NEW p \in Peers, NEW e \in Edits, MutateDurable(p, e)
      PROVE  \E edits \in SUBSET Edits : LogAppend(edits)
  <2>1. peer[p].room \in RoomIds
    BY <1>0, <1>5, InsideRoom DEF MutateDurable, Joining
  <2>2. room[peer[p].room].replica \cup {e} \in SUBSET Edits
    BY <1>0, <2>1, RoomParts
  <2> QED BY <1>5, <2>2 DEF MutateDurable
<1>6. ASSUME NEW e \in Edits, EditOffline(e)
      PROVE  \E edits \in SUBSET Edits : LogAppend(edits)
  <2>1. Content(log) \cup {e} \in SUBSET Edits
    BY <1>0, ContentType DEF Typed, RoomTypeOK
  <2> QED BY <1>6, <2>1 DEF EditOffline
<1>7. CASE Next
  <2>1. ASSUME NEW p \in Peers,
               Join(p) \/ Finish(p) \/ Hangup(p) \/ AskSaved(p) \/ Reply(p) \/ Recheck(p)
               \/ EndSession(p)
        PROVE  log' = log /\ (~strained' => ~strained)
    <3>1. CASE Join(p)
      <4>1. ASSUME Install(p) PROVE log' = log /\ (strained => strained')
        BY <4>1, Zenon DEF Install, dbVars
      <4>2. ASSUME ~Install(p) PROVE UNCHANGED <<log, strained>>
        BY <3>1, <4>2 DEF Join, JoinOpen, Load, ReadTop, AskFrozen, JoinAgain, JoinWinner, dbVars
      <4> QED BY <4>1, <4>2
    <3>2. CASE ~Join(p)
      BY <2>1, <3>2 DEF Finish, Push, Leave, Hangup, AskSaved, Reply, Recheck, EndSession, dbVars
    <3> QED BY <3>1, <3>2
  <2>2. ASSUME NEW p \in Peers, NEW e \in Edits, Edit(p, e)
        PROVE  UNCHANGED <<log, strained>> \/ MutateDurable(p, e)
    BY <2>2 DEF Edit, SendDropped, Send, Mutate, ResetTake, dbVars
  <2>3. ASSUME NEW r \in RoomIds, NEW q \in Locks, TakeLock(r, q)
        PROVE  UNCHANGED <<log, strained>>
    BY <2>3 DEF TakeLock, FlushEmpty, FlushTake, dbVars
  <2>4. ASSUME NEW r \in RoomIds, Holding(r)
        PROVE  \/ UNCHANGED <<log, strained>>
               \/ FlushAppend(r) \/ CompactCommit(r) \/ ResetCommit(r)
    BY <2>4 DEF Holding, FlushRefused, CompactSnapshot, CompactRefused, ResetSnapshot, ResetRead,
       ResetRetry, ResetRefused, dbVars
  <2>5. ASSUME NEW r \in RoomIds, Round(r)
        PROVE  UNCHANGED <<log, strained>>
    BY <2>5 DEF Round, FlusherTick, FlusherPublish, FlusherStays, FlusherQuits, Drop, dbVars
  <2>6. ASSUME Freeze \/ Publish PROVE UNCHANGED <<log, strained>>
    BY <2>6 DEF Freeze, Publish, ResyncStart, ResyncRead, ResyncPublish, dbVars
  <2> QED BY <1>1, <1>2, <1>3, <1>4, <1>5, <1>6, <1>7, <2>1, <2>2, <2>3, <2>4, <2>5, <2>6, Steps
<1> QED BY <1>1, <1>7 DEF vars, dbVars

\* No rewrite of the log loses an edit, as long as no two rooms of the object
\* overlap and a join reads the log at one point.
THEOREM LogKeepsEditsHolds == Spec => LogKeepsEdits
<1>1. Whole /\ [Next]_vars => [~strained' => Content(log) \subseteq Content(log')]_vars
  BY LogGrows
<1> QED BY <1>1, InitWhole, StepWhole, PTL DEF Spec, LogKeepsEdits

-----------------------------------------------------------------------------
(* What a barrier answered `saved' covers is written.                        *)

SavedInv == TakenIsShown /\ SavedIsWritten

\* Most steps take no edit from a socket, answer no barrier, and let the room of
\* whoever is in one keep what it shows.
SavedCalm ==
    /\ \A e \in Edits : frame'[e] = "taken" => frame[e] = "taken"
    /\ \A q \in Peers : /\ peer'[q].pc = "acked" => peer[q].pc = "acked"
                        /\ peer[q].room # NoRoom => peer'[q].room = peer[q].room
    /\ \A r \in RoomIds : (\E q \in Peers : peer[q].room = r)
                             => room[r].replica \subseteq room'[r].replica

LEMMA SavedStays ==
    ASSUME Whole, SavedInv, [Next]_vars, SavedCalm
    PROVE  SavedInv'
<1>1. TakenIsShown'
  <2> SUFFICES ASSUME NEW p \in Sockets, NEW e \in Own(p), frame'[e] = "taken"
               PROVE  peer'[p].room # NoRoom /\ e \in room'[peer'[p].room].replica
    BY DEF TakenIsShown, Own
  <2>1. peer[p].room # NoRoom /\ e \in room[peer[p].room].replica /\ p \in Peers
    BY DEF SavedInv, TakenIsShown, SavedCalm, Own, Peers
  <2>2. peer[p].room \in RoomIds
    BY <2>1, PeerParts DEF Whole, Frozen, Placed
  <2> QED BY <2>1, <2>2 DEF SavedCalm
<1>2. SavedIsWritten'
  <2> SUFFICES ASSUME NEW p \in Sockets, peer'[p].pc = "acked", ~strained',
                      NEW e \in Own(p), frame'[e] = "taken"
               PROVE  e \in Content(log')
    BY DEF SavedIsWritten, Own
  <2>1. peer[p].pc = "acked" /\ frame[e] = "taken"
    BY DEF SavedCalm, Own, Peers
  <2> QED BY <2>1, LogGrows DEF SavedInv, SavedIsWritten
<1> QED BY <1>1, <1>2 DEF SavedInv

\* Who is in a room keeps it from being given to another, or dropped.
LEMMA NobodyThere ==
    ASSUME Placed, NEW r \in RoomIds, flusher[r].pc = "free" \/ flusher[r].pc = "done"
    PROVE  ~ \E q \in Peers : peer[q].room = r
BY RoomAssumption DEF Placed, PlaceInv, OneReplica, RoundsAreMapped, Busy

LEMMA JoinSaved ==
    ASSUME Whole, SavedInv, NEW p \in Peers, Join(p)
    PROVE  SavedInv'
<1>0. /\ Placed /\ Typed /\ PlaceInv /\ peer \in [Peers -> PeerState]
      /\ room \in [RoomIds -> RoomState] /\ frame' = frame
  BY DEF Whole, Frozen, Placed, Typed, RoomTypeOK, Join, JoinOpen, JoinWinner, Load, ReadTop,
     AskFrozen, JoinAgain, Install
<1>1. /\ peer[p].room = NoRoom /\ \A q \in Peers \ {p} : peer'[q] = peer[q]
      /\ peer[p].pc \in Joining
  BY <1>0 DEF Join, JoinOpen, JoinWinner, Load, ReadTop, AskFrozen, JoinAgain, Install, Joining,
     PlaceInv, PeersAreSomewhere
<1>2. peer'[p].pc # "acked"
  <2>1. CASE JoinOpen(p) \/ JoinWinner(p) \/ Load(p) \/ Install(p)
    BY <1>0, <2>1 DEF JoinOpen, JoinWinner, Load, Install, Out
  <2>2. CASE ReadTop(p) \/ AskFrozen(p)
    BY <1>0, <2>2 DEF ReadTop, AskFrozen, PeerState
  <2>3. CASE JoinAgain(p)
    BY <1>0, <2>3 DEF JoinAgain, Out, PeerState
  <2> QED BY <2>1, <2>2, <2>3 DEF Join
<1>3. ASSUME NEW r \in RoomIds, \E q \in Peers : peer[q].room = r
      PROVE  room'[r] = room[r]
  <2>1. CASE Install(p)
    <3>1. PICK s \in RoomIds : /\ flusher[s].pc = "free"
                               /\ room' = [room EXCEPT ![s] = Fresh(peer[p].rows, peer[p].seen,
                                                                   peer[p].frozen)]
      BY <2>1 DEF Install
    <3> QED BY <1>0, <1>3, <3>1, NobodyThere
  <2>2. CASE ~Install(p)
    BY <2>2 DEF Join, JoinOpen, JoinWinner, Load, ReadTop, AskFrozen, JoinAgain
  <2> QED BY <2>1, <2>2
<1>4. SavedCalm
  BY <1>0, <1>1, <1>2, <1>3 DEF SavedCalm
<1>5. Next
  BY DEF Next
<1> QED BY <1>4, <1>5, SavedStays

LEMMA EditSaved ==
    ASSUME OneAuthor, Whole, SavedInv, NEW p \in Peers, NEW e \in Edits, Edit(p, e)
    PROVE  SavedInv'
<1>0. /\ Placed /\ Typed /\ peer \in [Peers -> PeerState]
      /\ room \in [RoomIds -> RoomState] /\ frame \in [Edits -> {"none", "dropped", "taken"}]
  BY DEF Whole, Frozen, Placed, Typed, RoomTypeOK
<1>1. peer[p].pc \in {"in", "acked"}
  BY DEF Edit, SendDropped, Send, Mutate, ResetTake, MutateDurable, Sends
<1>2. PICK r \in RoomIds : r = peer[p].room
  BY <1>0, <1>1, InsideRoom DEF Joining
<1>3. /\ \A q \in Peers : peer'[q].room = peer[q].room
      /\ \A q \in Peers \ {p} : peer'[q] = peer[q]
      /\ peer'[p].pc \in {"in", "parted", "reset"}
  BY <1>0, <1>1 DEF Edit, SendDropped, Send, Mutate, ResetTake, MutateDurable, PeerState
<1>4. \A s \in RoomIds : room[s].replica \subseteq room'[s].replica
  <2>1. CASE SendDropped(p, e)
    BY <2>1 DEF SendDropped
  <2>2. CASE Send(p, e) \/ Mutate(p, e)
    BY <1>0, <2>2 DEF Send, Mutate, RoomState
  <2>3. CASE ResetTake(p, e)
    BY <1>0, <2>3 DEF ResetTake, RoomState
  <2>4. CASE MutateDurable(p, e)
    BY <1>0, <2>4 DEF MutateDurable, RoomState
  <2> QED BY <2>1, <2>2, <2>3, <2>4 DEF Edit
<1>5. Next
  BY DEF Next
<1>6. CASE ~Send(p, e)
  <2>1. \A x \in Edits : frame'[x] = "taken" => frame[x] = "taken"
    BY <1>0, <1>6 DEF Edit, SendDropped, Mutate, ResetTake, MutateDurable
  <2>2. SavedCalm
    BY <1>3, <1>4, <2>1 DEF SavedCalm
  <2> QED BY <1>5, <2>2, SavedStays
<1>7. CASE Send(p, e)
  <2>1. /\ e \in Own(p) /\ \A x \in Edits \ {e} : frame'[x] = frame[x]
        /\ e \in room'[r].replica /\ peer'[p].pc = "in"
    BY <1>0, <1>2, <1>7 DEF Send, Sends, PeerState, RoomState
  <2>2. ASSUME NEW q \in Sockets, NEW x \in Own(q), frame'[x] = "taken", q # p
        PROVE  frame[x] = "taken" /\ peer'[q] = peer[q] /\ q \in Peers /\ x \in Edits
    BY <1>3, <2>1, <2>2 DEF OneAuthor, Own, Peers
  <2>3. TakenIsShown'
    <3> SUFFICES ASSUME NEW q \in Sockets, NEW x \in Own(q), frame'[x] = "taken"
                 PROVE  peer'[q].room # NoRoom /\ x \in room'[peer'[q].room].replica
      BY DEF TakenIsShown, Own
    <3>1. CASE q = p /\ x = e
      BY <1>2, <1>3, <2>1, <3>1, RoomAssumption
    <3>2. CASE q # p \/ x # e
      <4>1. frame[x] = "taken" /\ peer'[q].room = peer[q].room /\ q \in Peers /\ x \in Edits
        BY <1>3, <2>1, <2>2, <3>2 DEF Own, Peers
      <4>2. peer[q].room # NoRoom /\ x \in room[peer[q].room].replica
        BY <4>1 DEF SavedInv, TakenIsShown
      <4>3. peer[q].room \in RoomIds
        BY <1>0, <4>1, <4>2, PeerParts
      <4> QED BY <1>4, <4>1, <4>2, <4>3
    <3> QED BY <3>1, <3>2
  <2>4. SavedIsWritten'
    <3> SUFFICES ASSUME NEW q \in Sockets, peer'[q].pc = "acked", ~strained',
                        NEW x \in Own(q), frame'[x] = "taken"
                 PROVE  x \in Content(log')
      BY DEF SavedIsWritten, Own
    <3>1. q # p
      BY <2>1
    <3>2. peer[q].pc = "acked" /\ frame[x] = "taken" /\ x \in Edits
      BY <2>2, <3>1
    <3> QED BY <1>5, <3>2, LogGrows DEF SavedInv, SavedIsWritten
  <2> QED BY <2>3, <2>4 DEF SavedInv
<1> QED BY <1>6, <1>7

LEMMA ReplySaved ==
    ASSUME OneAuthor, Whole, SavedInv, NEW p \in Peers, Reply(p)
    PROVE  SavedInv'
<1>0. /\ Placed /\ Typed /\ PlaceInv /\ RoomsAreGood /\ peer \in [Peers -> PeerState]
      /\ UNCHANGED <<log, room, frame, strained>>
  BY DEF Whole, Frozen, Placed, KeepInv, Typed, RoomTypeOK, Reply, dbVars
<1>1. /\ peer[p].pc = "check" /\ work[peer[p].room].pc = "idle"
      /\ \A q \in Peers : peer'[q].room = peer[q].room
      /\ \A q \in Peers \ {p} : peer'[q] = peer[q]
      /\ peer'[p].pc = "acked" => Saved(peer[p].room)
  BY <1>0 DEF Reply, PeerState
<1>2. PICK r \in RoomIds : r = peer[p].room /\ flusher[r].pc # "free"
  BY <1>0, <1>1, InsideRoom DEF Joining
<1>3. TakenIsShown'
  BY <1>0, <1>1 DEF SavedInv, TakenIsShown, Peers
<1>4. SavedIsWritten'
  <2> SUFFICES ASSUME NEW q \in Sockets, peer'[q].pc = "acked", ~strained',
                      NEW e \in Own(q), frame'[e] = "taken"
               PROVE  e \in Content(log')
    BY DEF SavedIsWritten, Own
  <2>1. CASE q # p
    BY <1>0, <1>1, <2>1 DEF SavedInv, SavedIsWritten, Own, Peers
  <2>2. CASE q = p
    <3>1. e \in room[r].replica /\ e \in Edits
      BY <1>0, <1>2, <2>2 DEF SavedInv, TakenIsShown, Own
    <3>2. room[r].pending = {} /\ work[r].batch = {} /\ Kept(room[r], work[r], InHands(r))
      BY <1>0, <1>1, <1>2, <2>2, GoodInside DEF Saved, Idle
    <3>3. e \in Content(log) \cup InHands(r)
      BY <3>1, <3>2 DEF Kept
    <3>4. ASSUME NEW a \in Peers, Carries(a, r, e) PROVE FALSE
      <4>1. e \in Own(a) /\ peer[a].pc = "in"
        BY <1>0, <3>1, <3>4, RoomAssumption DEF Carries, PlaceInv, PeersAreSomewhere
      <4>2. a = p
        BY <2>2, <3>1, <4>1 DEF OneAuthor, Peers
      <4> QED BY <1>1, <4>1, <4>2
    <3> QED BY <1>0, <3>3, <3>4 DEF InHands
  <2> QED BY <2>1, <2>2
<1> QED BY <1>3, <1>4 DEF SavedInv

LEMMA LeaveSaved ==
    ASSUME Whole, SavedInv, NEW p \in Peers, Leave(p)
    PROVE  SavedInv'
<1>0. /\ peer \in [Peers -> PeerState] /\ UNCHANGED <<log, room, strained>>
      /\ frame' = [e \in Edits |-> IF e \in Own(p) THEN "none" ELSE frame[e]]
      /\ peer'[p] = Out /\ \A q \in Peers \ {p} : peer'[q] = peer[q]
  BY DEF Whole, Frozen, Placed, Typed, RoomTypeOK, Leave, dbVars
<1>1. ASSUME NEW q \in Sockets, NEW e \in Own(q), frame'[e] = "taken"
      PROVE  q # p /\ frame[e] = "taken" /\ peer'[q] = peer[q] /\ e \in Edits
  BY <1>0, <1>1 DEF Own, Peers
<1>2. TakenIsShown'
  <2> SUFFICES ASSUME NEW q \in Sockets, NEW e \in Own(q), frame'[e] = "taken"
               PROVE  peer'[q].room # NoRoom /\ e \in room'[peer'[q].room].replica
    BY DEF TakenIsShown, Own
  <2> QED BY <1>0, <1>1 DEF SavedInv, TakenIsShown
<1>3. SavedIsWritten'
  <2> SUFFICES ASSUME NEW q \in Sockets, peer'[q].pc = "acked", ~strained',
                      NEW e \in Own(q), frame'[e] = "taken"
               PROVE  e \in Content(log')
    BY DEF SavedIsWritten, Own
  <2> QED BY <1>0, <1>1 DEF SavedInv, SavedIsWritten
<1> QED BY <1>2, <1>3 DEF SavedInv

LEMMA PeerSaved ==
    ASSUME OneAuthor, Whole, SavedInv, NEW p \in Peers,
           Finish(p) \/ Hangup(p) \/ AskSaved(p) \/ Reply(p) \/ Recheck(p) \/ EndSession(p)
    PROVE  SavedInv'
<1>0. /\ Typed /\ peer \in [Peers -> PeerState] /\ room \in [RoomIds -> RoomState]
  BY DEF Whole, Frozen, Placed, Typed, RoomTypeOK
<1>1. CASE Reply(p)
  BY <1>1, ReplySaved
<1>2. CASE Leave(p)
  BY <1>2, LeaveSaved
<1>3. CASE Push(p) \/ Hangup(p) \/ AskSaved(p) \/ Recheck(p) \/ EndSession(p)
  <2>1. frame' = frame
    BY <1>3 DEF Push, Hangup, AskSaved, Recheck, EndSession
  <2>2. ASSUME NEW q \in Peers
        PROVE  /\ peer'[q].pc = "acked" => peer[q].pc = "acked"
               /\ peer'[q].room = peer[q].room
    <3>1. CASE Push(p)
      BY <1>0, <3>1 DEF Push, PeerState
    <3>2. CASE Hangup(p)
      BY <1>0, <3>2 DEF Hangup, Parting, PeerState
    <3>3. CASE AskSaved(p)
      BY <1>0, <3>3 DEF AskSaved, Parting, PeerState
    <3>4. CASE Recheck(p)
      BY <1>0, <3>4 DEF Recheck, Parting, PeerState
    <3>5. CASE EndSession(p)
      BY <3>5 DEF EndSession
    <3> QED BY <1>3, <3>1, <3>2, <3>3, <3>4, <3>5
  <2>3. \A r \in RoomIds : room'[r].replica = room[r].replica
    <3>1. CASE Push(p)
      BY <1>0, <3>1 DEF Push, RoomState
    <3>2. CASE room' = room
      BY <3>2
    <3> QED BY <1>3, <3>1, <3>2 DEF Hangup, AskSaved, Recheck, EndSession
  <2>4. SavedCalm
    BY <2>1, <2>2, <2>3 DEF SavedCalm
  <2>5. Next
    BY <1>3 DEF Next, Finish
  <2> QED BY <2>4, <2>5, SavedStays
<1> QED BY <1>1, <1>2, <1>3 DEF Finish

\* Giving the lock back answers no barrier and moves nobody.
PeersStay ==
    \A p \in Peers : (peer'[p].pc = "acked" => peer[p].pc = "acked") /\ peer'[p].room = peer[p].room

LEMMA ReturnStays ==
    ASSUME Typed, NEW r \in RoomIds, NEW q \in Locks, Return(r, q)
    PROVE  PeersStay
<1>0. peer \in [Peers -> PeerState]
  BY DEF Typed, RoomTypeOK
<1>1. CASE q = Flusher
  BY <1>1 DEF Return, PeersStay
<1>2. CASE q # Flusher
  <2>1. q \in Peers
        /\ peer' = [peer EXCEPT ![q].pc = IF peer[q].pc = "barrier" THEN "check" ELSE "parted"]
    BY <1>2 DEF Return, Locks
  <2> QED BY <1>0, <2>1 DEF PeersStay, PeerState
<1> QED BY <1>1, <1>2

LEMMA LockSaved ==
    ASSUME Whole, SavedInv, NEW r \in RoomIds, NEW q \in Locks, TakeLock(r, q)
    PROVE  SavedInv'
<1>0. Typed /\ room \in [RoomIds -> RoomState] /\ frame' = frame
  BY DEF Whole, Frozen, Placed, Typed, RoomTypeOK, TakeLock, FlushEmpty, FlushTake
<1>1. PeersStay
  BY <1>0, ReturnStays DEF TakeLock, FlushEmpty, FlushTake, PeersStay
<1>2. \A s \in RoomIds : room'[s].replica = room[s].replica
  BY <1>0 DEF TakeLock, FlushEmpty, FlushTake, RoomState
<1>3. SavedCalm /\ Next
  BY <1>0, <1>1, <1>2 DEF SavedCalm, PeersStay, Next, Locks
<1> QED BY <1>3, SavedStays

LEMMA HoldSaved ==
    ASSUME Whole, SavedInv, NEW r \in RoomIds, Holding(r)
    PROVE  SavedInv'
<1>0. /\ Typed /\ peer \in [Peers -> PeerState] /\ room \in [RoomIds -> RoomState]
      /\ frame' = frame
  BY DEF Whole, Frozen, Placed, Typed, RoomTypeOK, Holding, FlushAppend, FlushRefused,
     CompactSnapshot, CompactCommit, CompactRefused, ResetSnapshot, ResetRead, ResetCommit,
     ResetRetry, ResetRefused
<1>1. PeersStay
  <2>1. CASE Release(r)
    BY <1>0, <2>1, RoomParts, ReturnStays DEF Release
  <2>2. CASE EndReset(r)
    BY <1>0, <2>2 DEF EndReset, PeersStay, PeerState
  <2>3. CASE peer' = peer
    BY <2>3 DEF PeersStay
  <2>4. FlushAppend(r) => Release(r) \/ peer' = peer
    BY DEF FlushAppend
  <2>5. FlushRefused(r) => Release(r) \/ peer' = peer
    BY DEF FlushRefused
  <2> QED BY <2>1, <2>2, <2>3, <2>4, <2>5 DEF Holding, CompactSnapshot, CompactCommit,
             CompactRefused, ResetSnapshot, ResetRead, ResetCommit, ResetRetry, ResetRefused
<1>2. \A s \in RoomIds : room[s].replica \subseteq room'[s].replica
  <2>1. CASE FlushAppend(r)
    <3>1. \E o : room' = [room EXCEPT ![r] = [room[r] EXCEPT !.own = room[r].own + 1,
                               !.escapeRefused = FALSE, !.overloaded = o]]
      BY <2>1 DEF FlushAppend
    <3> QED BY <1>0, <3>1 DEF RoomState
  <2>2. CASE FlushRefused(r) \/ ResetRefused(r)
    <3>1. room' = [room EXCEPT ![r] = Requeued(room[r], work[r].batch)]
      BY <2>2 DEF FlushRefused, ResetRefused
    <3> QED BY <1>0, <3>1 DEF Requeued, RoomState
  <2>3. CASE CompactCommit(r)
    BY <1>0, <2>3 DEF CompactCommit, RoomState
  <2>4. CASE CompactRefused(r)
    <3>1. \E b, x : room' = [room EXCEPT ![r] = [room[r] EXCEPT
                      !.replica = room[r].replica \cup Content(After(room[r].base)),
                      !.base = b, !.own = 0, !.escapeRefused = x]]
      BY <2>4 DEF CompactRefused
    <3> QED BY <1>0, <3>1 DEF RoomState
  <2>5. CASE ResetCommit(r)
    BY <1>0, <2>5 DEF ResetCommit, RoomState
  <2>6. CASE room' = room
    BY <2>6
  <2> QED BY <2>1, <2>2, <2>3, <2>4, <2>5, <2>6 DEF Holding, CompactSnapshot, ResetSnapshot,
             ResetRead, ResetRetry
<1>3. SavedCalm
  BY <1>0, <1>1, <1>2 DEF SavedCalm, PeersStay
<1>4. Next
  BY DEF Next
<1> QED BY <1>3, <1>4, SavedStays

LEMMA RoundSaved ==
    ASSUME Whole, SavedInv, NEW r \in RoomIds, Round(r)
    PROVE  SavedInv'
<1>0. /\ Placed /\ Typed /\ room \in [RoomIds -> RoomState] /\ UNCHANGED <<peer, frame>>
  BY DEF Whole, Frozen, Placed, Typed, RoomTypeOK, Round, FlusherTick, FlusherPublish,
     FlusherStays, FlusherQuits, Drop
<1>1. ASSUME NEW s \in RoomIds, \E q \in Peers : peer[q].room = s
      PROVE  room'[s].replica = room[s].replica
  <2>1. CASE Drop(r)
    <3>1. flusher[r].pc = "done" /\ room' = [room EXCEPT ![r] = Blank]
      BY <2>1 DEF Drop
    <3> QED BY <1>0, <1>1, <3>1, NobodyThere
  <2>2. CASE ~Drop(r)
    BY <1>0, <2>2 DEF Round, FlusherTick, FlusherPublish, FlusherStays, FlusherQuits, RoomState
  <2> QED BY <2>1, <2>2
<1>2. SavedCalm /\ Next
  BY <1>0, <1>1 DEF SavedCalm, Next
<1> QED BY <1>2, SavedStays

LEMMA PublishSaved ==
    ASSUME Whole, SavedInv, Freeze \/ Publish \/ \E e \in Edits : EditOffline(e)
    PROVE  SavedInv'
<1>0. /\ peer \in [Peers -> PeerState] /\ room \in [RoomIds -> RoomState] /\ frame' = frame
  BY DEF Whole, Frozen, Placed, Typed, RoomTypeOK, Freeze, Publish, ResyncStart, ResyncRead,
     ResyncPublish, EditOffline
<1>1. \A q \in Peers : peer'[q].pc = peer[q].pc /\ peer'[q].room = peer[q].room
  <2>1. CASE ResyncStart
    BY <1>0, <2>1 DEF ResyncStart, PeerState
  <2>2. CASE peer' = peer
    BY <2>2
  <2> QED BY <2>1, <2>2 DEF Freeze, Publish, ResyncRead, ResyncPublish, EditOffline
<1>2. \A r \in RoomIds : room'[r].replica = room[r].replica
  BY <1>0 DEF Freeze, Publish, ResyncStart, ResyncRead, ResyncPublish, EditOffline, RoomState
<1>3. SavedCalm /\ Next
  BY <1>0, <1>1, <1>2 DEF SavedCalm, Next
<1> QED BY <1>3, SavedStays

\* What a barrier answered `saved' covers is written, when an edit has one author.
THEOREM SavedIsWrittenHolds ==
    ASSUME OneAuthor
    PROVE  Spec => []SavedIsWritten
<1>1. Init => Whole /\ SavedInv
  <2>1. Init => TakenIsShown
    BY DEF Init, TakenIsShown, Own
  <2>2. Init => SavedIsWritten
    BY DEF Init, SavedIsWritten, Out, Peers
  <2> QED BY <2>1, <2>2, InitWhole DEF SavedInv
<1>2. Whole /\ SavedInv /\ [Next]_vars => (Whole /\ SavedInv)'
  <2> SUFFICES ASSUME Whole, SavedInv, [Next]_vars PROVE SavedInv'
    BY StepWhole
  <2>1. CASE UNCHANGED vars
    <3>1. SavedCalm
      BY <2>1 DEF SavedCalm, vars
    <3> QED BY <3>1, SavedStays
  <2>2. CASE Next
    BY <2>2, Steps, JoinSaved, PeerSaved, EditSaved, LockSaved, HoldSaved, RoundSaved, PublishSaved
  <2> QED BY <2>1, <2>2
<1>3. SavedInv => SavedIsWritten
  BY DEF SavedInv
<1> QED BY <1>1, <1>2, <1>3, PTL DEF Spec
=============================================================================
