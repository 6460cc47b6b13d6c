----------------------------- MODULE WorkLanes -----------------------------
(***************************************************************************)
(* Lanes of work and what is handed out from them: src/store/work_lanes.rs *)
(* and the proposals of src/store/lane_organizer.rs.  A lane is a text, a  *)
(* flag and its tickets.  A handoff is a snapshot of a lane that a worker  *)
(* claims under a lease, again and again if it must, and finishes once.    *)
(* The organizer's job sees all active lanes and pending tickets and       *)
(* proposes where the tickets go; a human accepts the proposal whole.      *)
(*                                                                         *)
(* A lane's title, purpose and context are one value.  The revision of a   *)
(* snapshot is a hash over everything in it, updated_at included, so it    *)
(* still matches exactly when nothing in its scope was saved since: the    *)
(* flag `fresh'.  Leases are the time they have left.  The queue in which  *)
(* the organizer's job waits is the module AgentJobs.                      *)
(***************************************************************************)
EXTENDS Integers, FiniteSets, Sequences

CONSTANTS
    Lanes,         \* bound: lanes that may be created
    Tickets,
    Handoffs,      \* bound: handoffs that may be created
    Plans,         \* bound: organizer requests
    Workers,       \* a token with its actor
    NoWorker,
    Texts,         \* what a lane may say
    Work,          \* what a result may name as its revision
    NoWork,
    WorkLease,     \* 120 seconds
    MaxAttempts,   \* bound: claims of one handoff
    MaxTouches     \* bound: patches, archives, attachments and outside edits

ASSUME LanesAssumption ==
    /\ NoWorker \notin Workers /\ NoWork \notin Work
    /\ WorkLease \in Nat \ {0} /\ MaxAttempts \in Nat /\ MaxTouches \in Nat
    /\ Texts # {} /\ Lanes # {}

VARIABLES
    lane,       \* work_lanes
    placed,     \* work_lane_tickets: lane -> its tickets
    open,       \* tickets that are live and not terminal
    handoff,    \* work_handoffs
    plan,       \* lane_organizer_jobs with their agent_jobs
    readOnly,   \* the project is archived
    touches     \* how many of the bounded edits there were

laneVars == <<lane, placed, open, handoff, plan, readOnly, touches>>

-----------------------------------------------------------------------------
Outset == CHOOSE x \in Texts : TRUE
NoLane == [status |-> "none", text |-> Outset]
NoHandoff(l) == [status |-> "none", kind |-> "preparation", lane |-> l,
                 saw |-> Outset, target |-> NoWork, of |-> {}, by |-> <<>>,
                 lease |-> 0, revision |-> NoWork]
NoPlan == [status |-> "none", fresh |-> FALSE, saw |-> [l \in Lanes |-> Outset],
           lanes |-> {}, pending |-> {}, groups |-> [l \in Lanes |-> {}]]

LanesInit ==
    /\ lane = [l \in Lanes |-> NoLane]
    /\ placed = [l \in Lanes |-> {}]
    /\ open = Tickets
    /\ handoff = [h \in Handoffs |-> NoHandoff(CHOOSE l \in Lanes : TRUE)]
    /\ plan = [p \in Plans |-> NoPlan]
    /\ readOnly = FALSE
    /\ touches = 0

Touch == touches < MaxTouches /\ touches' = touches + 1

InUse(lanes) == {l \in Lanes : lanes[l].status = "active"}
\* snapshot's first query: tickets nobody placed in a lane in use.
Pending == {t \in open : \A l \in InUse(lane) : t \notin placed[l]}

\* Something inside the scope of every snapshot was saved.
Outdated(plans) == [p \in Plans |-> [plans[p] EXCEPT !.fresh = FALSE]]

\* save_lane: updated_at is in the snapshot of a lane that is in use.
Saved(l, lanes) ==
    plan' = IF l \in InUse(lane) \cup InUse(lanes) THEN Outdated(plan) ELSE plan

\* writable: the project takes work and so does the lane.
Writable(l) == ~readOnly /\ lane[l].status = "active"

-----------------------------------------------------------------------------
\* Lanes and their tickets.

LaneCreate(l, x) ==
    /\ ~readOnly /\ lane[l].status = "none"
    /\ lane' = [lane EXCEPT ![l] = [status |-> "active", text |-> x]]
    /\ Saved(l, lane')
    /\ UNCHANGED <<placed, open, handoff, readOnly, touches>>

\* work_lane_patch: an archived lane may still be edited.
LanePatch(l) ==
    /\ ~readOnly /\ lane[l].status # "none" /\ Touch
    /\ \E x \in Texts, s \in {"active", "archived"} :
        /\ lane' = [lane EXCEPT ![l] = [status |-> s, text |-> x]]
        /\ Saved(l, lane')
    /\ UNCHANGED <<placed, open, handoff, readOnly>>

LaneTicket(l, t) ==
    /\ Writable(l) /\ Touch
    /\ \E ts \in {placed[l] \cup {t}, placed[l] \ {t}} : placed' = [placed EXCEPT ![l] = ts]
    /\ Saved(l, lane)
    /\ UNCHANGED <<lane, open, handoff, readOnly>>

\* A ticket or a specification document changes; a ticket may end.
ChangeElsewhere ==
    /\ Touch
    /\ open' \in {open} \cup {open \ {t} : t \in open}
    /\ plan' = Outdated(plan)
    /\ UNCHANGED <<lane, placed, handoff, readOnly>>

SetReadOnly ==
    /\ Touch
    /\ readOnly' = ~readOnly
    /\ UNCHANGED <<lane, placed, open, handoff, plan>>

-----------------------------------------------------------------------------
\* Handoffs.

Attempt(h) == Len(handoff[h].by)

\* A review names a completed implementation of its lane and its revision.
Reviewable(i, l, w) ==
    /\ handoff[i].lane = l /\ handoff[i].kind = "implementation"
    /\ handoff[i].status = "completed" /\ handoff[i].revision = w /\ w # NoWork

\* work_handoff_create; all work but preparation selects tickets of the lane.
\* Ids are drawn at random, so it does not matter which one is next.
HandoffCreate(l) ==
    LET new == {h \in Handoffs : handoff[h].status = "none"}
        h == CHOOSE i \in new : TRUE IN
    /\ Writable(l) /\ new # {}
    /\ \E kind \in {"preparation", "implementation", "review"},
          target \in Work \cup {NoWork}, of \in {{}} \cup {{i} : i \in Handoffs} :
        /\ kind # "preparation" => placed[l] # {}
        /\ IF kind = "review" THEN of # {} /\ \A i \in of : Reviewable(i, l, target)
                              ELSE of = {} /\ target = NoWork
        /\ handoff' = [handoff EXCEPT ![h] =
            [NoHandoff(l) EXCEPT !.status = "draft", !.kind = kind, !.of = of,
                                 !.target = target, !.saw = lane[l].text]]
    /\ Saved(l, lane)
    /\ UNCHANGED <<lane, placed, open, readOnly, touches>>

Dispatch(h) ==
    /\ handoff[h].status = "draft" /\ Writable(handoff[h].lane)
    /\ handoff' = [handoff EXCEPT ![h].status = "queued"]
    /\ Saved(handoff[h].lane, lane)
    /\ UNCHANGED <<lane, placed, open, readOnly, touches>>

CancelHandoff(h) ==
    /\ handoff[h].status \in {"draft", "queued", "running"} /\ ~readOnly
    /\ handoff' = [handoff EXCEPT ![h].status = "cancelled", ![h].lease = 0]
    /\ Saved(handoff[h].lane, lane)
    /\ UNCHANGED <<lane, placed, open, readOnly, touches>>

Available(h) == \/ handoff[h].status = "queued"
                \/ handoff[h].status = "running" /\ handoff[h].lease = 0

ClaimHandoff(h, w) ==
    /\ Available(h) /\ Writable(handoff[h].lane)
    /\ Attempt(h) < MaxAttempts
    /\ handoff' = [handoff EXCEPT ![h].status = "running", ![h].by = Append(@, w),
                                  ![h].lease = WorkLease]
    /\ Saved(handoff[h].lane, lane)
    /\ UNCHANGED <<lane, placed, open, readOnly, touches>>

\* Mutant of Current: whoever holds the number of the last attempt.
Current_Number(h, w, n) == n = Attempt(h)

\* The worker that sends attempt n holds the lease, and n is the last attempt.
\* (by keeps every claimant; owner_token and owner_actor are the last, and are
\* cleared when the lease is.)
Current(h, w, n) ==
    /\ handoff[h].status = "running" /\ handoff[h].lease > 0
    /\ n = Attempt(h) /\ w = handoff[h].by[n]

HeartbeatHandoff(h, w, n) ==
    /\ Current(h, w, n) /\ ~readOnly
    /\ handoff' = [handoff EXCEPT ![h].lease = WorkLease]
    /\ UNCHANGED <<lane, placed, open, plan, readOnly, touches>>

\* A preparation is applied if the lane still says what its worker was shown.
Applies(h) == handoff[h].kind = "preparation" /\ lane[handoff[h].lane].text = handoff[h].saw

Result(h, w, n) ==
    LET l == handoff[h].lane IN
    /\ Current(h, w, n) /\ ~readOnly
    /\ \E status \in {"completed", "failed"}, r \in Work \cup {NoWork}, x \in Texts :
        /\ handoff' = [handoff EXCEPT ![h].status = status, ![h].revision = r,
                                      ![h].lease = 0]
        /\ lane' = IF status = "completed" /\ Applies(h)
                   THEN [lane EXCEPT ![l].text = x] ELSE lane
    /\ Saved(l, lane)
    /\ UNCHANGED <<placed, open, readOnly, touches>>

LeasesRun ==
    /\ handoff' = [h \in Handoffs |->
        [handoff[h] EXCEPT !.lease = IF @ > 0 THEN @ - 1 ELSE 0]]
    /\ UNCHANGED <<lane, placed, open, plan, readOnly, touches>>

-----------------------------------------------------------------------------
\* The organizer.

\* lane_organizer_send: one request at a time, and something to organize.
PlanRequest(p) ==
    /\ ~readOnly /\ plan[p].status = "none" /\ Pending # {}
    /\ \A q \in Plans : plan[q].status # "asked"
    /\ plan' = [plan EXCEPT ![p] =
        [NoPlan EXCEPT !.status = "asked", !.fresh = TRUE, !.pending = Pending,
                       !.saw = [l \in Lanes |-> lane[l].text],
                       !.lanes = {l \in Lanes : lane[l].status # "archived"}]]
    /\ UNCHANGED <<lane, placed, open, handoff, readOnly, touches>>

\* save_proposal: every pending ticket of the snapshot goes into one group or,
\* with the reason, into none; a group is a lane in use or a new one, named here
\* by the lane it will be.  The job may fail.
PlanResult(p) ==
    /\ plan[p].status = "asked"
    /\ \/ plan' = [plan EXCEPT ![p].status = "failed", ![p].fresh = FALSE]
       \/ \E home \in [plan[p].pending -> {{}} \cup {{l} : l \in plan[p].lanes}] :
            plan' = [plan EXCEPT ![p].status = "proposed",
                        ![p].groups = [l \in Lanes |-> {t \in DOMAIN home : l \in home[t]}]]
    /\ UNCHANGED <<lane, placed, open, handoff, readOnly, touches>>

\* Mutant of Acceptable: only the tickets are compared.
Acceptable_Tickets(p) == UNION {plan[p].groups[l] : l \in Lanes} \subseteq Pending

\* The snapshot taken now has the revision the proposal was made for.
Acceptable(p) == plan[p].fresh

\* lane_organizer_accept: all groups or nothing; an accepted proposal is left
\* alone.
PlanAccept(p) ==
    LET used == {l \in Lanes : plan[p].groups[l] # {}} IN
    /\ ~readOnly /\ plan[p].status = "proposed" /\ Acceptable(p)
    /\ \E texts \in [used -> Texts] :
        lane' = [l \in Lanes |-> IF l \in used
                                 THEN [status |-> "active", text |-> texts[l]]
                                 ELSE lane[l]]
    /\ placed' = [l \in Lanes |-> placed[l] \cup plan[p].groups[l]]
    /\ plan' = [(IF used = {} THEN plan ELSE Outdated(plan))
                    EXCEPT ![p].status = "accepted", ![p].fresh = FALSE]
    /\ UNCHANGED <<open, handoff, readOnly, touches>>

-----------------------------------------------------------------------------
LanesNext ==
    \/ \E l \in Lanes : \/ \E x \in Texts : LaneCreate(l, x)
                        \/ LanePatch(l)
                        \/ \E t \in Tickets : LaneTicket(l, t)
                        \/ HandoffCreate(l)
    \/ ChangeElsewhere \/ SetReadOnly
    \/ \E h \in Handoffs :
        \/ Dispatch(h) \/ CancelHandoff(h)
        \/ \E w \in Workers : \/ ClaimHandoff(h, w)
                              \/ \E n \in 1 .. Attempt(h) : HeartbeatHandoff(h, w, n)
                                                            \/ Result(h, w, n)
    \/ LeasesRun
    \/ \E p \in Plans : PlanRequest(p) \/ PlanResult(p) \/ PlanAccept(p)

LanesSpec == LanesInit /\ [][LanesNext]_laneVars

-----------------------------------------------------------------------------
LaneRows == [status : {"none", "active", "archived"}, text : Texts]
HandoffRows ==
    [status : {"none", "draft", "queued", "running", "completed", "failed", "cancelled"},
     kind : {"preparation", "implementation", "review"}, lane : Lanes, saw : Texts,
     target : Work \cup {NoWork}, of : SUBSET Handoffs, by : Seq(Workers),
     lease : 0 .. WorkLease, revision : Work \cup {NoWork}]
PlanRows ==
    [status : {"none", "asked", "proposed", "failed", "accepted"}, fresh : BOOLEAN,
     saw : [Lanes -> Texts], lanes : SUBSET Lanes, pending : SUBSET Tickets,
     groups : [Lanes -> SUBSET Tickets]]

LanesTypeOK ==
    /\ lane \in [Lanes -> LaneRows]
    /\ placed \in [Lanes -> SUBSET Tickets] /\ open \subseteq Tickets
    /\ handoff \in [Handoffs -> HandoffRows]
    /\ plan \in [Plans -> PlanRows]
    /\ readOnly \in BOOLEAN /\ touches \in Nat

\* A review looks at what its implementation delivered and will never look at
\* anything else: the implementation stays completed, in the same lane, with the
\* revision the review names, whoever claims, repeats or cancels what
\* (work_handoff_create: "a completed implementation in this lane and its exact
\* result revision").
ReviewsSeeFinalWork ==
    \A h \in Handoffs : \A i \in handoff[h].of :
        /\ handoff[i].status = "completed" /\ handoff[i].kind = "implementation"
        /\ handoff[i].lane = handoff[h].lane /\ handoff[i].revision = handoff[h].target

\* What a lane says is replaced on an agent's word only if the agent was shown
\* it: neither a preparation's result nor an accepted proposal writes over an
\* edit made after its snapshot (docs/lanes.md).
SeesWhatItReplaces(l) ==
    lane[l].status # "none" /\ lane'[l].text # lane[l].text =>
        /\ \A h \in Handoffs :
            handoff[h].lane = l /\ handoff'[h].status # handoff[h].status
                => lane[l].text = handoff[h].saw
        /\ \A p \in Plans :
            plan'[p].status # plan[p].status => lane[l].text = plan[p].saw[l]
UnseenEditsSurvive == [][\A l \in Lanes : SeesWhatItReplaces(l)]_laneVars

\* Every handoff implements the fenced lease: the attempt is the token.
HandoffLease == INSTANCE FencedLease WITH
    Leases <- Handoffs, Owners <- Workers, Nobody <- NoWorker,
    phase <- [h \in Handoffs |-> IF handoff[h].status # "running" THEN "free"
                                 ELSE IF handoff[h].lease > 0 THEN "held" ELSE "lapsed"],
    owner <- [h \in Handoffs |-> IF handoff[h].status # "running" THEN NoWorker
                                 ELSE handoff[h].by[Len(handoff[h].by)]],
    token <- [h \in Handoffs |-> Len(handoff[h].by)]
AttemptsAreFenced == HandoffLease!Spec
=============================================================================
