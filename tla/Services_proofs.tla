-------------------------- MODULE Services_proofs --------------------------
(***************************************************************************)
(* Theorems about the services an agent works through: WorkLanes (lanes,   *)
(* handoffs and proposals, for every number of them, of workers and of     *)
(* texts, and any length of lease) and OAuthGrants (consents, codes and    *)
(* tokens, any number of each and every lifetime).  The two share no       *)
(* state.                                                                  *)
(***************************************************************************)
EXTENDS WorkLanes, OAuthGrants, TLAPS

-----------------------------------------------------------------------------
(* The inductive invariant. *)

\* A handoff is of a lane that exists.
HandoffsAreOfLanes ==
    \A h \in Handoffs : handoff[h].status # "none" => lane[handoff[h].lane].status # "none"

\* A snapshot that is still current shows its lanes as they are.
FreshPlansAreTrue ==
    \A p \in Plans : plan[p].fresh =>
        \A l \in plan[p].lanes : /\ lane[l].status # "archived"
                                 /\ lane[l].text = plan[p].saw[l]

\* A proposal groups tickets in lanes it was shown.
GroupsAreShown ==
    \A p \in Plans : \A l \in Lanes : plan[p].groups[l] # {} => l \in plan[p].lanes

LanesInv == /\ LanesTypeOK /\ HandoffsAreOfLanes /\ FreshPlansAreTrue /\ GroupsAreShown
            /\ ReviewsSeeFinalWork

-----------------------------------------------------------------------------
(* Plans that at most go stale, and handoffs whose results stay. *)

\* What Saved and Outdated do to plans.
PlansStale(plans) ==
    /\ plans \in [Plans -> PlanRows]
    /\ \A p \in Plans : /\ plans[p].status = plan[p].status /\ plans[p].saw = plan[p].saw
                        /\ plans[p].lanes = plan[p].lanes /\ plans[p].groups = plan[p].groups
                        /\ plans[p].fresh => plan[p].fresh

LEMMA OutdatedIsStale ==
    ASSUME LanesTypeOK
    PROVE  /\ PlansStale(Outdated(plan)) /\ PlansStale(plan)
           /\ \A p \in Plans : ~Outdated(plan)[p].fresh
<1>1. plan \in [Plans -> PlanRows]
  BY DEF LanesTypeOK
<1>2. ASSUME NEW p \in Plans
      PROVE  /\ Outdated(plan)[p] \in PlanRows /\ ~Outdated(plan)[p].fresh
             /\ Outdated(plan)[p].status = plan[p].status
             /\ Outdated(plan)[p].saw = plan[p].saw
             /\ Outdated(plan)[p].lanes = plan[p].lanes
             /\ Outdated(plan)[p].groups = plan[p].groups
  <2>1. plan[p] \in PlanRows
    BY <1>1
  <2>2. Outdated(plan)[p] = [plan[p] EXCEPT !.fresh = FALSE]
    BY DEF Outdated
  <2> QED BY <2>1, <2>2 DEF PlanRows
<1>3. Outdated(plan) = [p \in Plans |-> Outdated(plan)[p]]
  BY DEF Outdated
<1> QED BY <1>1, <1>2, <1>3 DEF PlansStale

LEMMA SavedIsStale ==
    ASSUME LanesTypeOK, NEW l, NEW lanes, Saved(l, lanes)
    PROVE  /\ PlansStale(plan')
           /\ l \in InUse(lane) \cup InUse(lanes) => \A p \in Plans : ~plan'[p].fresh
BY OutdatedIsStale DEF Saved

\* The row of a completed handoff stays, and none loses what it is.
HandoffsMove(rows) ==
    /\ rows \in [Handoffs -> HandoffRows]
    /\ \A h \in Handoffs :
        /\ rows[h].lane = handoff[h].lane /\ rows[h].kind = handoff[h].kind
        /\ rows[h].of = handoff[h].of /\ rows[h].target = handoff[h].target
        /\ rows[h].status = "none" <=> handoff[h].status = "none"
        /\ handoff[h].status = "completed" =>
            rows[h].status = "completed" /\ rows[h].revision = handoff[h].revision

LEMMA ReviewsStay ==
    ASSUME LanesTypeOK, ReviewsSeeFinalWork, HandoffsMove(handoff')
    PROVE  ReviewsSeeFinalWork'
<1> SUFFICES ASSUME NEW h \in Handoffs, NEW i \in handoff'[h].of
             PROVE  /\ handoff'[i].status = "completed"
                    /\ handoff'[i].kind = "implementation"
                    /\ handoff'[i].lane = handoff'[h].lane
                    /\ handoff'[i].revision = handoff'[h].target
  BY DEF ReviewsSeeFinalWork
<1>1. i \in handoff[h].of /\ i \in Handoffs
  BY DEF HandoffsMove, LanesTypeOK, HandoffRows
<1> QED BY <1>1 DEF ReviewsSeeFinalWork, HandoffsMove

\* A step on the lanes of a plan that outdates it keeps what plans promise.
LEMMA LanesMayChange ==
    ASSUME LanesInv, PlansStale(plan'),
           \A p \in Plans, l \in Lanes :
                plan'[p].fresh /\ l \in plan[p].lanes => lane'[l] = lane[l]
    PROVE  FreshPlansAreTrue' /\ GroupsAreShown'
<1>1. \A p \in Plans : plan[p].lanes \subseteq Lanes
  BY DEF LanesInv, LanesTypeOK, PlanRows
<1> QED BY <1>1 DEF LanesInv, FreshPlansAreTrue, GroupsAreShown, PlansStale

LEMMA HandoffsStay == LanesTypeOK => HandoffsMove(handoff)
BY DEF LanesTypeOK, HandoffsMove

LEMMA TouchCounts == LanesTypeOK /\ Touch => touches' \in Nat
BY DEF LanesTypeOK, Touch

-----------------------------------------------------------------------------
(* Lanes and their tickets. *)

LEMMA LaneStep ==
    ASSUME LanesInv, NEW l \in Lanes, NEW r \in LaneRows, r.status # "none",
           lane' = [lane EXCEPT ![l] = r],
           l \in InUse(lane) \cup InUse(lane') \/ lane[l].status = "archived",
           Saved(l, lane'), UNCHANGED <<placed, open, handoff, readOnly>>, touches' \in Nat
    PROVE  LanesInv'
<1>1. /\ lane \in [Lanes -> LaneRows] /\ lane'[l] = r
      /\ \A k \in Lanes : k # l => lane'[k] = lane[k]
      /\ lane' \in [Lanes -> LaneRows]
  BY DEF LanesInv, LanesTypeOK
<1>2. PlansStale(plan')
      /\ (l \in InUse(lane) \cup InUse(lane') => \A p \in Plans : ~plan'[p].fresh)
  BY SavedIsStale DEF LanesInv
<1>3. LanesTypeOK'
  BY <1>1, <1>2 DEF LanesInv, LanesTypeOK, PlansStale
<1>4. HandoffsAreOfLanes'
  BY <1>1 DEF LanesInv, HandoffsAreOfLanes, LanesTypeOK, HandoffRows
<1>5. \A p \in Plans, k \in Lanes :
            plan'[p].fresh /\ k \in plan[p].lanes => lane'[k] = lane[k]
  BY <1>1, <1>2 DEF LanesInv, FreshPlansAreTrue, PlansStale
<1>6. FreshPlansAreTrue' /\ GroupsAreShown'
  BY <1>2, <1>5, LanesMayChange
<1>7. ReviewsSeeFinalWork'
  BY HandoffsStay, ReviewsStay DEF LanesInv
<1> QED BY <1>3, <1>4, <1>6, <1>7 DEF LanesInv

LEMMA CreateStep ==
    ASSUME LanesInv, NEW l \in Lanes, NEW x \in Texts, LaneCreate(l, x)
    PROVE  LanesInv'
<1> DEFINE r == [status |-> "active", text |-> x]
<1>1. /\ r \in LaneRows /\ r.status = "active" /\ lane' = [lane EXCEPT ![l] = r]
      /\ Saved(l, lane')
      /\ UNCHANGED <<placed, open, handoff, readOnly, touches>>
  BY DEF LaneCreate, LaneRows
<1> HIDE DEF r
<1>2. l \in InUse(lane') /\ touches' \in Nat
  BY <1>1 DEF InUse, LanesInv, LanesTypeOK
<1> QED BY <1>1, <1>2, LaneStep

LEMMA PatchStep ==
    ASSUME LanesInv, NEW l \in Lanes, LanePatch(l)
    PROVE  LanesInv'
<1>1. PICK x \in Texts, s \in {"active", "archived"} :
        lane' = [lane EXCEPT ![l] = [status |-> s, text |-> x]] /\ Saved(l, lane')
  BY DEF LanePatch
<1> DEFINE r == [status |-> s, text |-> x]
<1>2. r \in LaneRows /\ r.status # "none"
  BY DEF LaneRows
<1>3. lane[l].status \in {"active", "archived"} /\ touches' \in Nat
      /\ UNCHANGED <<placed, open, handoff, readOnly>>
  BY TouchCounts DEF LanePatch, LanesInv, LanesTypeOK, LaneRows
<1>4. l \in InUse(lane) \/ lane[l].status = "archived"
  BY <1>3 DEF InUse
<1> HIDE DEF r
<1> QED BY <1>1, <1>2, <1>3, <1>4, LaneStep DEF r

\* Steps that leave lanes and handoffs alone.
LEMMA AsideStep ==
    ASSUME LanesInv, UNCHANGED <<lane, handoff>>, PlansStale(plan'),
           placed' \in [Lanes -> SUBSET Tickets], open' \subseteq Tickets,
           readOnly' \in BOOLEAN, touches' \in Nat
    PROVE  LanesInv'
<1>1. LanesTypeOK'
  BY DEF LanesInv, LanesTypeOK, PlansStale
<1>2. HandoffsAreOfLanes' /\ ReviewsSeeFinalWork'
  BY DEF LanesInv, HandoffsAreOfLanes, ReviewsSeeFinalWork
<1>3. FreshPlansAreTrue' /\ GroupsAreShown'
  BY LanesMayChange
<1> QED BY <1>1, <1>2, <1>3 DEF LanesInv

LEMMA EditStep ==
    ASSUME LanesInv,
           \/ \E l \in Lanes, t \in Tickets : LaneTicket(l, t)
           \/ ChangeElsewhere \/ SetReadOnly \/ UNCHANGED laneVars
    PROVE  LanesInv'
<1>1. /\ placed \in [Lanes -> SUBSET Tickets] /\ open \subseteq Tickets
      /\ readOnly \in BOOLEAN /\ touches \in Nat /\ LanesTypeOK
      /\ PlansStale(plan) /\ PlansStale(Outdated(plan))
  BY OutdatedIsStale DEF LanesInv, LanesTypeOK
<1>2. ASSUME NEW l \in Lanes, NEW t \in Tickets, LaneTicket(l, t)
      PROVE  LanesInv'
  <2>1. PlansStale(plan') /\ touches' \in Nat /\ UNCHANGED <<lane, open, handoff, readOnly>>
    BY <1>1, <1>2, SavedIsStale, TouchCounts DEF LaneTicket
  <2>2. placed' \in [Lanes -> SUBSET Tickets]
    BY <1>1, <1>2 DEF LaneTicket
  <2> QED BY <1>1, <2>1, <2>2, AsideStep
<1>3. CASE ChangeElsewhere
  <2>1. open' \subseteq Tickets
    BY <1>1, <1>3 DEF ChangeElsewhere
  <2> QED BY <1>1, <1>3, <2>1, AsideStep, TouchCounts DEF ChangeElsewhere
<1>4. CASE SetReadOnly
  <2>1. readOnly' \in BOOLEAN
    BY <1>4 DEF SetReadOnly
  <2> QED BY <1>1, <1>4, <2>1, AsideStep, TouchCounts DEF SetReadOnly
<1>5. CASE UNCHANGED laneVars
  BY <1>1, <1>5, AsideStep DEF laneVars
<1> QED BY <1>2, <1>3, <1>4, <1>5

-----------------------------------------------------------------------------
(* Handoffs. *)

\* The row of a handoff that is neither new nor completed changes.
Moves(h, row) ==
    /\ row \in HandoffRows /\ handoff[h].status \notin {"none", "completed"}
    /\ row.lane = handoff[h].lane /\ row.kind = handoff[h].kind /\ row.of = handoff[h].of
    /\ row.target = handoff[h].target /\ row.status # "none"
    /\ handoff' = [handoff EXCEPT ![h] = row]

LEMMA OneHandoffMoves ==
    ASSUME LanesTypeOK, NEW h \in Handoffs, NEW row, Moves(h, row)
    PROVE  HandoffsMove(handoff')
BY DEF Moves, HandoffsMove, LanesTypeOK

LEMMA HandoffStep ==
    ASSUME LanesInv, PlansStale(plan'), HandoffsMove(handoff'),
           UNCHANGED <<lane, placed, open, readOnly, touches>>
    PROVE  LanesInv'
<1>1. LanesTypeOK'
  BY DEF LanesInv, LanesTypeOK, PlansStale, HandoffsMove
<1>2. HandoffsAreOfLanes'
  BY DEF LanesInv, HandoffsAreOfLanes, HandoffsMove
<1>3. FreshPlansAreTrue' /\ GroupsAreShown'
  BY LanesMayChange
<1>4. ReviewsSeeFinalWork'
  BY ReviewsStay DEF LanesInv
<1> QED BY <1>1, <1>2, <1>3, <1>4 DEF LanesInv

\* What a row of a handoff becomes.
Become(h, status, hands, lease) ==
    [handoff[h] EXCEPT !.status = status, !.by = hands, !.lease = lease]

LEMMA BecomeMoves ==
    ASSUME LanesTypeOK, NEW h \in Handoffs,
           NEW status \in {"draft", "queued", "running", "completed", "failed", "cancelled"},
           NEW hands \in Seq(Workers), NEW lease \in 0 .. WorkLease,
           handoff[h].status \notin {"none", "completed"},
           handoff' = [handoff EXCEPT ![h] = Become(h, status, hands, lease)]
    PROVE  Moves(h, Become(h, status, hands, lease))
<1>1. handoff[h] \in HandoffRows
  BY DEF LanesTypeOK
<1> QED BY <1>1 DEF Moves, Become, HandoffRows

\* A review is opened on a completed implementation; nothing names a handoff
\* that was not there.
LEMMA HandoffCreateStep ==
    ASSUME LanesInv, NEW l \in Lanes, HandoffCreate(l)
    PROVE  LanesInv'
<1> DEFINE h == CHOOSE i \in {g \in Handoffs : handoff[g].status = "none"} : TRUE
<1>1. h \in Handoffs /\ handoff[h].status = "none"
  BY DEF HandoffCreate
<1>2. PICK kind \in {"preparation", "implementation", "review"},
           target \in Work \cup {NoWork}, of \in {{}} \cup {{i} : i \in Handoffs} :
        /\ IF kind = "review" THEN of # {} /\ \A i \in of : Reviewable(i, l, target)
                              ELSE of = {} /\ target = NoWork
        /\ handoff' = [handoff EXCEPT ![h] =
            [NoHandoff(l) EXCEPT !.status = "draft", !.kind = kind, !.of = of,
                                 !.target = target, !.saw = lane[l].text]]
  BY DEF HandoffCreate
<1> HIDE DEF h
<1> DEFINE row == [NoHandoff(l) EXCEPT !.status = "draft", !.kind = kind, !.of = of,
                                       !.target = target, !.saw = lane[l].text]
<1>3. /\ handoff \in [Handoffs -> HandoffRows] /\ lane \in [Lanes -> LaneRows]
      /\ LanesTypeOK /\ lane[l].text \in Texts /\ of \in SUBSET Handoffs
  BY DEF LanesInv, LanesTypeOK, LaneRows
<1>4. /\ row \in HandoffRows /\ row.lane = l /\ row.of = of /\ row.target = target
      /\ row.status = "draft"
  <2>1. 0 \in 0 .. WorkLease /\ <<>> \in Seq(Workers)
    BY LanesAssumption
  <2>2. NoHandoff(l) \in HandoffRows /\ NoHandoff(l).lane = l
    <3>1. Outset \in Texts
      BY LanesAssumption DEF Outset
    <3> QED BY <1>3, <2>1, <3>1 DEF NoHandoff, HandoffRows
  <2> QED BY <1>2, <1>3, <2>2 DEF HandoffRows
<1> HIDE DEF row
<1>5. /\ handoff' \in [Handoffs -> HandoffRows] /\ handoff'[h] = row
      /\ \A g \in Handoffs : g # h => handoff'[g] = handoff[g]
  BY <1>1, <1>2, <1>3, <1>4 DEF row
<1>6. /\ PlansStale(plan') /\ UNCHANGED <<lane, placed, open, readOnly, touches>>
      /\ lane[l].status = "active"
  BY <1>3, SavedIsStale DEF HandoffCreate, Writable
<1>7. LanesTypeOK'
  BY <1>3, <1>5, <1>6 DEF LanesTypeOK, PlansStale
<1>8. HandoffsAreOfLanes'
  BY <1>4, <1>5, <1>6 DEF LanesInv, HandoffsAreOfLanes
<1>9. FreshPlansAreTrue' /\ GroupsAreShown'
  BY <1>6, LanesMayChange
<1>10. ReviewsSeeFinalWork'
  <2> SUFFICES ASSUME NEW g \in Handoffs, NEW i \in handoff'[g].of
               PROVE  /\ handoff'[i].status = "completed"
                      /\ handoff'[i].kind = "implementation"
                      /\ handoff'[i].lane = handoff'[g].lane
                      /\ handoff'[i].revision = handoff'[g].target
    BY DEF ReviewsSeeFinalWork
  <2>1. CASE g = h
    <3>1. i \in of /\ i \in Handoffs /\ Reviewable(i, l, target)
      BY <1>2, <1>3, <1>4, <1>5, <2>1
    <3>2. i # h
      BY <1>1, <3>1 DEF Reviewable
    <3> QED BY <1>4, <1>5, <2>1, <3>1, <3>2 DEF Reviewable
  <2>2. CASE g # h
    <3>1. i \in handoff[g].of /\ i \in Handoffs
      BY <1>3, <1>5, <2>2 DEF HandoffRows
    <3>2. handoff[i].status = "completed"
      BY <3>1 DEF LanesInv, ReviewsSeeFinalWork
    <3>3. i # h
      BY <1>1, <3>2
    <3> QED BY <1>5, <2>2, <3>1, <3>3 DEF LanesInv, ReviewsSeeFinalWork
  <2> QED BY <2>1, <2>2
<1> QED BY <1>7, <1>8, <1>9, <1>10 DEF LanesInv

LEMMA HandoffMoveStep ==
    ASSUME LanesInv, NEW h \in Handoffs,
           \/ Dispatch(h) \/ CancelHandoff(h)
           \/ \E w \in Workers : \/ ClaimHandoff(h, w)
                                 \/ \E n \in 1 .. Attempt(h) : HeartbeatHandoff(h, w, n)
    PROVE  LanesInv' /\ UNCHANGED lane
<1>1. /\ LanesTypeOK /\ handoff \in [Handoffs -> HandoffRows] /\ handoff[h] \in HandoffRows
      /\ handoff[h].by \in Seq(Workers) /\ handoff[h].lease \in 0 .. WorkLease
      /\ 0 \in 0 .. WorkLease /\ WorkLease \in 0 .. WorkLease
      /\ PlansStale(plan)
  BY OutdatedIsStale, LanesAssumption DEF LanesInv, LanesTypeOK, HandoffRows
<1>2. CASE Dispatch(h)
  <2>1. handoff' = [handoff EXCEPT ![h] =
                        Become(h, "queued", handoff[h].by, handoff[h].lease)]
    BY <1>1, <1>2 DEF Dispatch, Become, HandoffRows
  <2>2. handoff[h].status = "draft" /\ UNCHANGED <<lane, placed, open, readOnly, touches>>
        /\ PlansStale(plan')
    BY <1>1, <1>2, SavedIsStale DEF Dispatch
  <2>3. Moves(h, Become(h, "queued", handoff[h].by, handoff[h].lease))
    BY <1>1, <2>1, <2>2, BecomeMoves
  <2> QED BY <1>1, <2>2, <2>3, OneHandoffMoves, HandoffStep
<1>3. CASE CancelHandoff(h)
  <2>1. handoff' = [handoff EXCEPT ![h] = Become(h, "cancelled", handoff[h].by, 0)]
    BY <1>1, <1>3 DEF CancelHandoff, Become, HandoffRows
  <2>2. handoff[h].status \notin {"none", "completed"} /\ PlansStale(plan')
        /\ UNCHANGED <<lane, placed, open, readOnly, touches>>
    BY <1>1, <1>3, SavedIsStale DEF CancelHandoff
  <2>3. Moves(h, Become(h, "cancelled", handoff[h].by, 0))
    BY <1>1, <2>1, <2>2, BecomeMoves
  <2> QED BY <1>1, <2>2, <2>3, OneHandoffMoves, HandoffStep
<1>4. ASSUME NEW w \in Workers, ClaimHandoff(h, w)
      PROVE  LanesInv' /\ UNCHANGED lane
  <2>1. Append(handoff[h].by, w) \in Seq(Workers)
    BY <1>1
  <2>2. handoff' = [handoff EXCEPT ![h] =
                        Become(h, "running", Append(handoff[h].by, w), WorkLease)]
    BY <1>1, <1>4 DEF ClaimHandoff, Become
  <2>3. handoff[h].status \notin {"none", "completed"} /\ PlansStale(plan')
        /\ UNCHANGED <<lane, placed, open, readOnly, touches>>
    BY <1>1, <1>4, SavedIsStale DEF ClaimHandoff, Available
  <2>4. Moves(h, Become(h, "running", Append(handoff[h].by, w), WorkLease))
    BY <1>1, <2>1, <2>2, <2>3, BecomeMoves
  <2> QED BY <1>1, <2>3, <2>4, OneHandoffMoves, HandoffStep
<1>5. ASSUME NEW w \in Workers, NEW n \in 1 .. Attempt(h), HeartbeatHandoff(h, w, n)
      PROVE  LanesInv' /\ UNCHANGED lane
  <2>1. handoff' = [handoff EXCEPT ![h] = Become(h, "running", handoff[h].by, WorkLease)]
        /\ handoff[h].status = "running"
        /\ UNCHANGED <<lane, placed, open, plan, readOnly, touches>>
    BY <1>1, <1>5 DEF HeartbeatHandoff, Current, Become, HandoffRows
  <2>2. Moves(h, Become(h, "running", handoff[h].by, WorkLease))
    BY <1>1, <2>1, BecomeMoves
  <2> QED BY <1>1, <2>1, <2>2, OneHandoffMoves, HandoffStep
<1> QED BY <1>2, <1>3, <1>4, <1>5

LEMMA LeasesStep ==
    ASSUME LanesInv, LeasesRun
    PROVE  LanesInv'
<1>1. handoff \in [Handoffs -> HandoffRows] /\ LanesTypeOK
      /\ UNCHANGED <<lane, placed, open, plan, readOnly, touches>>
  BY DEF LanesInv, LanesTypeOK, LeasesRun
<1>2. ASSUME NEW h \in Handoffs
      PROVE  /\ handoff'[h] \in HandoffRows
             /\ handoff'[h].lane = handoff[h].lane /\ handoff'[h].kind = handoff[h].kind
             /\ handoff'[h].of = handoff[h].of /\ handoff'[h].target = handoff[h].target
             /\ handoff'[h].status = handoff[h].status
             /\ handoff'[h].revision = handoff[h].revision
  <2>1. handoff[h] \in HandoffRows /\ handoff[h].lease \in 0 .. WorkLease
    BY <1>1 DEF HandoffRows
  <2> DEFINE n == IF handoff[h].lease > 0 THEN handoff[h].lease - 1 ELSE 0
  <2>2. n \in 0 .. WorkLease
    BY <2>1, LanesAssumption
  <2>3. handoff'[h] = [handoff[h] EXCEPT !.lease = n]
    BY DEF LeasesRun
  <2> HIDE DEF n
  <2> QED BY <2>1, <2>2, <2>3 DEF HandoffRows
<1>3. handoff' = [h \in Handoffs |-> handoff'[h]]
  BY DEF LeasesRun
<1>4. HandoffsMove(handoff')
  BY <1>2, <1>3 DEF HandoffsMove
<1> QED BY <1>1, <1>4, HandoffStep, OutdatedIsStale

\* The result of the last attempt; the lane may change with it, and if it does
\* while it is in use, no snapshot is current any more.
LEMMA ResultStep ==
    ASSUME LanesInv, NEW h \in Handoffs, NEW w \in Workers, NEW n \in 1 .. Attempt(h),
           Result(h, w, n)
    PROVE  LanesInv'
<1> DEFINE l == handoff[h].lane
<1>1. /\ LanesTypeOK /\ handoff \in [Handoffs -> HandoffRows] /\ handoff[h] \in HandoffRows
      /\ lane \in [Lanes -> LaneRows] /\ l \in Lanes /\ lane[l].status # "none"
      /\ handoff[h].status = "running" /\ 0 \in 0 .. WorkLease
      /\ UNCHANGED <<placed, open, readOnly, touches>>
  BY LanesAssumption
     DEF LanesInv, LanesTypeOK, HandoffRows, Result, Current, HandoffsAreOfLanes
<1>2. PICK status \in {"completed", "failed"}, r \in Work \cup {NoWork}, x \in Texts :
        /\ handoff' = [handoff EXCEPT ![h].status = status, ![h].revision = r, ![h].lease = 0]
        /\ lane' = IF status = "completed" /\ Applies(h)
                   THEN [lane EXCEPT ![l].text = x] ELSE lane
  BY DEF Result
<1> DEFINE row == [handoff[h] EXCEPT !.status = status, !.revision = r, !.lease = 0]
<1>3. Moves(h, row)
  BY <1>1, <1>2 DEF Moves, HandoffRows
<1>4. HandoffsMove(handoff')
  BY <1>1, <1>3, OneHandoffMoves
<1>5. /\ lane' \in [Lanes -> LaneRows] /\ lane'[l].status = lane[l].status
      /\ \A k \in Lanes : k # l => lane'[k] = lane[k]
  BY <1>1, <1>2 DEF LaneRows
<1>6. PlansStale(plan') /\ (l \in InUse(lane) => \A p \in Plans : ~plan'[p].fresh)
  BY <1>1, SavedIsStale DEF Result
<1> HIDE DEF row, l
<1>7. LanesTypeOK'
  BY <1>1, <1>4, <1>5, <1>6 DEF LanesTypeOK, PlansStale, HandoffsMove
<1>8. HandoffsAreOfLanes'
  <2>1. \A k \in Lanes : lane'[k].status = lane[k].status
    BY <1>1, <1>5
  <2>2. \A g \in Handoffs : /\ handoff'[g].lane = handoff[g].lane /\ handoff[g].lane \in Lanes
                            /\ handoff'[g].status = "none" <=> handoff[g].status = "none"
    BY <1>1, <1>4 DEF HandoffsMove, HandoffRows
  <2> QED BY <2>1, <2>2 DEF LanesInv, HandoffsAreOfLanes
<1>9. FreshPlansAreTrue' /\ GroupsAreShown'
  <2>1. l \notin InUse(lane) => lane[l].status = "archived"
    BY <1>1 DEF InUse, LaneRows
  <2>2. \A p \in Plans, k \in Lanes :
            plan'[p].fresh /\ k \in plan[p].lanes => lane'[k] = lane[k]
    BY <1>5, <1>6, <2>1 DEF LanesInv, FreshPlansAreTrue, PlansStale
  <2> QED BY <1>6, <2>2, LanesMayChange
<1>10. ReviewsSeeFinalWork'
  BY <1>1, <1>4, ReviewsStay DEF LanesInv
<1> QED BY <1>7, <1>8, <1>9, <1>10 DEF LanesInv

-----------------------------------------------------------------------------
(* Proposals. *)

LEMMA RequestStep ==
    ASSUME LanesInv, NEW p \in Plans, PlanRequest(p)
    PROVE  LanesInv'
<1> DEFINE row == [NoPlan EXCEPT !.status = "asked", !.fresh = TRUE, !.pending = Pending,
                       !.saw = [l \in Lanes |-> lane[l].text],
                       !.lanes = {l \in Lanes : lane[l].status # "archived"}]
<1>1. /\ lane \in [Lanes -> LaneRows] /\ plan \in [Plans -> PlanRows] /\ open \subseteq Tickets
      /\ plan' = [plan EXCEPT ![p] = row]
      /\ UNCHANGED <<lane, placed, open, handoff, readOnly, touches>>
  BY DEF LanesInv, LanesTypeOK, PlanRequest
<1>2. /\ row \in PlanRows /\ row.lanes = {l \in Lanes : lane[l].status # "archived"}
      /\ row.saw = [l \in Lanes |-> lane[l].text]
      /\ row.groups = [l \in Lanes |-> {}]
  <2>1. Outset \in Texts
    BY LanesAssumption DEF Outset
  <2>2. /\ [l \in Lanes |-> lane[l].text] \in [Lanes -> Texts]
        /\ [l \in Lanes |-> Outset] \in [Lanes -> Texts]
        /\ [l \in Lanes |-> {}] \in [Lanes -> SUBSET Tickets]
        /\ {l \in Lanes : lane[l].status # "archived"} \in SUBSET Lanes
        /\ Pending \in SUBSET Tickets
    BY <1>1, <2>1 DEF LaneRows, Pending
  <2>3. NoPlan \in PlanRows /\ NoPlan.groups = [l \in Lanes |-> {}]
    BY <2>2 DEF NoPlan, PlanRows
  <2> QED BY <2>2, <2>3 DEF PlanRows
<1> HIDE DEF row
<1>3. plan' \in [Plans -> PlanRows] /\ plan'[p] = row
      /\ \A q \in Plans : q # p => plan'[q] = plan[q]
  BY <1>1, <1>2
<1>4. LanesTypeOK'
  BY <1>1, <1>3 DEF LanesInv, LanesTypeOK
<1>5. FreshPlansAreTrue' /\ GroupsAreShown'
  BY <1>1, <1>2, <1>3 DEF LanesInv, FreshPlansAreTrue, GroupsAreShown
<1>6. HandoffsAreOfLanes' /\ ReviewsSeeFinalWork'
  BY <1>1 DEF LanesInv, HandoffsAreOfLanes, ReviewsSeeFinalWork
<1> QED BY <1>4, <1>5, <1>6 DEF LanesInv

LEMMA ProposalStep ==
    ASSUME LanesInv, NEW p \in Plans, PlanResult(p)
    PROVE  LanesInv'
<1>1. /\ plan \in [Plans -> PlanRows] /\ plan[p] \in PlanRows
      /\ UNCHANGED <<lane, placed, open, handoff, readOnly, touches>>
  BY DEF LanesInv, LanesTypeOK, PlanResult
<1>2. PICK row \in PlanRows :
        /\ plan' = [plan EXCEPT ![p] = row]
        /\ row.lanes = plan[p].lanes /\ row.saw = plan[p].saw
        /\ row.fresh => plan[p].fresh
        /\ \A l \in Lanes : row.groups[l] # {} => l \in plan[p].lanes
  <2>1. CASE plan' = [plan EXCEPT ![p].status = "failed", ![p].fresh = FALSE]
    <3> DEFINE row == [plan[p] EXCEPT !.status = "failed", !.fresh = FALSE]
    <3>1. row \in PlanRows /\ plan' = [plan EXCEPT ![p] = row]
          /\ row.lanes = plan[p].lanes /\ row.saw = plan[p].saw
          /\ row.groups = plan[p].groups /\ ~row.fresh
      BY <1>1, <2>1 DEF PlanRows
    <3> HIDE DEF row
    <3> QED BY <3>1 DEF LanesInv, GroupsAreShown
  <2>2. ASSUME NEW home \in [plan[p].pending -> {{}} \cup {{l} : l \in plan[p].lanes}],
               plan' = [plan EXCEPT ![p].status = "proposed",
                        ![p].groups = [l \in Lanes |-> {t \in DOMAIN home : l \in home[t]}]]
        PROVE  \E row \in PlanRows :
                    /\ plan' = [plan EXCEPT ![p] = row]
                    /\ row.lanes = plan[p].lanes /\ row.saw = plan[p].saw
                    /\ row.fresh => plan[p].fresh
                    /\ \A l \in Lanes : row.groups[l] # {} => l \in plan[p].lanes
    <3> DEFINE groups == [l \in Lanes |-> {t \in DOMAIN home : l \in home[t]}]
               row == [plan[p] EXCEPT !.status = "proposed", !.groups = groups]
    <3>1. plan[p].pending \subseteq Tickets
      BY <1>1 DEF PlanRows
    <3>2. groups \in [Lanes -> SUBSET Tickets]
      BY <3>1
    <3>3. \A l \in Lanes : groups[l] # {} => l \in plan[p].lanes
      <4> SUFFICES ASSUME NEW l \in Lanes, NEW t \in DOMAIN home, l \in home[t]
                   PROVE  l \in plan[p].lanes
        OBVIOUS
      <4> QED OBVIOUS
    <3> HIDE DEF groups
    <3>4. row \in PlanRows /\ row.lanes = plan[p].lanes /\ row.saw = plan[p].saw
          /\ row.groups = groups /\ row.fresh = plan[p].fresh
      BY <1>1, <3>2 DEF PlanRows
    <3>5. plan' = [plan EXCEPT ![p] = row]
      BY <1>1, <2>2 DEF groups
    <3> HIDE DEF row
    <3> QED BY <3>3, <3>4, <3>5
  <2> QED BY <2>1, <2>2 DEF PlanResult
<1>3. plan' \in [Plans -> PlanRows] /\ plan'[p] = row
      /\ \A q \in Plans : q # p => plan'[q] = plan[q]
  BY <1>1, <1>2
<1>4. LanesTypeOK'
  BY <1>1, <1>3 DEF LanesInv, LanesTypeOK
<1>5. FreshPlansAreTrue' /\ GroupsAreShown'
  BY <1>1, <1>2, <1>3 DEF LanesInv, FreshPlansAreTrue, GroupsAreShown
<1>6. HandoffsAreOfLanes' /\ ReviewsSeeFinalWork'
  BY <1>1 DEF LanesInv, HandoffsAreOfLanes, ReviewsSeeFinalWork
<1> QED BY <1>4, <1>5, <1>6 DEF LanesInv

\* Accepting a proposal outdates every snapshot, if it changes a lane at all.
LEMMA AcceptStep ==
    ASSUME LanesInv, NEW p \in Plans, PlanAccept(p)
    PROVE  LanesInv'
<1> DEFINE used == {l \in Lanes : plan[p].groups[l] # {}}
           stale == IF used = {} THEN plan ELSE Outdated(plan)
<1>1. /\ plan \in [Plans -> PlanRows] /\ lane \in [Lanes -> LaneRows] /\ LanesTypeOK
      /\ placed \in [Lanes -> SUBSET Tickets] /\ plan[p].groups \in [Lanes -> SUBSET Tickets]
      /\ UNCHANGED <<open, handoff, readOnly, touches>>
  BY DEF LanesInv, LanesTypeOK, PlanRows, PlanAccept
<1>2. PICK texts \in [used -> Texts] :
        lane' = [l \in Lanes |-> IF l \in used THEN [status |-> "active", text |-> texts[l]]
                                 ELSE lane[l]]
  BY DEF PlanAccept
<1>3. /\ lane' \in [Lanes -> LaneRows]
      /\ \A l \in Lanes : lane[l].status # "none" => lane'[l].status # "none"
      /\ \A l \in Lanes : l \notin used => lane'[l] = lane[l]
  BY <1>1, <1>2 DEF LaneRows
<1>4. plan' = [stale EXCEPT ![p].status = "accepted", ![p].fresh = FALSE]
  BY DEF PlanAccept
<1>5. PlansStale(stale) /\ (used # {} => \A q \in Plans : ~stale[q].fresh)
  BY <1>1, OutdatedIsStale
<1>6. placed' \in [Lanes -> SUBSET Tickets]
  BY <1>1 DEF PlanAccept
<1> HIDE DEF stale
<1>7. /\ plan' \in [Plans -> PlanRows]
      /\ \A q \in Plans : /\ plan'[q].lanes = plan[q].lanes /\ plan'[q].saw = plan[q].saw
                          /\ plan'[q].groups = plan[q].groups
                          /\ plan'[q].fresh => plan[q].fresh /\ used = {}
  <2>1. stale \in [Plans -> PlanRows] /\ stale[p] \in PlanRows
    BY <1>5 DEF PlansStale
  <2> DEFINE row == [stale[p] EXCEPT !.status = "accepted", !.fresh = FALSE]
  <2>2. plan' = [stale EXCEPT ![p] = row]
    BY <1>4, <2>1
  <2>3. row \in PlanRows /\ ~row.fresh /\ row.lanes = stale[p].lanes
        /\ row.saw = stale[p].saw /\ row.groups = stale[p].groups
    BY <2>1 DEF PlanRows
  <2> HIDE DEF row, used
  <2>4. plan' \in [Plans -> PlanRows] /\ plan'[p] = row
        /\ \A q \in Plans : q # p => plan'[q] = stale[q]
    BY <2>1, <2>2, <2>3
  <2> QED BY <1>5, <2>3, <2>4 DEF PlansStale
<1>8. LanesTypeOK'
  BY <1>1, <1>3, <1>6, <1>7 DEF LanesTypeOK
<1>9. HandoffsAreOfLanes' /\ ReviewsSeeFinalWork'
  BY <1>1, <1>3
     DEF LanesInv, HandoffsAreOfLanes, ReviewsSeeFinalWork, LanesTypeOK, HandoffRows
<1>10. FreshPlansAreTrue' /\ GroupsAreShown'
  <2>1. \A q \in Plans : plan[q].lanes \subseteq Lanes
    BY <1>1 DEF PlanRows
  <2> HIDE DEF used
  <2> QED BY <1>3, <1>7, <2>1 DEF LanesInv, FreshPlansAreTrue, GroupsAreShown
<1> QED BY <1>8, <1>9, <1>10 DEF LanesInv

-----------------------------------------------------------------------------
(* The invariant. *)

LEMMA LanesInitGood == LanesInit => LanesInv
<1> SUFFICES ASSUME LanesInit
             PROVE  LanesInv
  OBVIOUS
<1>1. Outset \in Texts /\ (CHOOSE l \in Lanes : TRUE) \in Lanes /\ 0 \in 0 .. WorkLease
  BY LanesAssumption DEF Outset
<1>2. NoLane \in LaneRows
  BY <1>1 DEF NoLane, LaneRows
<1>3. NoPlan \in PlanRows /\ ~NoPlan.fresh /\ NoPlan.groups = [l \in Lanes |-> {}]
  BY <1>1 DEF NoPlan, PlanRows
<1>4. \A l \in Lanes : /\ NoHandoff(l) \in HandoffRows /\ NoHandoff(l).status = "none"
                       /\ NoHandoff(l).of = {} /\ NoHandoff(l).by = <<>>
  BY <1>1 DEF NoHandoff, HandoffRows
<1>5. handoff = [h \in Handoffs |-> NoHandoff(CHOOSE l \in Lanes : TRUE)]
  BY DEF LanesInit
<1>6. handoff \in [Handoffs -> HandoffRows]
      /\ \A h \in Handoffs : handoff[h].status = "none" /\ handoff[h].of = {}
  BY <1>1, <1>4, <1>5
<1>7. LanesTypeOK
  BY <1>2, <1>3, <1>6 DEF LanesInit, LanesTypeOK
<1>8. HandoffsAreOfLanes /\ ReviewsSeeFinalWork
  BY <1>6 DEF HandoffsAreOfLanes, ReviewsSeeFinalWork
<1>9. FreshPlansAreTrue /\ GroupsAreShown
  BY <1>3 DEF LanesInit, FreshPlansAreTrue, GroupsAreShown
<1> QED BY <1>7, <1>8, <1>9 DEF LanesInv

LEMMA LanesStep == LanesInv /\ [LanesNext]_laneVars => LanesInv'
<1> SUFFICES ASSUME LanesInv, [LanesNext]_laneVars
             PROVE  LanesInv'
  OBVIOUS
<1>1. ASSUME NEW l \in Lanes, NEW x \in Texts, LaneCreate(l, x)
      PROVE  LanesInv'
  BY <1>1, CreateStep
<1>2. ASSUME NEW l \in Lanes, LanePatch(l) \/ HandoffCreate(l)
      PROVE  LanesInv'
  BY <1>2, PatchStep, HandoffCreateStep
<1>3. ASSUME NEW h \in Handoffs,
             \/ Dispatch(h) \/ CancelHandoff(h)
             \/ \E w \in Workers : \/ ClaimHandoff(h, w)
                                   \/ \E n \in 1 .. Attempt(h) : HeartbeatHandoff(h, w, n)
      PROVE  LanesInv'
  BY <1>3, HandoffMoveStep
<1>4. ASSUME NEW h \in Handoffs, NEW w \in Workers, NEW n \in 1 .. Attempt(h), Result(h, w, n)
      PROVE  LanesInv'
  BY <1>4, ResultStep
<1>5. CASE LeasesRun
  BY <1>5, LeasesStep
<1>6. ASSUME NEW p \in Plans, PlanRequest(p) \/ PlanResult(p) \/ PlanAccept(p)
      PROVE  LanesInv'
  BY <1>6, RequestStep, ProposalStep, AcceptStep
<1>7. CASE \/ \E l \in Lanes, t \in Tickets : LaneTicket(l, t)
           \/ ChangeElsewhere \/ SetReadOnly \/ UNCHANGED laneVars
  BY <1>7, EditStep
<1> QED BY <1>1, <1>2, <1>3, <1>4, <1>5, <1>6, <1>7 DEF LanesNext

\* The invariant holds.
THEOREM LanesInvariant == LanesSpec => []LanesInv
<1> QED BY LanesInitGood, LanesStep, PTL DEF LanesSpec

\* Every variable keeps to its type (work_lanes.rs and lane_organizer.rs).
THEOREM LanesTyped == LanesSpec => []LanesTypeOK
<1>1. LanesInv => LanesTypeOK
  BY DEF LanesInv
<1> QED BY <1>1, LanesInvariant, PTL

\* A review looks at final work (work_handoff_create and the claims, results and
\* cancellations after it).
THEOREM ReviewsSeeFinalWorkHolds == LanesSpec => []ReviewsSeeFinalWork
<1>1. LanesInv => ReviewsSeeFinalWork
  BY DEF LanesInv
<1> QED BY <1>1, LanesInvariant, PTL

-----------------------------------------------------------------------------
(* Edits an agent did not see. *)

LEMMA StepSees ==
    ASSUME LanesInv, LanesNext, NEW l \in Lanes
    PROVE  SeesWhatItReplaces(l)
<1>1. ASSUME UNCHANGED lane
      PROVE  SeesWhatItReplaces(l)
  BY <1>1 DEF SeesWhatItReplaces
<1>2. ASSUME UNCHANGED handoff, PlansStale(plan')
      PROVE  SeesWhatItReplaces(l)
  BY <1>2 DEF SeesWhatItReplaces, PlansStale
<1>3. LanesTypeOK /\ lane \in [Lanes -> LaneRows] /\ handoff \in [Handoffs -> HandoffRows]
      /\ plan \in [Plans -> PlanRows]
  BY DEF LanesInv, LanesTypeOK
<1>4. ASSUME NEW k \in Lanes, NEW x \in Texts, LaneCreate(k, x)
      PROVE  SeesWhatItReplaces(l)
  BY <1>2, <1>3, <1>4, SavedIsStale DEF LaneCreate
<1>5. ASSUME NEW k \in Lanes, LanePatch(k)
      PROVE  SeesWhatItReplaces(l)
  BY <1>2, <1>3, <1>5, SavedIsStale DEF LanePatch
<1>6. ASSUME NEW h \in Handoffs, NEW w \in Workers, NEW n \in 1 .. Attempt(h), Result(h, w, n)
      PROVE  SeesWhatItReplaces(l)
  <2>1. PlansStale(plan')
    BY <1>3, <1>6, SavedIsStale DEF Result
  <2>2. \A g \in Handoffs : g # h => handoff'[g] = handoff[g]
    BY <1>3, <1>6 DEF Result
  <2>3. lane'[l] # lane[l] => l = handoff[h].lane /\ lane[l].text = handoff[h].saw
    BY <1>3, <1>6 DEF Result, Applies
  <2> QED BY <2>1, <2>2, <2>3 DEF SeesWhatItReplaces, PlansStale
<1>7. ASSUME NEW p \in Plans, PlanAccept(p)
      PROVE  SeesWhatItReplaces(l)
  <2>1. UNCHANGED handoff /\ plan[p].fresh
    BY <1>7 DEF PlanAccept, Acceptable
  <2>2. lane'[l] # lane[l] => l \in plan[p].lanes
    BY <1>7 DEF PlanAccept, LanesInv, GroupsAreShown
  <2>3. \A q \in Plans : q # p => plan'[q].status = plan[q].status
    <3>1. Outdated(plan) \in [Plans -> PlanRows]
          /\ \A q \in Plans : Outdated(plan)[q].status = plan[q].status
      BY <1>3, OutdatedIsStale DEF PlansStale
    <3> QED BY <1>3, <1>7, <3>1 DEF PlanAccept
  <2>4. lane'[l] # lane[l] => lane[l].text = plan[p].saw[l]
    BY <2>1, <2>2 DEF LanesInv, FreshPlansAreTrue
  <2> QED BY <2>1, <2>3, <2>4 DEF SeesWhatItReplaces
<1>8. ASSUME NEW h \in Handoffs,
             \/ Dispatch(h) \/ CancelHandoff(h)
             \/ \E w \in Workers : \/ ClaimHandoff(h, w)
                                   \/ \E n \in 1 .. Attempt(h) : HeartbeatHandoff(h, w, n)
      PROVE  SeesWhatItReplaces(l)
  BY <1>1, <1>8 DEF Dispatch, CancelHandoff, ClaimHandoff, HeartbeatHandoff
<1>9. ASSUME \/ \E k \in Lanes, t \in Tickets : LaneTicket(k, t)
             \/ \E k \in Lanes : HandoffCreate(k)
             \/ ChangeElsewhere \/ SetReadOnly \/ LeasesRun
             \/ \E p \in Plans : PlanRequest(p) \/ PlanResult(p)
      PROVE  UNCHANGED lane
  BY <1>9 DEF LaneTicket, HandoffCreate, ChangeElsewhere, SetReadOnly, LeasesRun,
              PlanRequest, PlanResult
<1> QED BY <1>1, <1>4, <1>5, <1>6, <1>7, <1>8, <1>9 DEF LanesNext

\* Neither a preparation's result nor an accepted proposal writes over what its
\* agent was not shown (work_handoff_result and lane_organizer_accept).
THEOREM UnseenEditsSurviveHolds == LanesSpec => UnseenEditsSurvive
<1>1. LanesInv /\ [LanesNext]_laneVars => [\A l \in Lanes : SeesWhatItReplaces(l)]_laneVars
  BY StepSees
<1> QED BY <1>1, LanesInvariant, PTL DEF LanesSpec, UnseenEditsSurvive

-----------------------------------------------------------------------------
(* Attempts are fenced. *)

\* A handoff that was not created was not claimed.
Unclaimed == \A h \in Handoffs : handoff[h].status = "none" => handoff[h].by = <<>>

\* What the actions on one handoff do to the others, and to itself.
LEMMA OthersStay ==
    ASSUME LanesTypeOK, NEW g \in Handoffs,
           \/ Dispatch(g) \/ CancelHandoff(g)
           \/ \E w \in Workers : \/ ClaimHandoff(g, w)
                                 \/ \E n \in 1 .. Attempt(g) : HeartbeatHandoff(g, w, n)
                                                               \/ Result(g, w, n)
    PROVE  /\ \A h \in Handoffs : h # g => handoff'[h] = handoff[h]
           /\ handoff'[g].status # "none"
<1>1. handoff \in [Handoffs -> HandoffRows] /\ handoff[g] \in HandoffRows
  BY DEF LanesTypeOK
<1>2. CASE Dispatch(g) \/ CancelHandoff(g)
  BY <1>1, <1>2 DEF Dispatch, CancelHandoff, HandoffRows
<1>3. ASSUME NEW w \in Workers, ClaimHandoff(g, w)
      PROVE  /\ \A h \in Handoffs : h # g => handoff'[h] = handoff[h]
             /\ handoff'[g].status # "none"
  BY <1>1, <1>3 DEF ClaimHandoff, HandoffRows
<1>4. ASSUME NEW w \in Workers, NEW n \in 1 .. Attempt(g), HeartbeatHandoff(g, w, n)
      PROVE  /\ \A h \in Handoffs : h # g => handoff'[h] = handoff[h]
             /\ handoff'[g].status # "none"
  BY <1>1, <1>4 DEF HeartbeatHandoff, Current, HandoffRows
<1>5. ASSUME NEW w \in Workers, NEW n \in 1 .. Attempt(g), Result(g, w, n)
      PROVE  /\ \A h \in Handoffs : h # g => handoff'[h] = handoff[h]
             /\ handoff'[g].status # "none"
  <2>1. PICK status \in {"completed", "failed"}, r \in Work \cup {NoWork} :
          handoff' = [handoff EXCEPT ![g].status = status, ![g].revision = r, ![g].lease = 0]
    BY <1>5 DEF Result
  <2> QED BY <1>1, <2>1 DEF HandoffRows
<1> QED BY <1>2, <1>3, <1>4, <1>5

LEMMA StepCreates ==
    ASSUME NEW l \in Lanes, HandoffCreate(l), LanesTypeOK
    PROVE  \E g \in Handoffs :
              /\ handoff[g].status = "none"
              /\ handoff'[g].status = "draft" /\ handoff'[g].by = <<>>
              /\ \A h \in Handoffs : h # g => handoff'[h] = handoff[h]
<1> DEFINE g == CHOOSE i \in {k \in Handoffs : handoff[k].status = "none"} : TRUE
<1>1. g \in Handoffs /\ handoff[g].status = "none"
  BY DEF HandoffCreate
<1>2. handoff \in [Handoffs -> HandoffRows]
  BY DEF LanesTypeOK
<1>3. \A h \in Handoffs : h # g => handoff'[h] = handoff[h]
  BY <1>2 DEF HandoffCreate
<1>4. handoff'[g].status = "draft" /\ handoff'[g].by = <<>>
  BY <1>1, <1>2 DEF HandoffCreate, NoHandoff
<1> HIDE DEF g
<1> QED BY <1>1, <1>3, <1>4

\* The steps as handoffs see them.
LEMMA HandoffSteps ==
    ASSUME LanesNext
    PROVE  \/ \E l \in Lanes : HandoffCreate(l)
           \/ LeasesRun
           \/ \E g \in Handoffs :
                \/ Dispatch(g) \/ CancelHandoff(g)
                \/ \E w \in Workers : \/ ClaimHandoff(g, w)
                                      \/ \E n \in 1 .. Attempt(g) : HeartbeatHandoff(g, w, n)
                                                                    \/ Result(g, w, n)
           \/ UNCHANGED handoff
BY DEF LanesNext, LaneCreate, LanePatch, LaneTicket, ChangeElsewhere, SetReadOnly,
       PlanRequest, PlanResult, PlanAccept

LEMMA UnclaimedInit == LanesInit => Unclaimed
BY DEF LanesInit, Unclaimed, NoHandoff

LEMMA UnclaimedStep == LanesInv /\ Unclaimed /\ [LanesNext]_laneVars => Unclaimed'
<1> SUFFICES ASSUME LanesInv, Unclaimed, [LanesNext]_laneVars, NEW h \in Handoffs,
                    handoff'[h].status = "none"
             PROVE  handoff'[h].by = <<>>
  BY DEF Unclaimed
<1>1. LanesTypeOK /\ handoff \in [Handoffs -> HandoffRows] /\ handoff[h] \in HandoffRows
  BY DEF LanesInv, LanesTypeOK
<1>2. ASSUME NEW l \in Lanes, HandoffCreate(l)
      PROVE  handoff'[h].by = <<>>
  BY <1>1, <1>2, StepCreates DEF Unclaimed
<1>3. CASE LeasesRun
  <2>1. handoff'[h].by = handoff[h].by /\ handoff'[h].status = handoff[h].status
    BY <1>1, <1>3 DEF LeasesRun, HandoffRows
  <2> QED BY <2>1 DEF Unclaimed
<1>4. ASSUME NEW g \in Handoffs,
             \/ Dispatch(g) \/ CancelHandoff(g)
             \/ \E w \in Workers : \/ ClaimHandoff(g, w)
                                   \/ \E n \in 1 .. Attempt(g) : HeartbeatHandoff(g, w, n)
                                                                 \/ Result(g, w, n)
      PROVE  handoff'[h].by = <<>>
  BY <1>1, <1>4, OthersStay DEF Unclaimed
<1>5. CASE UNCHANGED handoff
  BY <1>5 DEF Unclaimed
<1> QED BY <1>2, <1>3, <1>4, <1>5, HandoffSteps DEF laneVars

LEMMA LeaseInit == LanesInit => HandoffLease!Init
<1> SUFFICES ASSUME LanesInit
             PROVE  HandoffLease!Init
  OBVIOUS
<1>1. \A h \in Handoffs : handoff[h].status = "none" /\ handoff[h].by = <<>>
  BY DEF LanesInit, NoHandoff
<1> QED BY <1>1 DEF HandoffLease!Init

\* A handoff whose row keeps what a lease is made of.
SameLease(h) ==
    /\ handoff'[h].status = "running" <=> handoff[h].status = "running"
    /\ handoff'[h].by = handoff[h].by
    /\ handoff'[h].lease > 0 <=> handoff[h].lease > 0

LEMMA SameLeaseStays ==
    ASSUME NEW h \in Handoffs, SameLease(h)
    PROVE  HandoffLease!Stay(h)
BY DEF SameLease, HandoffLease!Stay, HandoffLease!Keep

LEMMA StoppedRunDrops ==
    ASSUME NEW h \in Handoffs, handoff[h].status = "running",
           handoff'[h].status # "running", handoff'[h].by = handoff[h].by
    PROVE  HandoffLease!Drop(h)
BY DEF HandoffLease!Drop, HandoffLease!Free, HandoffLease!Keep

LEMMA LeaseStep ==
    ASSUME LanesInv, Unclaimed, LanesNext, NEW h \in Handoffs
    PROVE  \/ HandoffLease!Acquire(h) \/ HandoffLease!Lapse(h) \/ HandoffLease!Drop(h)
           \/ HandoffLease!Stay(h)
<1>1. /\ LanesTypeOK
      /\ handoff \in [Handoffs -> HandoffRows] /\ handoff[h] \in HandoffRows
      /\ handoff[h].by \in Seq(Workers) /\ handoff[h].lease \in 0 .. WorkLease
      /\ WorkLease > 0
  BY LanesAssumption DEF LanesInv, LanesTypeOK, HandoffRows
<1>2. ASSUME handoff'[h] = handoff[h]
      PROVE  HandoffLease!Stay(h)
  BY <1>2, SameLeaseStays DEF SameLease
<1>3. ASSUME NEW l \in Lanes, HandoffCreate(l)
      PROVE  HandoffLease!Stay(h)
  <2>1. PICK g \in Handoffs :
              /\ handoff[g].status = "none"
              /\ handoff'[g].status = "draft" /\ handoff'[g].by = <<>>
              /\ \A k \in Handoffs : k # g => handoff'[k] = handoff[k]
    BY <1>1, <1>3, StepCreates
  <2>2. CASE h = g
    BY <2>1, <2>2 DEF Unclaimed, HandoffLease!Stay, HandoffLease!Keep
  <2> QED BY <1>2, <2>1, <2>2
<1>4. CASE Dispatch(h)
  <2>1. SameLease(h)
    BY <1>1, <1>4 DEF Dispatch, SameLease, HandoffRows
  <2> QED BY <2>1, SameLeaseStays
<1>5. CASE CancelHandoff(h)
  <2>1. handoff'[h].status = "cancelled" /\ handoff'[h].by = handoff[h].by
    BY <1>1, <1>5 DEF CancelHandoff, HandoffRows
  <2>2. CASE handoff[h].status = "running"
    BY <2>1, <2>2, StoppedRunDrops
  <2>3. CASE handoff[h].status # "running"
    BY <2>1, <2>3 DEF HandoffLease!Stay, HandoffLease!Keep
  <2> QED BY <2>2, <2>3
<1>6. ASSUME NEW w \in Workers, ClaimHandoff(h, w)
      PROVE  HandoffLease!Acquire(h)
  <2>1. /\ handoff'[h].status = "running" /\ handoff'[h].by = Append(handoff[h].by, w)
        /\ handoff'[h].lease = WorkLease
    BY <1>1, <1>6 DEF ClaimHandoff, HandoffRows
  <2>2. Len(Append(handoff[h].by, w)) = Len(handoff[h].by) + 1
        /\ Append(handoff[h].by, w)[Len(Append(handoff[h].by, w))] = w
    BY <1>1
  <2>3. handoff[h].status # "running" \/ ~(handoff[h].lease > 0)
    BY <1>1, <1>6 DEF ClaimHandoff, Available
  <2> QED BY <1>1, <2>1, <2>2, <2>3 DEF HandoffLease!Acquire, HandoffLease!Raise
<1>7. ASSUME NEW w \in Workers, NEW n \in 1 .. Attempt(h), HeartbeatHandoff(h, w, n)
      PROVE  HandoffLease!Stay(h)
  <2>1. SameLease(h)
    BY <1>1, <1>7 DEF HeartbeatHandoff, Current, SameLease, HandoffRows
  <2> QED BY <2>1, SameLeaseStays
<1>8. ASSUME NEW w \in Workers, NEW n \in 1 .. Attempt(h), Result(h, w, n)
      PROVE  HandoffLease!Drop(h)
  <2>1. PICK status \in {"completed", "failed"}, r \in Work \cup {NoWork} :
          handoff' = [handoff EXCEPT ![h].status = status, ![h].revision = r, ![h].lease = 0]
    BY <1>8 DEF Result
  <2>2. /\ handoff[h].status = "running" /\ handoff'[h].status # "running"
        /\ handoff'[h].by = handoff[h].by
    BY <1>1, <1>8, <2>1 DEF Result, Current, HandoffRows
  <2> QED BY <2>2, StoppedRunDrops
<1>9. CASE LeasesRun
  <2>1. /\ handoff'[h].status = handoff[h].status /\ handoff'[h].by = handoff[h].by
        /\ handoff'[h].lease = IF handoff[h].lease > 0 THEN handoff[h].lease - 1 ELSE 0
    BY <1>1, <1>9 DEF LeasesRun, HandoffRows
  <2>2. CASE handoff'[h].lease > 0 <=> handoff[h].lease > 0
    BY <2>1, <2>2, SameLeaseStays DEF SameLease
  <2>3. CASE handoff[h].lease > 0 /\ ~(handoff'[h].lease > 0)
    <3>1. CASE handoff[h].status = "running"
      BY <2>1, <2>3, <3>1 DEF HandoffLease!Lapse, HandoffLease!Keep
    <3>2. CASE handoff[h].status # "running"
      BY <2>1, <3>2 DEF HandoffLease!Stay, HandoffLease!Keep
    <3> QED BY <3>1, <3>2
  <2> QED BY <1>1, <2>1, <2>2, <2>3
<1>10. ASSUME NEW g \in Handoffs, g # h,
             \/ Dispatch(g) \/ CancelHandoff(g)
             \/ \E w \in Workers : \/ ClaimHandoff(g, w)
                                   \/ \E n \in 1 .. Attempt(g) : HeartbeatHandoff(g, w, n)
                                                                 \/ Result(g, w, n)
       PROVE  HandoffLease!Stay(h)
  BY <1>1, <1>2, <1>10, OthersStay
<1>11. CASE UNCHANGED handoff
  BY <1>2, <1>11
<1> QED BY <1>3, <1>4, <1>5, <1>6, <1>7, <1>8, <1>9, <1>10, <1>11, HandoffSteps

\* Every handoff implements the fenced lease (claim, heartbeat, result and
\* cancellation compare and raise the attempt).
THEOREM AttemptsAreFencedHolds == LanesSpec => AttemptsAreFenced
<1>1. LanesInv /\ Unclaimed /\ [LanesNext]_laneVars
        => [HandoffLease!Next]_(HandoffLease!lease)
  <2> SUFFICES ASSUME LanesInv, Unclaimed, [LanesNext]_laneVars
               PROVE  [HandoffLease!Next]_(HandoffLease!lease)
    OBVIOUS
  <2>1. CASE LanesNext
    <3>1. HandoffLease!Next
      BY <2>1, LeaseStep DEF HandoffLease!Next
    <3> QED BY <3>1
  <2>2. CASE UNCHANGED laneVars
    BY <2>2 DEF laneVars, HandoffLease!lease
  <2> QED BY <2>1, <2>2
<1> QED BY <1>1, LeaseInit, UnclaimedInit, UnclaimedStep, LanesInvariant, PTL
        DEF LanesSpec, AttemptsAreFenced, HandoffLease!Spec

-----------------------------------------------------------------------------
(* Codes and refresh families.                                             *)
(*                                                                         *)
(* CutStaysCut is not inductive: a cut family must also have no code left  *)
(* to exchange, and a code that can be exchanged must have bought nothing. *)
(* The other two parts of GrantsInv say that a family has one refresh      *)
(* token nobody used or took away, and that a spent code is kept at least  *)
(* as long as the access token it bought.                                  *)

\* A refresh token of the family that was neither traded nor taken away.
Unused(r, k) ==
    InFamily(refresh, r, k) /\ ~refresh[r].rotated /\ ~refresh[r].revoked

\* A code that can be exchanged has bought nothing, and its family is not cut.
FreshIsUnspent ==
    \A k \in Codes : code[k].status = "fresh" =>
        /\ k \notin cut
        /\ \A r \in Refreshes : ~InFamily(refresh, r, k)
        /\ \A a \in Accesses : ~InFamily(access, a, k)

\* All that a cut family has was taken away.
CutIsRevoked ==
    \A k \in cut :
        /\ \A r \in Refreshes : InFamily(refresh, r, k) => refresh[r].revoked
        /\ \A a \in Accesses : InFamily(access, a, k) => access[a].revoked

OneUnused == \A k \in Codes : \A q, r \in Refreshes : Unused(q, k) /\ Unused(r, k) => q = r

\* The row of a spent code outlives the access token it bought.
SpentOutlives ==
    \A a \in Accesses :
        (access[a].status # "none" /\ access[a].first /\ access[a].left > 0) =>
            /\ code[access[a].family].status = "spent"
            /\ code[access[a].family].left >= access[a].left

GrantsInv == GrantsTypeOK /\ FreshIsUnspent /\ CutIsRevoked /\ OneUnused /\ SpentOutlives

-----------------------------------------------------------------------------
LEMMA RowsAreTyped ==
    /\ AnyCode \in Codes /\ NoCode \in CodeRows
    /\ NoRefresh \in RefreshRows /\ NoAccess \in AccessRows
BY GrantsAssumption DEF AnyCode, NoCode, NoRefresh, NoAccess, CodeRows, RefreshRows, AccessRows

LEMMA GrantsInitGood == GrantsInit => GrantsInv
<1> SUFFICES ASSUME GrantsInit PROVE GrantsInv
  OBVIOUS
<1>1. GrantsTypeOK
  BY RowsAreTyped DEF GrantsInit, GrantsTypeOK
<1>2. FreshIsUnspent /\ CutIsRevoked
  BY DEF GrantsInit, FreshIsUnspent, CutIsRevoked, NoCode
<1>3. OneUnused /\ SpentOutlives
  BY DEF GrantsInit, OneUnused, SpentOutlives, Unused, InFamily, NoRefresh, NoAccess
<1> QED BY <1>1, <1>2, <1>3 DEF GrantsInv

-----------------------------------------------------------------------------
(* Cutting a family off. *)

\* A cut takes away what its family has, touches nobody else, and counts.
LEMMA CutKeepsRows ==
    ASSUME GrantsTypeOK, NEW k \in Codes, Cut(k)
    PROVE  /\ refresh' \in [Refreshes -> RefreshRows] /\ access' \in [Accesses -> AccessRows]
           /\ \A r \in Refreshes : /\ refresh'[r].status = refresh[r].status
                                   /\ refresh'[r].family = refresh[r].family
                                   /\ refresh'[r].rotated = refresh[r].rotated
                                   /\ refresh[r].revoked => refresh'[r].revoked
                                   /\ InFamily(refresh, r, k) => refresh'[r].revoked
           /\ \A a \in Accesses : /\ access'[a].status = access[a].status
                                  /\ access'[a].family = access[a].family
                                  /\ access'[a].first = access[a].first
                                  /\ access'[a].left = access[a].left
                                  /\ access[a].revoked => access'[a].revoked
                                  /\ InFamily(access, a, k) => access'[a].revoked
           /\ cut' = cut \cup {k}
<1>1. /\ refresh \in [Refreshes -> RefreshRows] /\ access \in [Accesses -> AccessRows]
  BY DEF GrantsTypeOK
<1>2. /\ refresh' = CutRefreshes(k)
      /\ access' = [a \in Accesses |-> IF InFamily(access, a, k)
                                       THEN [access[a] EXCEPT !.revoked = TRUE] ELSE access[a]]
      /\ cut' = cut \cup {k}
  BY DEF Cut
<1>3. AccessTTL \in Int
  BY GrantsAssumption
<1>4. ASSUME NEW r \in Refreshes
      PROVE  /\ refresh'[r] \in RefreshRows
             /\ refresh'[r].status = refresh[r].status /\ refresh'[r].family = refresh[r].family
             /\ refresh'[r].rotated = refresh[r].rotated
             /\ refresh[r].revoked => refresh'[r].revoked
             /\ InFamily(refresh, r, k) => refresh'[r].revoked
  <2>1. refresh[r] \in RefreshRows
    BY <1>1
  <2>2. refresh'[r] = IF InFamily(refresh, r, k) /\ ~refresh[r].revoked
                      THEN [refresh[r] EXCEPT !.revoked = TRUE,
                              !.keep = IF refresh[r].rotated THEN @ ELSE AccessTTL]
                      ELSE refresh[r]
    BY <1>2 DEF CutRefreshes
  <2> QED BY <1>3, <2>1, <2>2 DEF RefreshRows
<1>5. ASSUME NEW a \in Accesses
      PROVE  /\ access'[a] \in AccessRows
             /\ access'[a].status = access[a].status /\ access'[a].family = access[a].family
             /\ access'[a].first = access[a].first /\ access'[a].left = access[a].left
             /\ access[a].revoked => access'[a].revoked
             /\ InFamily(access, a, k) => access'[a].revoked
  BY <1>1, <1>2 DEF AccessRows
<1>6. refresh' = [r \in Refreshes |-> refresh'[r]] /\ access' = [a \in Accesses |-> access'[a]]
  BY <1>2 DEF CutRefreshes
<1> QED BY <1>2, <1>4, <1>5, <1>6

\* So does the step that cuts it.
LEMMA CutStep ==
    ASSUME GrantsInv, NEW k \in Codes, code[k].status # "fresh", Cut(k),
           UNCHANGED <<withdrawn, barred, checked, by, code>>
    PROVE  GrantsInv'
<1> USE DEF GrantsInv
<1>1. GrantsTypeOK'
  BY CutKeepsRows DEF GrantsTypeOK
<1>2. FreshIsUnspent'
  BY CutKeepsRows DEF FreshIsUnspent, InFamily
<1>3. CutIsRevoked'
  BY CutKeepsRows DEF CutIsRevoked, InFamily
<1>4. OneUnused'
  BY CutKeepsRows DEF OneUnused, Unused, InFamily
<1>5. SpentOutlives'
  BY CutKeepsRows DEF SpentOutlives
<1> QED BY <1>1, <1>2, <1>3, <1>4, <1>5

-----------------------------------------------------------------------------
(* Minting. *)

\* The rows of a new pair go where there was no row.
NewAccess(k, first) ==
    [status |-> "issued", family |-> k, first |-> first, revoked |-> FALSE, left |-> AccessTTL]
NewRefresh(k) ==
    [status |-> "issued", family |-> k, rotated |-> FALSE, revoked |-> FALSE,
     left |-> RefreshTTL, keep |-> -1]

LEMMA MintAdds ==
    ASSUME NEW k \in Codes, NEW first \in BOOLEAN, NEW refreshes, Mint(k, first, refreshes)
    PROVE  \E a \in Accesses, r \in Refreshes :
              /\ access[a].status = "none" /\ refresh[r].status = "none"
              /\ access' = [access EXCEPT ![a] = NewAccess(k, first)]
              /\ refresh' = [refreshes EXCEPT ![r] = NewRefresh(k)]
<1> DEFINE a == CHOOSE i \in FreeAccess : TRUE
           r == CHOOSE i \in FreeRefresh : TRUE
<1>1. FreeAccess # {} /\ FreeRefresh # {}
  BY DEF Mint
<1>2. a \in FreeAccess /\ r \in FreeRefresh
  BY <1>1
<1>3. /\ access' = [access EXCEPT ![a] = NewAccess(k, first)]
      /\ refresh' = [refreshes EXCEPT ![r] = NewRefresh(k)]
  BY DEF Mint, NewAccess, NewRefresh
<1> HIDE DEF a, r
<1> QED BY <1>2, <1>3 DEF FreeAccess, FreeRefresh

LEMMA NewRowsAreTyped ==
    ASSUME NEW k \in Codes, NEW first \in BOOLEAN
    PROVE  NewAccess(k, first) \in AccessRows /\ NewRefresh(k) \in RefreshRows
BY GrantsAssumption DEF NewAccess, NewRefresh, AccessRows, RefreshRows

\* Exchanging a code starts the family's only line of refresh tokens.
LEMMA ExchangeStep ==
    ASSUME GrantsInv, NEW k \in Codes, Exchange(k)
    PROVE  GrantsInv'
<1>1. /\ code[k].status = "fresh" /\ Mint(k, TRUE, refresh)
      /\ code' = [code EXCEPT ![k] = Spent(@)]
      /\ UNCHANGED <<withdrawn, barred, checked, by, cut>>
  BY DEF Exchange
<1>2. PICK a \in Accesses, r \in Refreshes :
        /\ access[a].status = "none" /\ refresh[r].status = "none"
        /\ access' = [access EXCEPT ![a] = NewAccess(k, TRUE)]
        /\ refresh' = [refresh EXCEPT ![r] = NewRefresh(k)]
  BY <1>1, MintAdds
<1>3. /\ k \notin cut
      /\ \A q \in Refreshes : ~InFamily(refresh, q, k)
      /\ \A b \in Accesses : ~InFamily(access, b, k)
  BY <1>1 DEF GrantsInv, FreshIsUnspent
<1>4. /\ code \in [Codes -> CodeRows] /\ access \in [Accesses -> AccessRows]
      /\ refresh \in [Refreshes -> RefreshRows]
  BY DEF GrantsInv, GrantsTypeOK
<1>5. /\ code' \in [Codes -> CodeRows]
      /\ code'[k].status = "spent" /\ code'[k].left = AccessTTL
      /\ \A j \in Codes : j # k => code'[j] = code[j]
  <2>1. Spent(code[k]) \in CodeRows /\ Spent(code[k]).status = "spent"
        /\ Spent(code[k]).left = AccessTTL
    <3>1. code[k] \in CodeRows /\ AccessTTL \in Int
      BY <1>4, GrantsAssumption
    <3> QED BY <3>1 DEF Spent, CodeRows
  <2> QED BY <1>1, <1>4, <2>1
<1>6. GrantsTypeOK'
  BY <1>1, <1>2, <1>4, <1>5, NewRowsAreTyped DEF GrantsInv, GrantsTypeOK
<1>7. /\ \A q \in Refreshes : refresh'[q] = IF q = r THEN NewRefresh(k) ELSE refresh[q]
      /\ \A b \in Accesses : access'[b] = IF b = a THEN NewAccess(k, TRUE) ELSE access[b]
  BY <1>2, <1>4
<1>8. FreshIsUnspent'
  BY <1>1, <1>5, <1>7 DEF GrantsInv, FreshIsUnspent, InFamily, NewAccess, NewRefresh
<1>9. CutIsRevoked'
  BY <1>1, <1>3, <1>7 DEF GrantsInv, CutIsRevoked, InFamily, NewAccess, NewRefresh
<1>10. OneUnused'
  BY <1>3, <1>7 DEF GrantsInv, OneUnused, Unused, InFamily, NewRefresh
<1>11. SpentOutlives'
  <2> SUFFICES ASSUME NEW b \in Accesses,
                      access'[b].status # "none", access'[b].first, access'[b].left > 0
               PROVE  /\ code'[access'[b].family].status = "spent"
                      /\ code'[access'[b].family].left >= access'[b].left
    BY DEF SpentOutlives
  <2>1. CASE b = a
    BY <1>5, <1>7, <2>1, GrantsAssumption DEF NewAccess
  <2>2. CASE b # a
    <3>1. access'[b] = access[b] /\ access[b].family \in Codes /\ access[b].family # k
      BY <1>3, <1>4, <1>7, <2>2 DEF InFamily, AccessRows
    <3> QED BY <1>5, <3>1 DEF GrantsInv, SpentOutlives
  <2> QED BY <2>1, <2>2
<1> QED BY <1>6, <1>8, <1>9, <1>10, <1>11 DEF GrantsInv

\* Trading a refresh token hands its place to the next one.
LEMMA RotateStep ==
    ASSUME GrantsInv, NEW r \in Refreshes, Rotate(r)
    PROVE  GrantsInv'
<1> DEFINE k == refresh[r].family
           traded == [refresh EXCEPT ![r].rotated = TRUE, ![r].keep = AccessTTL]
<1>1. /\ Rotatable(r) /\ Mint(k, FALSE, traded)
      /\ UNCHANGED <<withdrawn, barred, checked, by, code, cut>>
  BY DEF Rotate
<1>2. /\ code \in [Codes -> CodeRows] /\ access \in [Accesses -> AccessRows]
      /\ refresh \in [Refreshes -> RefreshRows] /\ cut \subseteq Codes
  BY DEF GrantsInv, GrantsTypeOK
<1>3. k \in Codes /\ Unused(r, k) /\ k \notin cut /\ code[k].status # "fresh"
  BY <1>1, <1>2 DEF GrantsInv, Rotatable, Unused, InFamily, RefreshRows, CutIsRevoked,
                    FreshIsUnspent
<1>4. /\ traded \in [Refreshes -> RefreshRows]
      /\ traded[r].rotated /\ traded[r].family = k /\ traded[r].revoked = refresh[r].revoked
      /\ traded[r].status = refresh[r].status
      /\ \A q \in Refreshes : q # r => traded[q] = refresh[q]
  <2>1. refresh[r] \in RefreshRows /\ AccessTTL \in Int
    BY <1>2, GrantsAssumption
  <2>2. traded[r] = [refresh[r] EXCEPT !.rotated = TRUE, !.keep = AccessTTL]
    BY <1>2
  <2> QED BY <1>2, <2>1, <2>2 DEF RefreshRows
<1> HIDE DEF k, traded
<1>5. PICK a \in Accesses, s \in Refreshes :
        /\ access[a].status = "none" /\ refresh[s].status = "none"
        /\ access' = [access EXCEPT ![a] = NewAccess(k, FALSE)]
        /\ refresh' = [traded EXCEPT ![s] = NewRefresh(k)]
  BY <1>1, <1>3, MintAdds
<1>6. /\ \A q \in Refreshes : refresh'[q] = IF q = s THEN NewRefresh(k) ELSE traded[q]
      /\ \A b \in Accesses : access'[b] = IF b = a THEN NewAccess(k, FALSE) ELSE access[b]
  BY <1>2, <1>4, <1>5
<1>7. GrantsTypeOK'
  BY <1>1, <1>2, <1>3, <1>4, <1>5, NewRowsAreTyped DEF GrantsInv, GrantsTypeOK
<1>8. FreshIsUnspent'
  BY <1>1, <1>3, <1>4, <1>6
     DEF GrantsInv, FreshIsUnspent, InFamily, Unused, NewAccess, NewRefresh
<1>9. CutIsRevoked'
  BY <1>1, <1>3, <1>4, <1>6 DEF GrantsInv, CutIsRevoked, InFamily, NewAccess, NewRefresh
<1>10. OneUnused'
  <2>1. r # s
    BY <1>3, <1>5 DEF Unused, InFamily
  <2>2. \A q \in Refreshes, j \in Codes : Unused(q, j)' =>
            IF q = s THEN j = k ELSE Unused(q, j) /\ q # r
    BY <1>4, <1>6, <2>1 DEF Unused, InFamily, NewRefresh
  <2>3. \A q \in Refreshes : Unused(q, k) => q = r
    BY <1>3 DEF GrantsInv, OneUnused
  <2> QED BY <2>2, <2>3 DEF GrantsInv, OneUnused
<1>11. SpentOutlives'
  BY <1>1, <1>6 DEF GrantsInv, SpentOutlives, NewAccess
<1> QED BY <1>7, <1>8, <1>9, <1>10, <1>11 DEF GrantsInv

-----------------------------------------------------------------------------
(* The rest of the steps, and the theorems. *)

\* A new code takes a name nothing bears.
LEMMA StoreCodeStep ==
    ASSUME GrantsInv, NEW g \in Grantors, NEW k \in Codes, StoreCode(g, k)
    PROVE  GrantsInv'
<1>1. /\ Fresh(k) /\ by' = [by EXCEPT ![k] = g]
      /\ checked' = checked \ {g} /\ cut' = cut \ {k}
      /\ code' = [code EXCEPT ![k] = [status |-> "fresh", left |-> CodeTTL]]
      /\ UNCHANGED <<withdrawn, barred, refresh, access>>
  BY DEF StoreCode
<1>2. code \in [Codes -> CodeRows] /\ access \in [Accesses -> AccessRows]
  BY DEF GrantsInv, GrantsTypeOK
<1>3. /\ \A a \in Accesses : ~InFamily(access, a, k)
      /\ \A r \in Refreshes : ~InFamily(refresh, r, k)
      /\ code[k].status = "none"
  BY <1>1 DEF Fresh
<1>4. [status |-> "fresh", left |-> CodeTTL] \in CodeRows
  BY GrantsAssumption DEF CodeRows
<1>5. GrantsTypeOK'
  BY <1>1, <1>4 DEF GrantsInv, GrantsTypeOK
<1>6. FreshIsUnspent'
  BY <1>1, <1>2, <1>3 DEF GrantsInv, FreshIsUnspent, InFamily
<1>7. CutIsRevoked' /\ OneUnused'
  BY <1>1 DEF GrantsInv, CutIsRevoked, OneUnused, Unused, InFamily
<1>8. SpentOutlives'
  BY <1>1, <1>2, <1>3 DEF GrantsInv, SpentOutlives, InFamily, AccessRows
<1> QED BY <1>5, <1>6, <1>7, <1>8 DEF GrantsInv

LEMMA DownLowers ==
    ASSUME NEW n \in Int, NEW floor \in Int
    PROVE  /\ Down(n, floor) \in Int /\ Down(n, floor) <= n
           /\ n > floor => Down(n, floor) = n - 1
BY DEF Down

LEMMA AgeStep ==
    ASSUME GrantsInv, StampsAge
    PROVE  GrantsInv'
<1>1. /\ code \in [Codes -> CodeRows] /\ access \in [Accesses -> AccessRows]
      /\ refresh \in [Refreshes -> RefreshRows]
  BY DEF GrantsInv, GrantsTypeOK
<1>2. ASSUME NEW k \in Codes
      PROVE  /\ code'[k] \in CodeRows /\ code'[k].status = code[k].status
             /\ code'[k].left = Down(code[k].left, -1)
  <2>1. code[k] \in CodeRows /\ code'[k] = [code[k] EXCEPT !.left = Down(@, -1)]
    BY <1>1 DEF StampsAge
  <2>2. code[k].left \in Int /\ -1 \in Int
    BY <2>1 DEF CodeRows
  <2>3. Down(code[k].left, -1) \in Int
    BY <2>2, DownLowers
  <2> QED BY <2>1, <2>3 DEF CodeRows
<1>3. ASSUME NEW r \in Refreshes
      PROVE  /\ refresh'[r] \in RefreshRows /\ refresh'[r].status = refresh[r].status
             /\ refresh'[r].family = refresh[r].family
             /\ refresh'[r].rotated = refresh[r].rotated
             /\ refresh'[r].revoked = refresh[r].revoked
  <2>1. refresh[r] \in RefreshRows
    BY <1>1
  <2>2. refresh'[r] = [refresh[r] EXCEPT !.left = Down(@, -1), !.keep = Down(@, -1)]
    BY DEF StampsAge
  <2>3. /\ Down(refresh[r].left, -1) \in Int /\ Down(refresh[r].keep, -1) \in Int
    <3>1. refresh[r].left \in Int /\ refresh[r].keep \in Int /\ -1 \in Int
      BY <2>1 DEF RefreshRows
    <3> QED BY <3>1, DownLowers
  <2> QED BY <2>1, <2>2, <2>3 DEF RefreshRows
<1>4. ASSUME NEW a \in Accesses
      PROVE  /\ access'[a] \in AccessRows /\ access'[a].status = access[a].status
             /\ access'[a].family = access[a].family /\ access'[a].first = access[a].first
             /\ access'[a].revoked = access[a].revoked
             /\ access[a].status # "none" => access'[a].left = Down(access[a].left, -1 - Retention)
  <2>1. access[a] \in AccessRows /\ -1 - Retention \in Int
    BY <1>1, GrantsAssumption
  <2>2. access'[a] = IF access[a].status = "none" THEN access[a]
                     ELSE [access[a] EXCEPT !.left = Down(@, -1 - Retention)]
    BY DEF StampsAge
  <2>3. Down(access[a].left, -1 - Retention) \in Int
    BY <2>1, DownLowers DEF AccessRows
  <2> QED BY <2>1, <2>2, <2>3 DEF AccessRows
<1>5. UNCHANGED <<withdrawn, barred, checked, by, cut>>
  BY DEF StampsAge
<1>6. GrantsTypeOK'
  <2>1. /\ code' = [k \in Codes |-> code'[k]] /\ refresh' = [r \in Refreshes |-> refresh'[r]]
        /\ access' = [a \in Accesses |-> access'[a]]
    BY DEF StampsAge
  <2>2. /\ code' \in [Codes -> CodeRows] /\ refresh' \in [Refreshes -> RefreshRows]
        /\ access' \in [Accesses -> AccessRows]
    BY <1>2, <1>3, <1>4, <2>1
  <2> QED BY <1>5, <2>2 DEF GrantsInv, GrantsTypeOK
<1>7. FreshIsUnspent'
  BY <1>2, <1>3, <1>4, <1>5 DEF GrantsInv, FreshIsUnspent, InFamily
<1>8. CutIsRevoked'
  <2>1. cut \subseteq Codes
    BY DEF GrantsInv, GrantsTypeOK
  <2> QED BY <1>3, <1>4, <1>5, <2>1 DEF GrantsInv, CutIsRevoked, InFamily
<1>9. OneUnused'
  BY <1>3 DEF GrantsInv, OneUnused, Unused, InFamily
<1>10. SpentOutlives'
  <2> SUFFICES ASSUME NEW a \in Accesses,
                      access'[a].status # "none", access'[a].first, access'[a].left > 0
               PROVE  /\ code'[access'[a].family].status = "spent"
                      /\ code'[access'[a].family].left >= access'[a].left
    BY DEF SpentOutlives
  <2> DEFINE k == access[a].family
  <2>1. /\ access[a].left \in Int /\ k \in Codes /\ code[k].left \in Int /\ Retention \in Nat
    BY <1>1, GrantsAssumption DEF AccessRows, CodeRows
  <2>2. access[a].left > 0 /\ access'[a].left = access[a].left - 1
    BY <1>4, <2>1, DownLowers DEF Down
  <2>3. code[k].status = "spent" /\ code[k].left >= access[a].left
    BY <1>4, <2>2 DEF GrantsInv, SpentOutlives
  <2>4. code'[k].left = code[k].left - 1
    BY <1>2, <2>1, <2>2, <2>3 DEF Down
  <2> QED BY <1>2, <1>4, <2>1, <2>2, <2>3, <2>4
<1> QED BY <1>6, <1>7, <1>8, <1>9, <1>10 DEF GrantsInv

\* The sweep only takes rows away, and not the code of a token that still works.
LEMMA SweepStep ==
    ASSUME GrantsInv, SweepGrants
    PROVE  GrantsInv'
<1>1. /\ code \in [Codes -> CodeRows] /\ access \in [Accesses -> AccessRows]
      /\ refresh \in [Refreshes -> RefreshRows] /\ cut \subseteq Codes
      /\ UNCHANGED <<withdrawn, barred, checked, by, cut>>
  BY DEF GrantsInv, GrantsTypeOK, SweepGrants
<1>2. \A k \in Codes : code'[k] = IF code[k].left < 0 THEN NoCode ELSE code[k]
  BY DEF SweepGrants
<1>3. \A r \in Refreshes : refresh'[r] = NoRefresh \/ refresh'[r] = refresh[r]
  BY DEF SweepGrants
<1>4. \A a \in Accesses : access'[a] = NoAccess \/ access'[a] = access[a]
  BY DEF SweepGrants
<1>5. GrantsTypeOK'
  <2>1. /\ code' \in [Codes -> CodeRows] /\ refresh' \in [Refreshes -> RefreshRows]
        /\ access' \in [Accesses -> AccessRows]
    BY <1>1, RowsAreTyped DEF SweepGrants
  <2> QED BY <1>1, <2>1 DEF GrantsInv, GrantsTypeOK
<1>6. FreshIsUnspent'
  BY <1>1, <1>2, <1>3, <1>4
     DEF GrantsInv, FreshIsUnspent, InFamily, NoCode, NoRefresh, NoAccess
<1>7. CutIsRevoked' /\ OneUnused'
  BY <1>1, <1>3, <1>4
     DEF GrantsInv, CutIsRevoked, OneUnused, Unused, InFamily, NoRefresh, NoAccess
<1>8. SpentOutlives'
  <2> SUFFICES ASSUME NEW a \in Accesses,
                      access'[a].status # "none", access'[a].first, access'[a].left > 0
               PROVE  /\ code'[access'[a].family].status = "spent"
                      /\ code'[access'[a].family].left >= access'[a].left
    BY DEF SpentOutlives
  <2>1. access'[a] = access[a]
    BY <1>4 DEF NoAccess
  <2>2. /\ access[a].family \in Codes /\ access[a].left \in Int
        /\ code[access[a].family].left \in Int
    BY <1>1 DEF AccessRows, CodeRows
  <2>3. /\ code[access[a].family].status = "spent"
        /\ code[access[a].family].left >= access[a].left
    BY <2>1 DEF GrantsInv, SpentOutlives
  <2> QED BY <1>2, <2>1, <2>2, <2>3
<1> QED BY <1>5, <1>6, <1>7, <1>8 DEF GrantsInv

LEMMA GrantsStep == GrantsInv /\ [GrantsNext]_grantVars => GrantsInv'
<1> SUFFICES ASSUME GrantsInv, [GrantsNext]_grantVars PROVE GrantsInv'
  OBVIOUS
<1> USE DEF GrantsInv
<1>1. ASSUME NEW g \in Grantors, Consent(g) \/ Withdraw(g) \/ Bar(g)
      PROVE  GrantsInv'
  <2>1. UNCHANGED <<by, code, refresh, access, cut>>
    BY <1>1 DEF Consent, Withdraw, Bar
  <2>2. GrantsTypeOK'
    BY <1>1, <2>1 DEF GrantsTypeOK, Consent, Withdraw, Bar
  <2> QED BY <2>1, <2>2
          DEF FreshIsUnspent, CutIsRevoked, OneUnused, SpentOutlives, Unused, InFamily
<1>2. ASSUME NEW g \in Grantors, NEW k \in Codes, StoreCode(g, k)
      PROVE  GrantsInv'
  BY <1>2, StoreCodeStep
<1>3. ASSUME NEW k \in Codes, Exchange(k)
      PROVE  GrantsInv'
  BY <1>3, ExchangeStep
<1>4. ASSUME NEW k \in Codes, ReplayCode(k)
      PROVE  GrantsInv'
  BY <1>4, CutStep DEF ReplayCode
<1>5. ASSUME NEW r \in Refreshes, Rotate(r)
      PROVE  GrantsInv'
  BY <1>5, RotateStep
<1>6. ASSUME NEW r \in Refreshes, ReuseRefresh(r)
      PROVE  GrantsInv'
  <2>1. refresh[r].family \in Codes /\ InFamily(refresh, r, refresh[r].family)
    BY <1>6 DEF ReuseRefresh, InFamily, GrantsTypeOK, RefreshRows
  <2>2. code[refresh[r].family].status # "fresh"
    BY <2>1 DEF FreshIsUnspent
  <2> QED BY <1>6, <2>1, <2>2, CutStep DEF ReuseRefresh
<1>7. ASSUME NEW a \in Accesses, RevokeIssued(a)
      PROVE  GrantsInv'
  <2>1. access[a].family \in Codes /\ InFamily(access, a, access[a].family)
    BY <1>7 DEF RevokeIssued, InFamily, GrantsTypeOK, AccessRows
  <2>2. code[access[a].family].status # "fresh"
    BY <2>1 DEF FreshIsUnspent
  <2> QED BY <1>7, <2>1, <2>2, CutStep DEF RevokeIssued
<1>8. CASE StampsAge
  BY <1>8, AgeStep
<1>9. CASE SweepGrants
  BY <1>9, SweepStep
<1>10. CASE UNCHANGED grantVars
  BY <1>10 DEF grantVars, GrantsTypeOK, FreshIsUnspent, CutIsRevoked, OneUnused,
               SpentOutlives, Unused, InFamily
<1> QED BY <1>1, <1>2, <1>3, <1>4, <1>5, <1>6, <1>7, <1>8, <1>9, <1>10 DEF GrantsNext

THEOREM GrantsInvariant == GrantsSpec => []GrantsInv
BY GrantsInitGood, GrantsStep, PTL DEF GrantsSpec

\* Every credential row keeps to its type (oauth_codes, oauth_refresh and the
\* issued rows of tokens).
THEOREM GrantsTyped == GrantsSpec => []GrantsTypeOK
<1>1. GrantsInv => GrantsTypeOK
  BY DEF GrantsInv
<1> QED BY <1>1, GrantsInvariant, PTL

\* A connection that was cut off stays cut off, for any number of clients and
\* whatever the lifetimes (revoke_refresh_family and the order of the checks in
\* exchange_oauth_code and refresh_oauth_token).
THEOREM CutStaysCutHolds == GrantsSpec => []CutStaysCut
<1>1. GrantsInv => CutStaysCut
  BY DEF GrantsInv, CutIsRevoked, CutStaysCut, Usable, Rotatable
<1> QED BY <1>1, GrantsInvariant, PTL

\* Of all refresh tokens of a connection at most one can be traded: rotation
\* moves the right to refresh and never copies it.
THEOREM OneLiveEndHolds == GrantsSpec => []OneLiveEnd
<1>1. GrantsInv => OneLiveEnd
  BY DEF GrantsInv, GrantsTypeOK, RefreshRows, OneUnused, Unused, InFamily, OneLiveEnd, Rotatable
<1> QED BY <1>1, GrantsInvariant, PTL

\* As long as the access token a code bought works, the code is on record as
\* spent, so presenting it again is seen (SPENT_CODE_RETENTION_SECONDS).
THEOREM ReplayIsNoticedHolds == GrantsSpec => []ReplayIsNoticed
<1>1. GrantsInv => ReplayIsNoticed
  BY DEF GrantsInv, SpentOutlives, ReplayIsNoticed, Usable
<1> QED BY <1>1, GrantsInvariant, PTL
=============================================================================
