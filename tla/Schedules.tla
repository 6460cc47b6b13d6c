----------------------------- MODULE Schedules -----------------------------
(***************************************************************************)
(* Schedules that make tickets: src/store/schedules.rs and the pass of the *)
(* sweeper that fires what is due.  A schedule names its next slot while   *)
(* it is active; firing inserts a ticket for the slot and moves on.  The   *)
(* sweep lists what is due and then takes one transaction per schedule,    *)
(* with the clock reading of the listing, so people and a second sweep act *)
(* between its steps.                                                      *)
(*                                                                         *)
(* A cadence is its period and its slots are the multiples of it: the      *)
(* calendar, time zones and the anchor (src/schedule.rs) are left out, and *)
(* so are names, templates, versions, events and the ticket behind an      *)
(* occurrence.  One process sweeps, as in the server.                      *)
(***************************************************************************)
EXTENDS Integers, Sequences, FiniteSets

CONSTANTS
    Rules,        \* bound: schedules that may be created
    Broken,       \* those whose stored cadence or template does not parse
    Cadences,     \* periods
    Ends,         \* what ends_at may be: instants and Never
    Never,        \* no slot, no end
    MaxMissed,    \* MAX_MISSED_SLOTS
    MaxTime,      \* bound on the clock
    MaxChanges    \* bound: what people do to schedules and to the project

ASSUME SchedulesAssumption ==
    /\ Broken \subseteq Rules
    /\ Cadences \subseteq Nat \ {0} /\ Cadences # {}
    /\ Never \notin Nat /\ Ends \subseteq Nat \cup {Never} /\ Never \in Ends
    /\ MaxMissed \in Nat /\ MaxTime \in Nat /\ MaxChanges \in Nat

VARIABLES
    rule,      \* schedules
    made,      \* schedule -> the occurrences of its tickets, in order
    clock,
    sweep,     \* materialize_due: what it listed and still has to fire, and when
    shut,      \* the project is archived
    changes    \* how many of the bounded changes there were

schedVars == <<rule, made, clock, sweep, shut, changes>>

-----------------------------------------------------------------------------
Unborn == [status |-> "none", every |-> CHOOSE c \in Cadences : TRUE,
           ends |-> Never, next |-> Never]
Idle == [due |-> {}, at |-> 0]

SchedulesInit ==
    /\ rule = [s \in Rules |-> Unborn]
    /\ made = [s \in Rules |-> <<>>]
    /\ clock = 0 /\ sweep = Idle /\ shut = FALSE /\ changes = 0

Change == changes < MaxChanges /\ changes' = changes + 1

\* Cadence::next_slot_after, without the calendar.
SlotAfter(every, t) == every * (t \div every + 1)

Within(slot, ends) == IF ends # Never /\ slot > ends THEN Never ELSE slot

\* compute_next_slot.
NextSlot(r, t) == Within(SlotAfter(r.every, t), r.ends)

\* The step create and resume share: an active schedule without a slot retires.
Activated(r, t) ==
    LET slot == NextSlot(r, t)
    IN  [r EXCEPT !.next = slot, !.status = IF slot = Never THEN "retired" ELSE "active"]

\* Mutant of Taken: no unique index.
Taken_Never(s, slot) == FALSE

\* UNIQUE(tickets.schedule, tickets.occurrence).
Taken(s, slot) == \E i \in DOMAIN made[s] : made[s][i] = slot

\* materialize_one: the ticket and the advance are one transaction; if the slot
\* has its ticket, nothing is written.
Materialize(s, slot) ==
    LET r == rule[s]
        next == Within(SlotAfter(r.every, slot), r.ends)
    IN  IF Taken(s, slot) THEN UNCHANGED <<rule, made>>
        ELSE /\ made' = [made EXCEPT ![s] = Append(@, slot)]
             /\ rule' = [rule EXCEPT ![s].next = next,
                                     ![s].status = IF next = Never THEN "retired" ELSE @]

-----------------------------------------------------------------------------
\* What people do.

Create(s) ==
    /\ ~shut /\ rule[s].status = "none" /\ Change
    /\ \E e \in Cadences, end \in Ends, approval \in BOOLEAN :
        LET r == [Unborn EXCEPT !.every = e, !.ends = end] IN
        rule' = [rule EXCEPT ![s] = IF approval THEN [r EXCEPT !.status = "pending"]
                                    ELSE Activated(r, clock)]
    /\ UNCHANGED <<made, clock, sweep, shut>>

\* patch_schedule: whatever was patched, an active schedule gets the next slot
\* from now, and stays active without one.
PatchSchedule(s) ==
    /\ ~shut /\ rule[s].status \notin {"none", "deleted"} /\ Change
    /\ \E e \in Cadences, end \in Ends :
        LET r == [rule[s] EXCEPT !.every = e, !.ends = end] IN
        rule' = [rule EXCEPT ![s] =
            IF r.status = "active" THEN [r EXCEPT !.next = NextSlot(r, clock)] ELSE r]
    /\ UNCHANGED <<made, clock, sweep, shut>>

Legal(status) == CASE status = "pending" -> {"active", "rejected"}
                   [] status = "active" -> {"paused"}
                   [] status = "paused" -> {"active"}
                   [] OTHER -> {}

\* set_schedule_status: activate, reject, pause, resume.
SetStatus(s, to) ==
    /\ ~shut /\ to \in Legal(rule[s].status) /\ Change
    /\ rule' = [rule EXCEPT ![s] = IF to = "active" THEN Activated(@, clock)
                                   ELSE [@ EXCEPT !.status = to, !.next = Never]]
    /\ UNCHANGED <<made, clock, sweep, shut>>

Delete(s) ==
    /\ ~shut /\ rule[s].status \notin {"none", "deleted"} /\ Change
    /\ rule' = [rule EXCEPT ![s] = [Unborn EXCEPT !.status = "deleted"]]
    /\ UNCHANGED <<made, clock, sweep, shut>>

\* run_schedule_now: the next slot, ahead of its time, or this instant.
RunNow(s) ==
    /\ ~shut /\ rule[s].status = "active" /\ s \notin Broken /\ Change
    /\ Materialize(s, IF rule[s].next = Never THEN clock ELSE rule[s].next)
    /\ UNCHANGED <<clock, sweep, shut>>

ShutProject ==
    /\ Change /\ shut' = ~shut
    /\ UNCHANGED <<rule, made, clock, sweep>>

-----------------------------------------------------------------------------
\* The sweep.

Due(s, t) == rule[s].status = "active" /\ rule[s].next # Never /\ rule[s].next <= t

\* The query lists schedules of projects that are not archived.
ListDueSchedules ==
    LET due == {s \in Rules : Due(s, clock)} IN
    /\ sweep.due = {} /\ ~shut /\ due # {}
    /\ sweep' = [due |-> {[id |-> s, slot |-> rule[s].next] : s \in due}, at |-> clock]
    /\ UNCHANGED <<rule, made, clock, shut, changes>>

\* latest_due_slot: the slots that went by are passed over, so many at a time.
LatestDue(r, t) ==
    LET slot(n) == r.every * (r.next \div r.every + n)
        passed == {n \in 1 .. MaxMissed :
                    slot(n) <= t /\ Within(slot(n), r.ends) # Never}
    IN  IF passed = {} THEN r.next ELSE slot(CHOOSE n \in passed : \A m \in passed : m <= n)

\* Mutant of Fires: only a slot that is due just now.
Fires_OnTime(s) == Due(s, sweep.at) /\ LatestDue(rule[s], sweep.at) = rule[s].next

\* The look under the write lock.
Fires(s) == Due(s, sweep.at)

\* One schedule of the list, oldest slot first.  If it is gone or does not parse
\* the pass ends there, with an error.
SweepOne(d) ==
    /\ d \in sweep.due /\ \A e \in sweep.due : d.slot <= e.slot
    /\ LET s == d.id IN
       IF rule[s].status = "deleted" \/ (Fires(s) /\ s \in Broken)
       THEN sweep' = Idle /\ UNCHANGED <<rule, made>>
       ELSE /\ sweep' = IF sweep.due = {d} THEN Idle ELSE [sweep EXCEPT !.due = @ \ {d}]
            /\ IF Fires(s) THEN Materialize(s, LatestDue(rule[s], sweep.at))
                           ELSE UNCHANGED <<rule, made>>
    /\ UNCHANGED <<clock, shut, changes>>

SweepSome == \E d \in sweep.due : SweepOne(d)

\* A restart in the middle of a pass: the next pass lists again.
RestartSweep ==
    /\ sweep.due # {} /\ Change
    /\ sweep' = Idle
    /\ UNCHANGED <<rule, made, clock, shut>>

ClockRuns ==
    /\ clock < MaxTime
    /\ clock' = clock + 1
    /\ UNCHANGED <<rule, made, sweep, shut, changes>>

-----------------------------------------------------------------------------
SchedulesNext ==
    \/ \E s \in Rules : Create(s) \/ PatchSchedule(s) \/ Delete(s) \/ RunNow(s)
                             \/ \E to \in {"active", "paused", "rejected"} : SetStatus(s, to)
    \/ ShutProject \/ RestartSweep \/ ListDueSchedules \/ SweepSome \/ ClockRuns

\* The server's interval task: it lists, and it goes through its list.
SchedulesFairness == WF_schedVars(ListDueSchedules) /\ WF_schedVars(SweepSome)

SchedulesSpec == SchedulesInit /\ [][SchedulesNext]_schedVars /\ SchedulesFairness

-----------------------------------------------------------------------------
Statuses == {"none", "pending", "active", "paused", "rejected", "retired", "deleted"}
RuleRows == [status : Statuses, every : Cadences, ends : Ends, next : Nat \cup {Never}]

SchedulesTypeOK ==
    /\ rule \in [Rules -> RuleRows]
    /\ made \in [Rules -> Seq(Nat)]
    /\ clock \in Nat /\ shut \in BOOLEAN /\ changes \in Nat
    /\ sweep \in [due : SUBSET [id : Rules, slot : Nat], at : Nat]

\* A slot gets one ticket, whatever sweeps, manual runs, pauses, edits and
\* restarts race for it (schedules.rs: "Exactly one ticket per slot is
\* structural, not defensive").
OneTicketPerSlot ==
    \A s \in Rules : \A i, j \in DOMAIN made[s] : made[s][i] = made[s][j] => i = j

\* Only an active schedule has a slot, so nothing a sweep lists is waiting for
\* approval, paused or over (the "NULL unless active" invariant).
SlotOnlyIfActive == \A s \in Rules : rule[s].next # Never => rule[s].status = "active"

\* What is due is fired, however often the sweep meets something that changed
\* under it: the latest slot that is due has its ticket in the end, unless
\* people move, stop or archive the schedule first.
DueSlotsAreServed ==
    \A s \in Rules \ Broken :
        Due(s, clock) ~> \/ shut \/ ~Due(s, clock) \/ Taken(s, LatestDue(rule[s], clock))
=============================================================================
