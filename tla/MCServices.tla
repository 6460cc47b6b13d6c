---------------------------- MODULE MCServices ----------------------------
(* An instance of the services that keep state of their own: the agents'   *)
(* queue, the lanes, the schedules and the grants.  They share no state,   *)
(* so one run looks at each of them in turn: `part' says at whose.         *)
EXTENDS AgentJobs, WorkLanes, Schedules, OAuthGrants, TLC

CONSTANTS
    section, bug, note, asker, q1, q2, s1, s2,      \* AgentJobs
    l1, t1, h1, h2, p1, w1, x, y, v,                \* WorkLanes
    daily, weekly,                                  \* Schedules
    g, k1, ra, rb, rc, aa, ab, ac                   \* OAuthGrants

VARIABLE part

Init ==
    /\ part \in {"jobs", "lanes", "schedules", "grants"}
    /\ JobsInit /\ LanesInit /\ SchedulesInit /\ GrantsInit

Next ==
    \/ part = "jobs" /\ JobsNext /\ UNCHANGED <<part, laneVars, schedVars, grantVars>>
    \/ part = "lanes" /\ LanesNext /\ UNCHANGED <<part, jobVars, schedVars, grantVars>>
    \/ part = "schedules" /\ SchedulesNext /\ UNCHANGED <<part, jobVars, laneVars, grantVars>>
    \/ part = "grants" /\ GrantsNext /\ UNCHANGED <<part, jobVars, laneVars, schedVars>>

\* A part that is not looked at stays in its initial state, where none of its
\* fair actions is enabled.
Spec ==
    /\ Init
    /\ [][Next]_<<part, jobVars, laneVars, schedVars, grantVars>>
    /\ JobsFairness /\ SchedulesFairness /\ GrantsFairness
=============================================================================
