----------------------------- MODULE AgentJobs -----------------------------
(***************************************************************************)
(* The work queue of the agents: src/store/agent_chat.rs with the kinds of *)
(* job that document_chat.rs, bugs.rs, lane_organizer.rs and               *)
(* ticket_document.rs add to it.  A turn of a conversation is a job; a     *)
(* connected service claims it, renews a lease within a fixed deadline and *)
(* delivers one result, or the run expires and is never retried.           *)
(*                                                                         *)
(* Every handler is one write transaction.  Leases are the time they have  *)
(* left, so the clock needs no bound.  An attempt id is known to the       *)
(* process that claimed the job and to nobody else, so whatever names an   *)
(* attempt comes from there, or never if the process crashed or did not    *)
(* hear that it claimed.  A thread is identified with the service that     *)
(* keeps it.  Prompts, snapshots, evidence, usage, triage and the kinds a  *)
(* service supports are data no property here tells apart.                 *)
(***************************************************************************)
EXTENDS Integers, FiniteSets, Sequences

CONSTANTS
    Chats,          \* conversations of a section, a document or an organizer
    Bugs,           \* ... of the research on a bug ticket
    Notes,          \* ... of the classification of a ticket
    Actors,
    Requests,       \* request_id, chosen by the caller
    Services,       \* service_id with its token
    NoService,
    NoJob,
    Lease,          \* LEASE_SECONDS
    MaxRun,         \* MAX_RUN_MS
    MaxTurns,       \* MAX_TURNS
    MaxTicketRuns,  \* research jobs a project runs at once
    MaxJobs,        \* bound: jobs are rows 1 .. MaxJobs, oldest first
    MaxSwitches     \* bound: archives and restores, of the project and of tickets

Convs == Chats \cup Bugs \cup Notes
Jobs == 1 .. MaxJobs

ASSUME JobsAssumption ==
    /\ Chats \cap Bugs = {} /\ Chats \cap Notes = {} /\ Bugs \cap Notes = {}
    /\ NoService \notin Services /\ NoJob \notin Jobs \cup Convs
    /\ Lease \in Nat \ {0} /\ MaxRun \in Nat \ {0} /\ MaxJobs \in Nat
    /\ MaxTurns \in Nat /\ MaxTicketRuns \in Nat /\ MaxSwitches \in Nat

VARIABLES
    job,        \* agent_jobs, and the cancelled flag of bug_research_jobs
    conv,       \* agent_conversations: the service and the thread it is pinned to
    coalesced,  \* bug_research_requests: the job a request was folded into
    said,       \* agent_messages, in order
    frozen,     \* the project is archived
    shelved,    \* bug tickets that are archived
    switches    \* how many archives and restores there were

jobVars == <<job, conv, coalesced, said, frozen, shelved, switches>>

-----------------------------------------------------------------------------
NoRow == [status |-> "none", conv |-> NoJob, by |-> NoService,
          asker |-> NoJob, request |-> NoJob, lease |-> 0, deadline |-> 0,
          result |-> "none", cancelled |-> FALSE]
Unpinned == [service |-> NoService, thread |-> NoService]

Unfinished == {"queued", "running"}
Finished == {"completed", "failed"}

JobsInit ==
    /\ job = [j \in Jobs |-> NoRow]
    /\ conv = [c \in Convs |-> Unpinned]
    /\ coalesced = [b \in Bugs |-> [a \in Actors |-> [q \in Requests |-> NoJob]]]
    /\ said = [c \in Convs |-> <<>>]
    /\ frozen = FALSE /\ shelved = {} /\ switches = 0

\* A job that ends; nobody reads what was left of its lease.
Ended(row, status) == [row EXCEPT !.status = status, !.lease = 0, !.deadline = 0]

\* The two reasons expire looks for.
TimeIsUp(j) == job[j].status = "running" /\ (job[j].lease = 0 \/ job[j].deadline = 0)
Interrupted(j) == job[j].status \in Unfinished
                  /\ (frozen \/ job[j].conv \in shelved)

\* Mutant of Expired: only archives end a run.
Expired_Interrupted == [j \in Jobs |-> IF Interrupted(j) THEN Ended(job[j], "failed") ELSE job[j]]

\* expire, with which sends, research starts and claims begin.
Expired == [j \in Jobs |-> IF TimeIsUp(j) \/ Interrupted(j)
                           THEN Ended(job[j], "failed") ELSE job[j]]

OfConv(rows, c) == {j \in Jobs : rows[j].conv = c}
Active(rows, c) == {j \in OfConv(rows, c) : rows[j].status \in Unfinished}
Asked(rows, c, a, q) ==
    \E j \in OfConv(rows, c) : rows[j].asker = a /\ rows[j].request = q

\* A free row; rowids grow, so the lowest is the next.
NextRow(j) == job[j] = NoRow /\ \A i \in 1 .. (j - 1) : job[i] # NoRow
Queued(c, a, q) == [NoRow EXCEPT !.status = "queued", !.conv = c,
                                 !.asker = a, !.request = q]
Say(c, role, j) == said' = [said EXCEPT ![c] = Append(@, [role |-> role, job |-> j])]

-----------------------------------------------------------------------------
\* Asking.

\* The request was heard before: the caller gets the view, and what expired
\* stays expired.
AskAgain(c, a, q) ==
    /\ ~frozen /\ c \in Chats
    /\ Asked(Expired, c, a, q)
    /\ job' = Expired
    /\ UNCHANGED <<conv, coalesced, said, frozen, shelved, switches>>

\* send_agent_message, send_document_message, lane_organizer_send.
Ask(c, a, q) ==
    /\ ~frozen /\ c \in Chats
    /\ ~Asked(Expired, c, a, q)
    /\ Active(Expired, c) = {}
    /\ Cardinality(OfConv(job, c)) < MaxTurns
    /\ \E j \in Jobs : /\ NextRow(j)
                       /\ job' = [Expired EXCEPT ![j] = Queued(c, a, q)]
                       /\ Say(c, "user", j)
    /\ UNCHANGED <<conv, coalesced, frozen, shelved, switches>>

Heard(b, a, q) == Asked(Expired, b, a, q) \/ coalesced[b][a][q] # NoJob

\* start_bug_research: a repeated request, ...
ResearchAgain(b, a, q) ==
    /\ ~frozen /\ b \notin shelved /\ Heard(b, a, q)
    /\ job' = Expired
    /\ UNCHANGED <<conv, coalesced, said, frozen, shelved, switches>>

\* ... one that joins the run at work, ...
ResearchJoins(b, a, q) ==
    /\ ~frozen /\ b \notin shelved /\ ~Heard(b, a, q)
    /\ \E j \in Active(Expired, b) :
        coalesced' = [coalesced EXCEPT ![b][a][q] = j]
    /\ job' = Expired
    /\ UNCHANGED <<conv, said, frozen, shelved, switches>>

\* ... and one that starts a run, on whichever service and in a new thread.
Research(b, a, q) ==
    /\ ~frozen /\ b \notin shelved /\ ~Heard(b, a, q)
    /\ Active(Expired, b) = {}
    /\ Cardinality(OfConv(job, b)) < MaxTurns
    /\ \E j \in Jobs : /\ NextRow(j)
                       /\ job' = [Expired EXCEPT ![j] = Queued(b, a, q)]
                       /\ Say(b, "user", j)
    /\ conv' = [conv EXCEPT ![b] = Unpinned]
    /\ UNCHANGED <<coalesced, frozen, shelved, switches>>

\* enqueue of a classification: nothing expires here, a running job refuses the
\* request, a queued one gives way, and each job has a conversation of its own.
Superseded(c) == [j \in Jobs |-> IF job[j].conv = c /\ job[j].status = "queued"
                                 THEN Ended(job[j], "failed") ELSE job[j]]

Classify(c, a, q) ==
    /\ ~frozen /\ ~Asked(job, c, a, q)
    /\ \A j \in OfConv(job, c) : job[j].status # "running"
    /\ \E j \in Jobs : NextRow(j) /\ job' = [Superseded(c) EXCEPT ![j] = Queued(c, a, q)]
    /\ conv' = [conv EXCEPT ![c] = Unpinned]
    /\ UNCHANGED <<coalesced, said, frozen, shelved, switches>>

\* cancel_agent_job; nothing expires here either.
Cancel(j) ==
    /\ ~frozen /\ job[j].conv \in Bugs \ shelved
    /\ job[j].status \in Unfinished
    /\ job' = [job EXCEPT ![j] = [Ended(@, "failed") EXCEPT !.cancelled = TRUE]]
    /\ UNCHANGED <<conv, coalesced, said, frozen, shelved, switches>>

-----------------------------------------------------------------------------
\* Claiming and running.

Running(rows) == {j \in Jobs : rows[j].status = "running"}

RunningTickets(rows) == {j \in Running(rows) : rows[j].conv \in Bugs}

\* Mutant of Busy: only research is counted.
Busy_Research(rows, s) == \E j \in RunningTickets(rows) : rows[j].by = s

Busy(rows, s) == \E j \in Running(rows) : rows[j].by = s

\* What the candidate query of claim_agent_job lets a service take.
Claimable(rows, j, s) ==
    /\ rows[j].status = "queued" /\ ~frozen
    /\ rows[j].conv \in Bugs =>
        rows[j].conv \notin shelved /\ Cardinality(RunningTickets(rows)) < MaxTicketRuns
    /\ conv[rows[j].conv].service \in {NoService, s}

\* The oldest job it can take, unless the service runs one.
Claim(s) ==
    /\ ~Busy(Expired, s)
    /\ \E j \in Jobs :
        /\ Claimable(Expired, j, s)
        /\ \A i \in 1 .. (j - 1) : ~Claimable(Expired, i, s)
        /\ job' = [Expired EXCEPT ![j].status = "running", ![j].by = s,
                                  ![j].lease = Lease, ![j].deadline = MaxRun]
        /\ conv' = [conv EXCEPT ![Expired[j].conv].service = s]
    /\ UNCHANGED <<coalesced, said, frozen, shelved, switches>>

\* The live check of an attempt.
Live(j) == job[j].status = "running" /\ ~TimeIsUp(j)

\* session: the thread an attempt reports, if it reports one.
Session(j) ==
    LET c == job[j].conv IN
    \/ UNCHANGED conv
    \/ /\ conv[c].thread \in {NoService, job[j].by}
       /\ conv' = [conv EXCEPT ![c].thread = job[j].by]

\* A cancelled attempt is told so; everybody else must be live.
Heartbeat(j) ==
    /\ ~job[j].cancelled /\ Live(j) /\ ~frozen
    /\ Session(j)
    /\ job' = [job EXCEPT ![j].lease = IF Lease < job[j].deadline THEN Lease ELSE job[j].deadline]
    /\ UNCHANGED <<coalesced, said, frozen, shelved, switches>>

\* Mutant of Delivers: the lease is not looked at again.
Delivers_Late(j) ==
    job[j].result = "none" /\ job[j].by # NoService /\ ~job[j].cancelled /\ ~frozen

\* A result is taken once, from a live attempt, ...
Delivers(j) == job[j].result = "none" /\ Live(j) /\ ~frozen /\ job[j].conv \notin shelved

Finish(j) ==
    /\ Delivers(j)
    /\ Session(j)
    /\ \/ /\ job' = [job EXCEPT ![j] = [Ended(@, "completed") EXCEPT !.result = "reply"]]
          /\ Say(job[j].conv, "assistant", j)
       \/ /\ job' = [job EXCEPT ![j] = [Ended(@, "failed") EXCEPT !.result = "error"]]
          /\ UNCHANGED said
    /\ UNCHANGED <<coalesced, frozen, shelved, switches>>

\* ... or from a cancelled one, which may still leave its evidence.
LeaveEvidence(j) ==
    /\ job[j].by # NoService /\ job[j].cancelled /\ job[j].result = "none" /\ ~frozen
    /\ job' = [job EXCEPT ![j].result = "evidence"]
    /\ UNCHANGED <<conv, coalesced, said, frozen, shelved, switches>>

-----------------------------------------------------------------------------
\* Time, archives and the sweep.

Left(n) == IF n > 0 THEN n - 1 ELSE 0

Tick ==
    /\ job' = [j \in Jobs |-> IF job[j].status = "running"
                              THEN [job[j] EXCEPT !.lease = Left(@), !.deadline = Left(@)]
                              ELSE job[j]]
    /\ UNCHANGED <<conv, coalesced, said, frozen, shelved, switches>>

SweepJobs ==
    /\ job' = Expired
    /\ UNCHANGED <<conv, coalesced, said, frozen, shelved, switches>>

Switch == switches < MaxSwitches /\ switches' = switches + 1

ArchiveProject ==
    /\ Switch
    /\ frozen' = ~frozen
    /\ UNCHANGED <<job, conv, coalesced, said, shelved>>

ArchiveBug(b) ==
    /\ ~frozen /\ Switch
    /\ shelved' = IF b \in shelved THEN shelved \ {b} ELSE shelved \cup {b}
    /\ UNCHANGED <<job, conv, coalesced, said, frozen>>

-----------------------------------------------------------------------------
JobsNext ==
    \/ \E a \in Actors, q \in Requests :
        \/ \E c \in Chats : Ask(c, a, q) \/ AskAgain(c, a, q)
        \/ \E b \in Bugs : Research(b, a, q) \/ ResearchJoins(b, a, q)
                           \/ ResearchAgain(b, a, q)
        \/ \E c \in Notes : Classify(c, a, q)
    \/ \E s \in Services : Claim(s)
    \/ \E j \in Jobs : Cancel(j) \/ Heartbeat(j) \/ Finish(j) \/ LeaveEvidence(j)
    \/ Tick \/ SweepJobs \/ ArchiveProject \/ \E b \in Bugs : ArchiveBug(b)

\* Time passes and the sweeper runs; nobody has to claim, beat or answer.
JobsFairness == WF_jobVars(Tick) /\ WF_jobVars(SweepJobs)

JobsSpec == JobsInit /\ [][JobsNext]_jobVars /\ JobsFairness

-----------------------------------------------------------------------------
Rows == [status : {"none"} \cup Unfinished \cup Finished, conv : Convs \cup {NoJob},
         by : Services \cup {NoService}, asker : Actors \cup {NoJob},
         request : Requests \cup {NoJob}, lease : 0 .. Lease, deadline : 0 .. MaxRun,
         result : {"none", "reply", "error", "evidence"}, cancelled : BOOLEAN]

Pins == [service : Services \cup {NoService}, thread : Services \cup {NoService}]

JobsTypeOK ==
    /\ job \in [Jobs -> Rows]
    /\ conv \in [Convs -> Pins]
    /\ coalesced \in [Bugs -> [Actors -> [Requests -> Jobs \cup {NoJob}]]]
    /\ said \in [Convs -> Seq([role : {"user", "assistant"}, job : Jobs])]
    /\ frozen \in BOOLEAN /\ shelved \subseteq Bugs /\ switches \in Nat

\* A conversation has one turn at a time, whoever asks, joins, cancels or
\* supersedes (agent_chat.rs: "This section already has a queued or running
\* turn"; the classification's rows share their ticket).
OneTurnAtATime == \A c \in Convs : \A i, j \in Active(job, c) : i = j

\* A service runs one job at a time, even when it was started twice or never
\* heard that its claim succeeded (claim_agent_job: at most one active job per
\* connected service).
OneRunPerService ==
    \A i, j \in Running(job) : job[i].by = job[j].by => i = j

\* A reply stands right after the question it answers: no late, cancelled or
\* expired run speaks once the conversation has moved on.
RepliesFollowQuestions ==
    \A c \in Chats \cup Bugs : \A n \in 1 .. Len(said[c]) :
        said[c][n].role = "assistant" =>
            /\ n > 1
            /\ said[c][n - 1] = [role |-> "user", job |-> said[c][n].job]

\* The thread of a conversation is kept by the service the conversation is
\* pinned to, so the next turn finds it; research that starts over never gets
\* the thread of an earlier attempt back.
ThreadStaysHome ==
    \A c \in Convs : conv[c].thread # NoService => conv[c].thread = conv[c].service

\* One request is one job, however often it is retried, whatever became of the
\* job, and also when it was folded into a run somebody else asked for.
Serving(c, a, q) ==
    {j \in OfConv(job, c) : job[j].asker = a /\ job[j].request = q}
        \cup IF c \in Bugs /\ coalesced[c][a][q] # NoJob THEN {coalesced[c][a][q]} ELSE {}

RequestRunsOnce ==
    \A c \in Convs, a \in Actors, q \in Requests :
        \A i, j \in Serving(c, a, q) : i = j

\* However often services and people repeat themselves, there is one run each:
\* one per service at a time, and one job per request.
OneRunEach == OneRunPerService /\ RequestRunsOnce

\* A turn is run once: a run is never queued again, what has ended stays as it
\* ended, and a result is replaced by no other (expire: "Expiry never retries a
\* turn"; finish_agent_job: "A different result is already recorded").
RunsOnce(j) ==
    /\ job[j].status = "running" => job'[j].status # "queued"
    /\ job[j].status \in Finished => job'[j].status = job[j].status
    /\ job[j].result # "none" => job'[j].result = job[j].result
    /\ (job[j].result = "none" /\ job[j].status \in Finished) =>
            job'[j].result \in {"none", "evidence"}
EndIsFinal == [][\A j \in Jobs : RunsOnce(j)]_jobVars

\* A run ends: its worker answers, or the lease or the deadline ends it.  (There
\* are finitely many rows and none runs twice, so this says it of each run.)
RunsEnd == <>[](Running(job) = {})
=============================================================================
