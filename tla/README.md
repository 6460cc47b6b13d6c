# Takomo in TLA+

Takomo is a ticket store that agents and people work from at the same time: one
Rust process, one SQLite file, an HTTP/MCP surface, WebSockets for shared
documents, and a handful of background tasks. This directory holds TLA+ models of
the parts of it where several actors meet on one row or one document, the TLC
configurations that check them, and proofs.

Paths below are relative to the repository root.

## 1. The system

**Process and transactions.** `server.rs` serves requests and spawns interval
tasks. Every write goes through `Store::with_tx` (`src/store/mod.rs`): a process
mutex, one `IMMEDIATE` transaction, commit or roll back whole. So an accepted
request is one atomic step and a refused one is no step. What is *not* atomic is
what the models are about:

- the clock is read (`now_ms()`) before the mutex is taken, so a request may
  judge leases by an instant older than its commit;
- minting an answer link, and storing the code of an OAuth consent, check in one
  transaction and insert in a later one;
- the sweeps of questions and of schedules list what is due in one read, and then
  settle each in a transaction of its own, with the clock reading of the pass;
- a worker outside the process claims a job, works, and reports later, or never;
- a live document is a replica in memory: a join reads the log in two reads, edits
  reach the log by a debounced flush, and the replica, the queue, the log and the
  `frozen` flag are changed by different tasks under different locks;
- the command line writes to the same SQLite file from another process.

| Component | State | Operations | Talks to | Hard part | Correct when |
|---|---|---|---|---|---|
| Claims and leases (`store/claims.rs`) | `claim_holder`, `claim_expires_at`, `lapsed_claim_holder`, `claim_fence` of each ticket | claim, renew, resume, heartbeat, release, force-release, sweep | transitions, questions, archive | expired holders that come back, old clocks | one holder at a time, nobody else moves its ticket, the fence counts leases |
| Ready queue (`store/ready_sql.rs`, `ready_claim`) | none of its own | pop and lease | claims, tree, dependencies | a SQL predicate that repeats the gates of claim-by-id | it never offers what a claim refuses |
| Epic reservations (`claims.rs`) | an epic's claim, possibly without expiry | as claims | tree | gates above and below, at any depth | no other's claim under a held epic |
| Transitions and workflows (`store/transition.rs`, `workflow.rs`) | the state of each ticket, the project's workflow | transition, start, block, replace the workflow | claims, questions, moves | several edges between two states, human override, guards, auto-release; tickets in flight when the workflow changes | a finished ticket is not held; every ticket stands in a known state |
| Tree and dependencies (`store/tickets.rs`) | `parent`, `deps`, evidence links, `archived_at` | patch, add/remove dep, archive | claims, queue, moves | two graphs that constrain each other | no rings, no ticket waiting for itself |
| Projects (`store/projects.rs`) | `projects` rows | create, archive (forced or not), unarchive, delete | a gate in every write; every table that names a project | races leases and sweeps; a cascade over many tables | nothing held, nothing moves while archived; a delete takes its own and nothing else |
| Moves between projects (`store/moves.rs`) | none of its own | move with or without descendants | tree, workflows, leases, questions | who stays, who follows, which state to land in | families stay in one project, questions know their home |
| Questions (`store/questions.rs`, `api/questions.rs`) | `questions` rows | ask, answer, relay, reopen, assign, withdraw, expiry sweep | park, resume or cancel tickets | several questions on one ticket, answers racing deadlines | the barrier, deadlines acted on, approvals proven |
| Answer links (`store/answer_grants.rs`) | `answer_grants` rows | mint, spend, revoke | questions | check before the transaction, reuse after reopening | one answer, in its own cycle |
| Agent jobs (`store/agent_chat.rs`, with `document_chat.rs`, `bugs.rs`, `lane_organizer.rs`, `ticket_document.rs` as sources) | `agent_jobs`, `agent_conversations`, messages | ask, claim, heartbeat, finish, late evidence, cancel, sweep | bug tickets, documents, lanes | late results, retries with and without an answer heard, crashes of the worker | one turn at a time, one run per service, no stale reply, no second run |
| Work lanes (`store/work_lanes.rs`, `lane_organizer.rs`) | lanes, their tickets, handoffs, proposals | patch, hand off, claim, finish, review, organize, accept | agent jobs (the organizer's queue), tickets | proposals made from an old snapshot, superseded attempts | unseen edits survive, reviews see the final work |
| Schedules (`store/schedules.rs`) | `schedules` rows, the tickets of their slots | create, edit, pause, resume, delete, run now, sweep | tickets | the sweep's list is old when it fires; restarts | at most one ticket per slot, every due slot served |
| OAuth codes and refresh families (`store/oauth.rs`, `api/oauth.rs`, `store/tokens.rs`, `users.rs`) | codes, refresh tokens, issued access tokens | consent, exchange, rotate, revoke, disable, sweep | sessions | a code or a refresh token used twice; withdrawal while a code is under way | a cut family stays cut, withdrawal ends access |
| Live documents (`api/docsync.rs`, `store/crdt.rs`) | `crdt_updates` (the log), one room per open object | join, edit, flush, compact, reset, barrier, freeze, quit | archive, mind maps, sessions, the command line | see the list above | one replica, what is acknowledged is in the log, nothing shown is lost |
| Mind maps (`store/mindmapdoc.rs`, `fracdex.rs`) | nodes with parent pointers and order keys in a CRDT | add, move, delete, merge, repair on reading | live documents | two legal edits whose merge is no tree | a tree, whole, with branches where they were put |
| Reviews (`store/document_reviews.rs`, `api/document_reviews.rs`) | reviews, responses, the requests that made them; the comments in the document | send, reply, resolve, respond, start, ready, close, reopen, assign | live documents | a row and a document changed as one; repeats; answers given on what was | a review and its comments come together; callers hear the truth; answers meet the present |
| Proposals (`api/proposal_apply.rs`, `api/docprops.rs`, `web/src/lib/doc-ops.ts`, `plan-proposals.ts`) | offers, decisions, the text | offer, accept, reject, in the server or in a page | live documents | operations on blocks that moved, multiplied or went; two implementations; replicas that hear late | operations land as they were meant, records tell what happened |
| Live updates (`store/live_updates.rs`, `store/mod.rs`, `project_loop` in `api/docsync.rs`, `web/src/hooks`) | the journal of a transaction, a broadcast channel, a socket per project, the hook of each page | write, commit, announce, batch, mark, read again | every write; every page | a notification is sent once and names no contents; reads overlap writes | a page at rest shows what is committed, and comes to rest |
`PROJECT.json` lists every component with its status and, where it is not
modelled, the reason.

**How they meet.** Questions do not own a ticket; they call `apply_transition`
in `transition.rs` like everybody else, with other authority, and it in turn
reads and clears the claim columns. Archiving a project touches claims, and
gates claims, moves, questions, jobs, lanes, schedules, rooms and the sweepers,
each in a different place. A question's row carries a copy of its ticket's
project, which a move must keep up with and which a delete relies on. The lane
organizer waits in the queue of the agent jobs. A mind map is edited through a
room by the API and past it by the command line. Revoking a token ends the
connections and the live sessions it stands behind.

## 2. The modules

| Module | What it is |
|---|---|
| `TicketRules` | No variables. The functions of one ticket row that `claims.rs` and `transition.rs` share: what makes a claim active, expired, resumable; what a grant, release or revocation writes; when a fence is accepted and an edge is open. |
| `Claims` | The project's tickets, the two graphs, the archive flags, the clock. One action per store operation. Properties at the end, with the refinement mapping to `FencedLease`. |
| `FencedLease` | The abstract promise: a lease with an owner and a token; the token rises by one with each new lease or revocation and at no other time. A lease whose time is up is *late* while a request that was sent before may still arrive: it can keep it, nothing else can. Tickets and handoffs both implement it. |
| `AskHuman` | Questions, answer links and the question sweep, composed with `Claims`. |
| `Filing` | Where tickets are filed: projects and their workflows, the tree across projects, moves, the question's copy of the project, rows of other tables that name a project, deletion. |
| `AgentJobs` | The job table, the conversations and threads, requests folded into running jobs, services that crash or do not hear. |
| `WorkLanes` | Lanes and their tickets, handoffs from draft to result, the organizer's snapshot, proposal and acceptance; each handoff implements `FencedLease`. |
| `Schedules` | Schedules, their slots and the sweep in steps, with people acting in between. |
| `OAuthGrants` | Codes, refresh tokens, access tokens, families, and the people and tokens behind them. |
| `LiveRooms` | The rooms of one object over its log, in the steps the tasks take between locks and store calls. |
| `MindTree` | The tree two replicas edit: order keys, repair, batches, moves, deletes, merges. |
| `Reviews` | What people send each other about a document, in the store and in the document at once. |
| `Proposals` | What agents offer to change in a text, and its acceptance in the server and in pages. |
| `LiveUpdates` | From a committed write to the page that shows it: the journal of a transaction, the channel, the project socket, the refresh hook. |
| `MCClaims`, `MCAskHuman`, `MCFiling`, `MCLiveRooms` | Instances for TLC of the module each is named after. |
| `MCTickets`, `MCBoard`, `MCDocuments`, `MCServices`, `MCDecisions` | One run over several modules that share no variable: `part`, fixed in the initial state, says which one moves. That every part starts from its own initial state and that the others stutter makes the run the union of the parts' state graphs, not their product. |
| `Claims_proofs`, `AskHuman_proofs`, `Filing_proofs`, `LiveRooms_proofs`, `MindTree_proofs` | Theorems about the module each is named after. |
| `Services_proofs` | Theorems about `WorkLanes` and `OAuthGrants`, the services outside callers come back to with a token. |
| `Decisions_proofs` | Theorems about `Reviews` and `Proposals`, what people and agents decide about a document. |
| `Background_proofs` | Theorems about `AgentJobs`, `Schedules` and `LiveUpdates`, which work without anybody calling. |

**Correspondence.** An action is a whole handler: `Transition` includes the
clearing of an expired claim, the choice of an edge, the guards, and the
auto-release; `Start` is claim and move in one transaction; `MoveTickets` is the whole
of `move_tickets`. Where a handler is several transactions or reads, it is as
many actions, with the local variables of the handler as state: `due` and `pass`
of the question sweep, `sweep` of the schedules, `checked` of the consent, `work`
and `peer` of a room. `at \in Sampled` is the clock reading of a request, up to
`MaxLag` older than its commit. Variables are named after the table or the field
they stand for, and `PROJECT.json` maps each definition to its lines. Variables
commented *history* (`movers`, `cut`, `aim`, `strained`, the `cycle` counters) are
written and never read by a guard.

Recursive SQL (`WITH RECURSIVE`) is the least set that holds the seed and is
closed under the step, so the same definitions serve TLC and TLAPS. No module
declares a RECURSIVE operator: where the code loops, a recursive function over the
steps of the loop stands for it (the sort, the repair and the batch of `MindTree`,
the walk over operations in `Proposals`). `fracdex::midpoint`, which calls itself on
the rest of its strings, is written out as what the recursion comes to, and
`MidpointIsUnrolled` in `MCDocuments` compares the two on all short keys.

**Abstractions.** Text, titles, events, notifications and the wording of errors
are left out. A token is an actor with a set of scopes. Guards are the three a
workflow can name. Where the code takes the first edge of the workflow file among
several of the same class, the model takes any (`Preferred`). Ids are given, not
generated. TTLs are numbers of ticks inside the project's bounds, so clamping is
the choice of the set `TTLs`. Elsewhere in particular:

- in `AgentJobs`, `WorkLanes` and `OAuthGrants` a stamp is the time left until
  it matters, so no clock needs a bound; a snapshot's revision, a hash that
  includes every `updated_at`, is the flag "nothing in its scope was saved since";
- in `Schedules` a cadence is a period; the calendar and its time zones are
  arithmetic of `schedule.rs` that no property is about;
- in `Filing` a workflow is its states and its initial state, and a lease is held
  or not; which edge a move takes and when a lease ends is `Claims`' matter;
- in `LiveRooms` a CRDT update is the set of edits it carries, a replica the set
  applied to it, and merging is union: what the yrs library promises. Deleting is
  an edit too. Sizes are numbers of edits;
- in `Reviews` of a recipient list the set matters, mentions are left out, and a
  review is known by the request that sent it; in `Proposals` a replica is the set
  of facts it has heard of, and all replicas show the blocks they know in one order;
- in `MindTree` of two concurrent writes to one register either may win, the same
  at both replicas, and a removed node stays removed. Order keys are digit
  strings over a small base, computed as `fracdex.rs` computes them.
- in `LiveUpdates` the contents of a thing (the rows of one table in one project) are
  how often they were changed, a page's read is one snapshot, and a timer is armed
  or not. One table stands for each way a rule of `live_updates.rs` works. That a
  page names the topics its tables are announced under, and reads nothing else of
  other projects, is an assumption about the pages (`UpdatesAssumption`).

**Crashes.** Nothing of a request survives outside its transaction, so a crash of
the process is, in most models, the handlers in progress not taking their next
step (no fairness for `MintInsert`, for a consent's second half, or for a
worker). A restarted schedule sweep is `RestartSweep`. A worker that crashes, or
that never hears that its claim succeeded, is one that never beats.

## 3. The runs

| Run | Instance | What it shows |
|---|---|---|
| `tickets`, part *leases* | one open ticket; two agents and a human admin; a five-state workflow with claim-gated, free, human-gated and guarded edges and two edges between one pair of states; clock to 4, three fences, lag 1 | nobody but the holder has moved a ticket under an active lease, zombies and old clocks included (`OnlyHolderMoves`); finished tickets are not held; an archived project holds no lease; an expired lease is noticed without anybody calling (`ExpiryIsNoticed`); every lease implements `FencedLease`, late heartbeats and renewals included (`LeaseRefined`) |
| part *graph* | three tickets; every reparenting and every dependency | neither graph closes a ring, whatever the sequence of edits |
| part *filing* | three tickets in a chain over two projects and two workflows that share one state; one question; one row of another table; one ticket that gets claimed | families share a project, every ticket stands in a state of its project's workflow, a delete takes the questions on its own tickets and no others |
| `epic_board`, part *epic* | an epic over an epic and a task that may be moved beneath the lower one; two agents, one an admin; an occurrence that expires; clock to 2, two fences, lag 1 | nobody comes to hold a ticket beside another holder of an epic above it, except by keeping a late lease of his own (`ReservationsKept`); the queue agrees with claim-by-id (`QueueIsHonest`) |
| part *board* | one page that lists tickets, blockers elsewhere included, and questions; two of three transactions; a channel that keeps one batch; one fault (socket, read or server) and one whim of the reader | a page at rest shows what is committed (`QuietIsCurrent`), and a page that is looked at comes to show it (`PagesCatchUp`) |
| `ask_timeouts` | two blocking questions with deadlines (one answered by recommendation, one cancelling) on one claimable ticket, one agent, one human, lag 1 | a ticket leaves its blocked state on an answer or timeout only when no blocking question is left open (`LastAnswerResumes`); deadlines are acted on (`DeadlineIsKept`) |
| `decisions`, part *links* | one sign-off (cancel, escalate or no fallback), one link, an asker, a relaying agent and an assignable human admin, lag 1 | approvals are proven (`ApprovalIsProof`), a link answers once and in its own cycle (`LinkAnswersItsCycle`), nothing moves in an archived project (`FrozenStaysPut`) |
| part *reviews* | two reviews over a new and an old comment, two actions of twelve that are tried, two requests in the server at once, two whims (a toggle, a reset, a crash, an archive) | a review and its comments come together (`SentAsOne`), callers hear what happened (`ReceiptsAreTrue`), answers meet the present (`ActionsMeetThePresent`) |
| part *proposals* | two blocks, two proposals of three drafts whose operations get into each other's way, one page, one edit or reload | operations land as they were meant, in either implementation (`OpsLandAsMeant`); what is recorded as accepted or dropped was (`RecordsAreTrue`) |
| `documents`, part *rooms* | one object, a browser and an API caller, three edits (the third from the API or the command line), two room slots, compaction after two rows, at most two joins, freezes, ended sessions and offline edits together | one replica at a time; freezing reaches the room; a barrier's `saved` is written; nothing shown is lost; the log keeps edits; queues drain, ended sessions lose their socket, an empty room goes |
| part *tree* | two replicas of two seeded nodes; at most four nodes, two deep, two edits, batches of two; keys of three digits to base 4 | every node is shown once, whatever was merged (`TreeIsWhole`); a move moves its branch only and not past the depth cap (`MovesStayLocal`); a node lands at the position asked for (`AimIsMet`) |
| `services`, part *jobs* | one section, one bug, one ticket to classify; two requests, two services, two jobs, one archive or restore | one run per service, no stale reply, one run per request, runs end |
| part *lanes* | one lane, one ticket, two handoffs of two attempts, one organizer request, one worker, two texts, one edit | reviews see the final work; what the server applies overwrites nothing its author did not see |
| part *schedules* | two schedules of period 2, clock to 5, four changes | one ticket per slot; due slots are served |
| part *grants* | one consenting token, one code, three refresh and three access tokens | a cut family stays cut; withdrawal ends access |
| `epic_reparent`, `wait_cycle`, `ask_reopen`, `ask_cancel`, `room_log_loss`, `project_delete` | as small as the case allows | findings, section 6 |

The passing runs reach between 35 thousand and 515 thousand distinct states, and
between them fire every action of every module.

**Why the bounds are enough.** *One ticket* suffices for lease properties
because a lease is a property of one row and the rules read no other row except
through the gates, which `epic_board` exercises. *Two agents and a human* are a
holder, a contender, and the one actor whose moves override the lock. *Three
fences* allow a token to be stale by two leases. *Clock 4 with TTLs 1 and 2* is
lease, lapse, successor, lapse, with a late heartbeat in between. *Three tickets
in a row* is the least depth at which "all ancestors" and "the parent", or "the
subtree" and "the children", differ, and *three rewired freely* reach every shape
of ring on three nodes. *Two questions* is the least number for a barrier. *Two
rooms* are the one that leaves and the one that comes; *three edits* are one in
the log, one in the queue and one that arrives in between; compaction after two
rows compacts in every interesting position. *Two edits and one merge* are the
least two people can do to each other's branches, and the batch of two and the
key length of three reach the over-long keys; an instance with three single edits
and ids to 3 has been checked as well. *Two jobs* are a run and what replaces it;
*three refresh tokens* are a spent one, its successor, and that one's. Unbounded
counters are cut by guards named in the modules (`MaxTime`, `MaxFence`,
`MaxReopens`, `MaxEvents`, ...), and `bound:` marks every constant that only
limits what is tried.

**The clock lag.** A handler reads its clock before it waits for the store's mutex
(`claims.rs:795`), so a request may commit on a reading that is older than the
commit. `MaxLag` bounds by how much; every passing run about tickets has
`MaxLag = 1`, and what is proved (section 5) is proved for every lag. What a lag can
do is stated by the properties, not assumed away: a heartbeat or a renewal can bring
back a lease whose time is up. `FencedLease` calls this `Rescue` and allows it to
the lease's own owner, as long as requests lag, and until the row is cleared or
granted again. It is also how an epic's holder and the holder of a ticket beneath
it can come to stand side by side, the reservation having lapsed when the second
was granted (`claims.rs:433`); `ReservationsKept` says that there is no other way.
The state property `EpicReserved`, that they never do, is therefore checked by
no passing run: finding 1 refutes it even without a lag.

**Fairness.**

- `Claims`, `AskHuman`: `server.rs` runs both sweeps from one interval task for as
  long as the process lives: weak fairness of `Sweep(now)`, of `ListDue(now)`, of
  `Expire(q)` for each listed question, and of `Tick` (time passes).
- `AgentJobs`: `Tick` and `SweepJobs`. `Schedules`: listing and going through the
  list. `OAuthGrants`: time passes.
- `LiveRooms`: the tasks of the runtime. Whoever holds a lock goes on; a flusher
  ticks; a handler publishes what it owes; an open socket's timer fires: weak
  fairness. `flushing` is a tokio mutex, which queues its waiters, so who waits
  gets it although others take it in between: strong fairness of taking it.
- `LiveUpdates`: a commit is announced before its lock is given back; a socket's task,
  the browser's end of it, and a page each take their next step when they have one.

No caller owes the server anything: nobody has to claim, beat, answer, join or hang
up, and the liveness properties hold with nobody calling.

**Deadlock.** TLC looks for deadlock in `epic_board` (where the board alone may rest), part *links* of `decisions` and the two
findings that share their modules. Elsewhere the bounded system really comes to
rest: every question is settled and the ticket ended, every edit has been made,
every change spent; or the part of the run that moves has nothing left to do.

## 4. The properties

`TypeOK` and its like are the type invariants: those of `Claims`, `AskHuman`,
`Filing`, `AgentJobs`, `WorkLanes`, `Schedules`, `OAuthGrants`, `LiveRooms`, `Reviews`,
`LiveUpdates` and `MindTree` are proved, and that of `Proposals` is part of
`ProposalsInvariant`. The others each relate several actors, or an
earlier to a later state, and each is stated with its comment at the end of its
module. Every one a run checks fails when a plausible mistake is put into the
definition it depends on: the operators named `X_Something` beside a definition
`X` are those mistakes, and `PROJECT.json` pairs them with the property they
break.

Some are conditional, and the condition says something about the code:

- `DeadlineIsKept` is checked under workflows in which the cancelling edge a
  parked ticket has is human-gated; section 6 says where it fails.
- `SavedIsWritten`, `ShownIsKept` and `LogKeepsEdits` speak of histories in which
  neither two rooms of the object existed at once nor a write fell between the two
  reads of a join (`strained`). The code lets a room leave the map before its last
  flush, and section 6 shows what the second costs. `OneReplica` and the liveness
  properties have no such condition.
- `MovesStayLocal` and `AimIsMet` speak of documents whose stored pointers need no
  repair (`Sound`): two concurrent moves can leave a loop in the registers that
  the repair hides, and a later legal move then changes where the hidden edge
  is cut.

`ReadyClaim` never asks for the gates, and `Claim` never asks the queue:
`QueueIsHonest` compares two definitions translated from two pieces of code.

## 5. What is proved

Every theorem holds for every value of the constants that satisfies the named
assumptions of its module, which TLC evaluates in each run.

| Module | Theorems |
|---|---|
| `Claims_proofs` | `TypeCorrect`, `LeaseShapeHolds`, `OnlyHolderMovesHolds`, `EndedUnheldHolds`, `FrozenUnheldHolds`, `RestingUnheldHolds`, `QueueIsHonestHolds`, `NoRingsHolds`, `ReservationsKeptHolds`, `LeaseRefinedHolds` |
| `AskHuman_proofs` | `AskInvHolds`, `AskTypeCorrect`, `OnlyHolderMovesHoldsOfAsk`, `ApprovalIsProofHolds`, `LinkAnswersItsCycleHolds`, `FrozenStaysPutHolds`, `LastAnswerResumesHolds`, `LeaseRefinedHoldsOfAsk` |
| `Filing_proofs` | `FilingInvariant`, `FamiliesShareProjectHolds`, `StagesAreKnownHolds`, `FiledWellHolds`, `DeleteTakesItsOwnHolds` |
| `Background_proofs` (jobs) | `JobsInvariant`, `JobsTyped`, `OneTurnAtATimeHolds`, `OneRunPerServiceHolds`, `RepliesFollowQuestionsHolds`, `RequestRunsOnceHolds`, `OneRunEachHolds`, `ThreadStaysHomeHolds`, `EndIsFinalHolds` |
| `Services_proofs` (lanes) | `LanesInvariant`, `LanesTyped`, `ReviewsSeeFinalWorkHolds`, `UnseenEditsSurviveHolds`, `AttemptsAreFencedHolds` |
| `Background_proofs` (schedules) | `SchedulesInvariant`, `SchedulesTyped`, `OneTicketPerSlotHolds`, `SlotOnlyIfActiveHolds` |
| `Services_proofs` (grants) | `GrantsInvariant`, `GrantsTyped`, `CutStaysCutHolds`, `OneLiveEndHolds`, `ReplayIsNoticedHolds` |
| `Background_proofs` (live updates) | `UpdatesInvariant`, `UpdatesTyped`, `QuietIsCurrentHolds` |
| `LiveRooms_proofs` | `RoomsTyped`, `OneReplicaHolds`, `FreezeReachesRoomHolds`, `ShownIsKeptHolds`, `LogKeepsEditsHolds`, `SavedIsWrittenHolds` |
| `MindTree_proofs` | `MidpointIsBetween`, `MapsAreTyped`, `EveryNodeIsShown`, `MovesStayLocalHolds`, `AimIsMetHolds` |
| `Decisions_proofs` (reviews) | `ReviewsInvariant`, `ReviewsTyped`, `SentAsOneHolds`, `ReceiptsAreTrueHolds`, `ActionsMeetThePresentHolds` |
| `Decisions_proofs` (proposals) | `ProposalsInvariant`, `RecordsAreTrueHolds`, `OpsLandAsMeantHolds` |

**Claims.** `OnlyHolderMoves` speaks of *active* leases and is not inductive: a
lease that has lapsed can become active again, when its holder's heartbeat or
renewal arrives with an older clock reading. So if somebody else could move the
ticket while the row still *records* the lapsed holder, a late heartbeat would
make the property false. `Inv` therefore says it of every recorded holder, active
or not: the row names its holder until somebody clears it, and whoever moves a
ticket clears an expired claim first. Together with the type and shape of the row
this is inductive. Each action writes one row or maps one function over all rows,
so the induction is on rows: lemmas say what a cleared, granted, dropped, extended
and moved row satisfies, two lemmas lift a row to the table, and there is one lemma
per group of actions.

`EndedUnheld` has a hypothesis, `FinishedIsFinal`: every done or cancelled state
is terminal. Without it the property is false: a lapsed holder may resume its
lease in the state the ticket is now in, and `Workflow::validate` accepts a
`done` state with an edge out of it. The shipped workflows satisfy it.
`FrozenUnheld` is a second induction, whose heart is that time only ends leases
(`TimeOnlyEnds`), so a claim that archiving saw inactive by an older clock is
inactive by a newer one. `QueueIsHonest` needs no invariant: it is a theorem about
the two predicates.

`NoRings` is about least sets. `dep_cycle` and the walk up the parents each ask one
question before one edge is added: is the source reachable from the target? The
lemma `NoNewRing` says that this is enough, for any graph without rings: a set that
is closed under the old steps and holds the target is closed under the new ones
too, so whoever walks over the new edge walks on as before. `FewerEdges` serves the
requests that take edges away. The base is `StartAssumption`: what a project
starts with has no ring, because `create_ticket` accepts only tickets that exist.

`ReservationsKept` is an action property and has no hypothesis: it holds for every
lag, every tree and every reparenting, also one that puts a held ticket under a held
epic (finding 1), since what the property asks of later steps does not depend on how
the tree came about. The proof sorts the steps in two. One hands out a lease through
both gates, which look up and down the whole tree by a reading no later than the
present; as time only ends leases (`TimeOnlyEnds`), whom the gates saw inactive is
inactive. In all the others whoever holds a ticket afterwards held it before, or
keeps his own late lease.

`LeaseRefined` maps each ticket to `FencedLease` and shows, row by row, that a step
grants with a larger token, extends, gives up, takes away or lets time end a lease,
or does nothing to it, in whichever of the phases held, late, lapsed and free the
row was. The mapping reads the phase off the clock: a row is late while it names a
holder whose time is up and some reading a request may still commit on has it
active. A beat or renewal that lands is one whose reading has the lease active, and
so finds it held or late; a lapsed one is beyond every reading, and stays so because
the oldest reading only moves on. Under the questions (`AskSpec`) the refinement is
proved and not run.

**Questions.** The questions share the tickets with the claims. `TicketTouched` says
what a handler of `questions.rs` may write to a ticket: it starts from the row with
an expired claim cleared, and either leaves the claim alone or ends it, and only a
step that ends it is remembered as a move. Every handler is shown to be of this form once,
and the claims invariant and the lease step follow from the form; so asking,
answering, reopening and expiring get `OnlyHolderMoves` and `LeaseRefined` without
a proof of their own. `AskInv` adds what the questions need. `GoodAsk`: a question
that was asked passed the validation (an approval never falls back to a
recommendation), and an approval that was given was given by somebody who may give
it. `GoodLink`: the minter of a link could have answered by himself, and a live link
is of the cycle its question is in; that a reopened question takes its links down in
the same transaction is what keeps this inductive. `ApprovalIsProof` and
`LinkAnswersItsCycle` read off it. For `FrozenStaysPut` and `LastAnswerResumes` every
step is sorted by where it moves a ticket: not at all (`Resting`), away from its
state when a question opens and none is settled (`Opening`), or out of its blocked
state when the last blocking question was settled in an open project (`Moving`).
`AskHuman_proofs` extends `Claims_proofs` and cites its lemmas.

**Filing.** `FamiliesShareProject` and `StagesAreKnown` are inductive together
with the types. `DeleteTakesItsOwn` compares two ways to find a question, by its
own project column and by its ticket; `QuestionsKnowHome`, that the column is the
ticket's, closes the gap, and `MoveTickets` is where it is at stake.

**Agent jobs.** The statement that runs never overlap is about `agent_jobs`, but
what keeps it is elsewhere: a request that was folded into a run has that run's
row (`UsedRowsAreFiled`), a running job is held by the service its conversation is
pinned to (`RunsArePinned`), and the last message of a conversation whose run is
unfinished is its question (`QuestionIsLast`).

**Lanes.** `HandoffsAreOfLanes`, `FreshPlansAreTrue` (a proposal still marked fresh
describes the lanes as they are) and `GroupsAreShown` (it places only what its
snapshot showed) carry `UnseenEditsSurvive` and `ReviewsSeeFinalWork`. Every
handoff is shown to implement `FencedLease` step by step (`AttemptsAreFenced`):
attempts are its tokens.

**Schedules.** A slot is fired at most once because the next slot is always past
every slot made (`GreatestExists`, by well-foundedness, gives the latest one), or
it is refused by the unique index.

**Grants.** `FreshIsUnspent`, `CutIsRevoked`, `OneUnused` and `SpentOutlives` (a
spent row is kept as long as anything of its family can live, so that a second use
is still noticed) with the types.

**Rooms.** Four layers, each inductive on top of the one before. *Place*: a flusher
that is in a round or just leaving is that of the mapped room (`RoundsAreMapped`),
whoever works under the lock of a room is in it and waits for the result
(`LockIsHeld`), and a peer is in a room exactly between joining and leaving
(`PeersAreSomewhere`); hence `OneReplica`. *Freeze*: an
answer to "is it archived?" that is under way is right, or its reader will notice that the
generation moved on, or a resync is owed; hence `FreezeReachesRoom`. *Keep*: while a
history is not `strained`, a join has read all that its baseline lets a later
compaction forget (`JoinsAreWhole`), and each room accounts for the log
(`RoomsAreGood`). The heart is `Accounts(base, own, replica)`: the replica knows every
row up to its base, and as many later rows as it counts as its own. A compaction
compares two numbers, the rows it finds and those it accounts for; that equal numbers of
rows mean the same rows, so that none it has not seen is deleted, is a fact about
finite sets (the rows it knows are among those it finds, and as many). `Kept` is the
other direction: what a room shows is in the log, queued, in a batch, or in the hands
of whoever sends it on. `ShownIsKept` and `LogKeepsEdits` follow. *Saved*: what was
taken from a socket its room shows (`TakenIsShown`), so that an empty queue means it
is in the log. `SavedIsWritten` has the hypothesis `OneAuthor`, an edit is made by one
peer (its id names the client that made it), which TLC evaluates for the instance.

**Live updates.** A notification names topics and no contents, so a change is safe
only if at every moment somebody owes it to the page. `ChangesAreOwed` names the
debtors. On the server's side (`Coming`): the batch of a commit that is not announced,
a queue or its lag, the topics a task holds while it batches, a message on the wire,
and a socket that is not greeted yet, because the greeting asks for everything. On the
page's side (`Settles`): it is dirty, its request is out, it failed and polls, or what
it shows or is about to show is current. Where the rules of `live_updates.rs` meet the
topics of the pages is one lemma, `WritesStir`: whatever a transaction changed of what
a page reads, moved and cascaded rows included, its batch stirs that page. It rests on
`UpdatesAssumption`, that a page names the topics its tables are announced under.
That the channel may drop the oldest batch is harmless because the drop sets the lag
(`KeptBrings`).

**Reviews.** `SentAsOne` says of the store, the room and the log that a comment is in
all three or in none; it is inductive once it is known that an action touches only
threads that are there (`CallsAreMade`). A receipt stays true because what took
effect stays in the store (`ToldIsTook`). `ActionsMeetThePresent` rests on versions:
nobody names one ahead of the review's, and a review was cleared at one of its own
(`ClearedBefore`), so a response that counts is to the review as it stands.

**Mind maps.** `MidpointIsBetween` is about `fracdex.rs` alone: between two keys, in
any base, there is one that is at most a digit longer and does not end in the lowest
digit. Keys compare as strings do, by the first digit they differ in, and every case
of the proof names that digit. `EveryNodeIsShown` needs nothing of the history but
its types: the repair that runs on every reading makes a tree of whatever parents and
keys are stored. "Above" is the least set that holds a node's parent and is closed under going up;
a loop is cut at its lowest member and orphans go under the root, so a walk that came
back to where it began would be a loop whose lowest member was not cut. The loops of the code (the repair, the sort, a batch) are
recursive functions over their steps. That such a function exists (`RecursionExists`),
and that what holds before a loop and through each step holds after it
(`StepByStep`), are proved once, from well-foundedness of the naturals.
`MovesStayLocal` compares the tree a move reads with the one it leaves, where the
depth cap is at stake, by counting who is above whom. `AimIsMet` is about ranks: the key made for a
position is above the keys of those before it and below the keys of those after, as
long as the keys of the ring are usable and no two are the same; where they are not,
the tie-break by id decides and the property asks nothing.

**Proposals.** What a page decided reaches the server in pieces and other pages later
still, so `RecordsAreTrue` has to be known of every prefix of what is under way.
`AllAreExplained` says it of each: where a decision is known, so is what explains
each operation it dropped, a change or an earlier operation of the same proposal. What else the induction carries: a block is made
once, since its identity names the replica and the life of the page that made it
(`MintedOnce`); whoever has an offer has the text that it was validated against, and
there is one offer for each proposal (`OffersAreRooted`); and a page sends what it writes in the order in which it writes
it (`PagesSendAll`). `ApplyIs` gives the loop of `apply_ops` for proposals of any
length: which operations it leaves out, what it adds and what it takes away.
`ProposalsAssumption` says that a minted id is none of those the text began with; in
the code it is a random one. An earlier form of `RecordsAreTrue`, which asked that
the *reader* of a record know the change as well, is false with two pages, as an
instance with two showed; the property speaks of the changes there are.

`OpsLandAsMeant` is proved in three parts. First, applying is what it means
(`ApplyMeans`): the code splices one sequence at positions it finds and counts, the
meaning gives every block of the text a group of its own and amends the groups, and
the text stays the groups read out one behind the other, as long as each operation
keeps it so (`AmendedTells`). For that the count of the blocks behind an id must be
the length of its group's tail (`Measured`), and no block in a tail may have an id that
an operation can name (`LoneTails`). Second, nothing is shuffled: the blocks that are
left keep their order and new ones are found nowhere else (`ApplySettled`, from
`MintedOnce`), so that weaving the text into the common order and picking it out again
gives the same text (`WovenOrder`, `OnlyReads`, `AcceptedReads`). Third, a replica
accepts only where `AcceptOnServer` and `AcceptOnPage` are taken: whatever else it
hears is somebody else's or its own from before a reload (`ChangesAreHome`), and what
is on record as taken away was in the text once (`CutsAreKnown`).
`ProposalsAssumption` keeps `<<>>`, the mark of an edit that nobody proposed, out of
the proposals.

**Only model-checked.** All liveness, which the prover does not reach
(`ExpiryIsNoticed`, `DeadlineIsKept`, `QueueDrains`, `NothingLingers`, `RunsEnd`,
`DueSlotsAreServed`, `WithdrawalEndsAccess`, `PagesCatchUp`). Every invariant and
every action property that a run checks and finds true is a theorem.

## 6. Findings

1. `epic_reparent`: PATCH moves a ticket under a new parent without asking who
   holds either. A ticket one actor holds can end up below an epic another
   holds, both claims active; `docs/epic-claims.md` says that a claimed epic
   reserves its whole subtree for the holder.
2. `wait_cycle`: `add_dep` refuses rings of dependencies and PATCH rings of
   parents, each looking at its own graph. A ticket may depend on a ticket that
   inherits a dependency on it, and then waits for itself and is never offered.
3. `ask_reopen`: reopening an answer that resumed nothing does not look at the
   ticket. When a later answer resumed it and somebody claimed it, the blocking
   question is open beside running work; the documentation says that reopening
   parks the ticket again.
4. `ask_cancel`: a cancel on timeout whose move is refused, because somebody
   holds the ticket, is an error that rolls the expiry back, at this sweep and
   every later one. The comment there rules exactly this out.
5. `room_log_loss`: a join reads the rows of the log and then, in a second read,
   the highest seq. A row the command line appends between the two is in neither
   the replica nor the rows counted as unseen, and the next compaction deletes it.
   The comment at compaction says that this cannot happen.
6. `project_delete`: deleting a project that has a member, an initiative or a
   schedule fails, forced or not, because the cascade does not clear those rows
   and the foreign keys are on.

Seen while modelling, and not refuted by a run because the repository promises
nothing, or too little to quote:

- `materialize_due` returns at the first schedule that fails, so one damaged
  cadence ends every pass at the same place, although the comment beside it says
  that one cannot stop the rest (`Broken` in `Schedules`: `DueSlotsAreServed` is
  refuted for the others when it is not empty).
- Editing a schedule recomputes its next slot, so an overdue slot is skipped, and
  an edited end can leave an active schedule without a slot; running it by hand and
  then pausing and resuming moves it back to a slot that has its ticket (the unique
  index refuses the second one). A sweep's transaction does not look at the archive
  again.
- A question listed before its project was archived is answered by recommendation
  with the resume refused. Reopening keeps the old deadline and compares states.
- An answer link minted across a move of its ticket keeps the old project, and
  goes with that project when it is deleted. `work_lane_tickets` is not updated by a
  move. A parked ticket that is moved lands in the initial state with its question
  open. The header of `transition.rs` names two writers of a ticket's state;
  `moves.rs` is a third. A new workflow may make the state of a held ticket
  terminal.
- An update a frozen room dropped is not offered again on that connection, so a
  barrier after the restore answers without it. An API call whose flush is refused
  still answers 2xx. A live session is refused for an expired token, not for a
  revoked one, at its start (its next recheck ends it).
- `fracdex::between` with equal or out-of-order neighbours appends past the aim;
  a branch promoted to an epic commits the epic before it links back.
- The journal of changes is a temporary table of one connection: what the command
  line writes, in another process, is announced to no open page. The project socket
  sends no pings, so an end that vanishes without closing is noticed when TCP does.

## 7. Not modelled

- Question threads (`append_thread_turn`) and the revision of options: they change
  no ticket. Steering messages, telemetry and inspection views of agent jobs.
- search, embeddings and the query cache: rebuildable caches and reads.
- Mentions and the inbox of reviews, behaviors, environments, initiatives and the
  roadmap: record keeping with per-row checks. Promotion between environments may
  earn a model.
- CRDT merging itself (the yrs library's), awareness, relaying to peers, the wire
  format.
- Calendar arithmetic, client registration and redirect checks, scopes beyond what
  a guard reads.
- The command line, routing, encoding and `mcp.rs`, which maps tool calls to the
  same store operations; calls to services outside the process.

The models cover about 16 % of the lines of the implementation. Most of the rest
is reads and their rendering, HTTP and MCP encoding, pure transformations of
documents, and SQL for records no two actors contend for; a model of those would
restate them.

## 8. Plan

1. Modules: promotion between environments; question threads and the agents that
   answer in them.
2. `Schedules` as a refinement: a sweep in steps against one that fires all that is
   due at once.
3. A proof that the queue is complete as well as honest: what claim-by-id would grant
   and the filter wants is offered.
