------------------------------- MODULE Claims -------------------------------
(***************************************************************************)
(* Claims, leases, fencing, epic reservations and the ready queue of one   *)
(* project: src/store/claims.rs, the transitions of src/store/transition.rs*)
(* and the ticket writes of src/store/tickets.rs that the claim rules read.*)
(*                                                                         *)
(* Every write of the store is one IMMEDIATE transaction behind one mutex  *)
(* (Store::with_tx), so a request that is accepted is one atomic step and  *)
(* a request that is refused rolls back whole and is no step.  The one     *)
(* thing a request reads before it takes the mutex is the clock: `at' is   *)
(* that reading, and may be up to MaxLag behind the time of the commit.    *)
(***************************************************************************)
EXTENDS TicketRules, FiniteSets

CONSTANTS
    Tickets,      \* the tickets of the project
    NoTicket,     \* NULL in tickets.parent
    Epics,        \* tickets of type `epic'
    Parent0,      \* the tree and the dependency edges the run starts from
    Deps0,
    State0,       \* the workflow state each ticket starts in
    Admins,       \* actors whose token may force-release and archive
    TTLs,         \* lease lengths within the project's bounds (clamp_ttl_for)
    Rank,         \* the queue order: priority, then age
    Filters,      \* bound: the views of the queue requests filter it to
    OccursUntil,  \* tickets.expires_at of a scheduled occurrence, or Never
    ReparentTo,   \* bound: the <<ticket, parent>> pairs PATCH is tried with
    DepEdges,     \* bound: the <<ticket, blocked_by>> pairs add_dep is tried with
    LinkWriters,  \* bound: the tickets whose evidence link is patched
    Archivable,   \* bound: the tickets that are archived and unarchived
    MaxTime,      \* bound: the clock stops here
    MaxFence,     \* bound: no fence grows past this
    MaxLag        \* how stale a request's clock reading can be at its commit

ASSUME TreeAssumption ==
    /\ NoTicket \notin Tickets
    /\ Epics \subseteq Tickets
    /\ Parent0 \in [Tickets -> Tickets \cup {NoTicket}]
    /\ Deps0 \in [Tickets -> SUBSET Tickets]
    /\ State0 \in [Tickets -> States]
    /\ Admins \subseteq Actors
    /\ ReparentTo \subseteq Tickets \X (Tickets \cup {NoTicket})
    /\ DepEdges \subseteq Tickets \X Tickets
    /\ LinkWriters \subseteq Tickets
    /\ Archivable \subseteq Tickets
    /\ OccursUntil \in [Tickets -> Nat \cup {Never}]
    /\ Rank \in [Tickets -> Nat]
    /\ Filters \subseteq SUBSET Tickets

ASSUME BoundAssumption ==
    /\ TTLs \subseteq Nat \ {0}
    /\ MaxTime \in Nat
    /\ MaxFence \in Nat
    /\ MaxLag \in Nat

VARIABLES
    tickets,   \* ticket -> its row
    parent,    \* ticket -> its parent or NoTicket
    deps,      \* ticket -> the tickets it is blocked by
    linked,    \* tickets carrying the evidence link a guard asks for
    archived,  \* tickets with archived_at set
    frozen,    \* the project's archived_at is set
    now,       \* the clock
    movers     \* history: who moved the ticket since its fence was granted

vars == <<tickets, parent, deps, linked, archived, frozen, now, movers>>
tree == <<parent, deps, linked>>

Init ==
    /\ tickets = [t \in Tickets |->
          [state |-> State0[t], holder |-> NoOne, expires |-> Never,
           lapsed |-> NoOne, fence |-> 0]]
    /\ parent = Parent0
    /\ deps = Deps0
    /\ linked = {}
    /\ archived = {}
    /\ frozen = FALSE
    /\ now = 0
    /\ movers = [t \in Tickets |-> {}]

\* The instants a request committing now may have read (now_ms before with_tx).
Sampled == {at \in 0..now : now - at <= MaxLag}

-----------------------------------------------------------------------------
(* The tree and the dependency graph.  Each recursive CTE is the least set  *)
(* that holds its seed and is closed under its step.                        *)

Least(seed, step) ==
    {x \in Tickets : \A C \in SUBSET Tickets :
        (seed \subseteq C /\ \A y \in C : step[y] \subseteq C) => x \in C}

\* Whoever walks on from a ticket never comes back to it.
RingFree(step) == \A t \in Tickets : t \notin Least(step[t], step)

\* A project starts empty, and a ticket is created under a parent and with
\* blockers that are there already: create_ticket needs no cycle check.
ASSUME StartAssumption ==
    RingFree([t \in Tickets |-> {Parent0[t]} \cap Tickets]) /\ RingFree(Deps0)

ParentsOf == [t \in Tickets |-> {parent[t]} \cap Tickets]
Above(t)  == Least(ParentsOf[t], ParentsOf)
Below(t)  == {d \in Tickets : t \in Above(d)}

\* What `t' transitively depends on, itself included: dep_cycle's `reach'.
DependsOn(t) == Least({t}, deps)

Open(b) == tickets[b].state \notin Terminal

\* open_blockers: the edges of the ticket and of every ancestor.
OpenBlockers(t) == {b \in UNION {deps[n] : n \in {t} \cup Above(t)} : Open(b)}

\* eval_guard: direct children and direct dependencies only.
GuardsHolding(t) ==
    {g \in GuardReqs :
        CASE g = "no_open_children" -> \A c \in Tickets : parent[c] = t => ~Open(c)
          [] g = "no_open_blockers" -> \A b \in deps[t] : ~Open(b)
          [] g = "has_link"         -> t \in linked}

ForeignEpicsAbove(t, a, at) ==
    {e \in Above(t) \cap Epics : HeldByOther(tickets[e], a, at)}

\* Mutant of ForeignClaimsBelow: children only, not the subtree.
ForeignClaimsBelow_Children(e, a, at) ==
    {t \in Tickets : parent[t] = e /\ HeldByOther(tickets[t], a, at)}

ForeignClaimsBelow(e, a, at) ==
    {t \in Below(e) : HeldByOther(tickets[t], a, at)}

-----------------------------------------------------------------------------
(* Claiming by id: claim_ticket_tx. *)

\* The TTLs a claim can end up with: only an epic may be held without one.
TTLsFor(t) == IF t \in Epics THEN TTLs \cup {Never} ELSE TTLs

\* The gates a caller without the lease passes, in the store's order.
ClaimGates(t, a, at) ==
    /\ ~Active(tickets[t], at)
    /\ ForeignEpicsAbove(t, a, at) = {}
    /\ tickets[t].state \in Claimable \/ MayResume(tickets[t], a, at)
    /\ OpenBlockers(t) = {}
    /\ t \in Epics => ForeignClaimsBelow(t, a, at) = {}

\* The row a grant writes, expired claim cleared first.
GrantRow(t, a, ttl, at) == Granted(ClearExpired(tickets[t], at), a, Until(ttl, at))

GrantTo(t, a, ttl, at) ==
    /\ tickets[t].fence < MaxFence
    /\ tickets' = [tickets EXCEPT ![t] = GrantRow(t, a, ttl, at)]
    /\ movers' = [movers EXCEPT ![t] = {}]

\* Mutant of Claim: no archive gate.
Claim_Ungated(a, t, ttl, at) ==
    /\ ClaimGates(t, a, at)
    /\ GrantTo(t, a, ttl, at)
    /\ UNCHANGED <<tree, archived, frozen, now>>

Claim(a, t, ttl, at) ==
    /\ ~frozen
    /\ ClaimGates(t, a, at)
    /\ GrantTo(t, a, ttl, at)
    /\ UNCHANGED <<tree, archived, frozen, now>>

\* Claiming what one already holds renews it: same fence, every gate skipped.
\* An epic claimed without a TTL becomes, or stays, indefinite.
Renew(a, t, ttl, at) ==
    /\ ~frozen
    /\ HeldBy(tickets[t], a, at)
    /\ tickets' = [tickets EXCEPT ![t].expires = Until(ttl, at)]
    /\ UNCHANGED <<tree, archived, frozen, now, movers>>

-----------------------------------------------------------------------------
(* The ready queue: ready_ctes, ready_conditions, ready_claim. *)

HeldEpic(n, at) == n \in Epics /\ Active(tickets[n], at)

\* Open dependencies and held epics, carried down the tree.
Blocked(at) ==
    {t \in Tickets : \E n \in {t} \cup Above(t) :
        HeldEpic(n, at) \/ \E b \in deps[n] : Open(b)}

\* Mutant of AboveClaimed: only the parents of claimed tickets.
AboveClaimed_Parents(at) ==
    UNION {ParentsOf[c] : c \in {d \in Tickets : Active(tickets[d], at)}}

AboveClaimed(at) ==
    UNION {Above(c) : c \in {d \in Tickets : Active(tickets[d], at)}}

Ready(at) ==
    {t \in Tickets \ (archived \cup Blocked(at)) :
        /\ ~frozen
        /\ tickets[t].state \in Claimable
        /\ t \in Epics => t \notin AboveClaimed(at)
        /\ tickets[t].holder = NoOne \/ Expired(tickets[t], at)
        /\ OccursUntil[t] = Never \/ OccursUntil[t] > at}

\* Pop and lease the head of the queue as one filter sees it.  Always leased,
\* epics included.
ReadyClaim(a, F, ttl, at) ==
    LET offered == Ready(at) \cap F
    IN  \E t \in offered :
          /\ \A u \in offered : Rank[t] <= Rank[u]
          /\ GrantTo(t, a, ttl, at)
          /\ UNCHANGED <<tree, archived, frozen, now>>

-----------------------------------------------------------------------------
(* Keeping and ending a lease. *)

\* A beat on an expired lease is refused (and its clearing rolled back); a beat
\* on an indefinite epic claim is accepted and writes nothing.
Heartbeat(a, t, echo, ttl, at) ==
    /\ ~frozen
    /\ HeldBy(tickets[t], a, at)
    /\ echo = tickets[t].fence
    /\ tickets[t].expires # Never
    /\ tickets' = [tickets EXCEPT ![t].expires = at + ttl]
    /\ UNCHANGED <<tree, archived, frozen, now, movers>>

\* No archive gate: letting go of a lease is always allowed.
Release(a, t, echo, at) ==
    /\ HeldBy(tickets[t], a, at)
    /\ echo = tickets[t].fence
    /\ tickets' = [tickets EXCEPT ![t] = Released(@)]
    /\ UNCHANGED <<tree, archived, frozen, now, movers>>

\* Lands on an active, an expired and an already swept lease alike.
ForceRelease(a, t) ==
    /\ a \in Admins
    /\ tickets[t].holder # NoOne \/ tickets[t].lapsed # NoOne
    /\ tickets[t].fence < MaxFence
    /\ tickets' = [tickets EXCEPT ![t] = Revoked(@)]
    /\ UNCHANGED <<tree, archived, frozen, now, movers>>

\* Mutant of Sweep: archived projects are skipped.
Sweep_SkipsFrozen(at) ==
    /\ ~frozen
    /\ \E t \in Tickets : Expired(tickets[t], at)
    /\ tickets' = [t \in Tickets |-> ClearExpired(tickets[t], at)]
    /\ UNCHANGED <<tree, archived, frozen, now, movers>>

\* The sweeper's pass over every ticket, those of an archived project included.
Sweep(at) ==
    /\ \E t \in Tickets : Expired(tickets[t], at)
    /\ tickets' = [t \in Tickets |-> ClearExpired(tickets[t], at)]
    /\ UNCHANGED <<tree, archived, frozen, now, movers>>

-----------------------------------------------------------------------------
(* Transitions: Store::transition, block_ticket and start_ticket. *)

MoveTo(t, row, to, a) ==
    /\ tickets' = [tickets EXCEPT ![t] = Moved(row, to, Scopes[a], FALSE)]
    /\ UNCHANGED <<tree, archived, frozen, now>>

\* block_ticket, and start_ticket on a lease the caller holds, are this with
\* the caller's own fence filled in.
Transition(a, t, to, echo, at) ==
    LET row == ClearExpired(tickets[t], at)
    IN  /\ ~frozen
        /\ MayMove(row, to, a, Scopes[a], echo, FALSE, GuardsHolding(t), at)
        /\ MoveTo(t, row, to, a)
        /\ movers' = [movers EXCEPT ![t] = @ \cup {a}]

\* start_ticket without a lease: claim and move in one transaction, so a move
\* that is refused leaves no lease behind.
Start(a, t, to, ttl, at) ==
    LET row == GrantRow(t, a, ttl, at)
    IN  /\ ~frozen
        /\ ClaimGates(t, a, at)
        /\ tickets[t].fence < MaxFence
        /\ MayMove(row, to, a, Scopes[a], row.fence, FALSE, GuardsHolding(t), at)
        /\ MoveTo(t, row, to, a)
        /\ movers' = [movers EXCEPT ![t] = {a}]

-----------------------------------------------------------------------------
(* Other writes under the claim rules. *)

\* patch_ticket clears an expired claim first, then asks for the fence.
PatchRow(t, a, echo, at) ==
    /\ ~frozen
    /\ FenceAccepted(tickets[t], a, echo, at)
    /\ tickets' = [tickets EXCEPT ![t] = ClearExpired(@, at)]

\* The parent may not be the ticket or below it; nothing asks who holds either.
Reparent(a, t, p, echo, at) ==
    /\ PatchRow(t, a, echo, at)
    /\ p # t /\ (p \in Tickets => t \notin Above(p))
    /\ parent' = [parent EXCEPT ![t] = p]
    /\ UNCHANGED <<deps, linked, archived, frozen, now, movers>>

PatchLink(a, t, echo, at) ==
    /\ PatchRow(t, a, echo, at)
    /\ \/ linked' = linked \cup {t}
       \/ linked' = linked \ {t}
    /\ UNCHANGED <<parent, deps, archived, frozen, now, movers>>

\* Mutant of AddDep: only a direct dependency back is refused.
AddDep_Direct(a, t, b, echo, at) ==
    /\ ~frozen
    /\ FenceAccepted(tickets[t], a, echo, at)
    /\ t # b /\ t \notin deps[b]
    /\ deps' = [deps EXCEPT ![t] = @ \cup {b}]
    /\ UNCHANGED <<tickets, parent, linked, archived, frozen, now, movers>>

\* dep_cycle looks at dependency edges only.
AddDep(a, t, b, echo, at) ==
    /\ ~frozen
    /\ FenceAccepted(tickets[t], a, echo, at)
    /\ t \notin DependsOn(b)
    /\ deps' = [deps EXCEPT ![t] = @ \cup {b}]
    /\ UNCHANGED <<tickets, parent, linked, archived, frozen, now, movers>>

RemoveDep(a, t, b, echo, at) ==
    /\ ~frozen
    /\ FenceAccepted(tickets[t], a, echo, at)
    /\ b \in deps[t]
    /\ deps' = [deps EXCEPT ![t] = @ \ {b}]
    /\ UNCHANGED <<tickets, parent, linked, archived, frozen, now, movers>>

\* Neither asks for a lease or a fence.
ArchiveTicket(t) ==
    /\ ~frozen /\ t \notin archived
    /\ archived' = archived \cup {t}
    /\ UNCHANGED <<tickets, tree, frozen, now, movers>>

UnarchiveTicket(t) ==
    /\ ~frozen /\ t \in archived
    /\ archived' = archived \ {t}
    /\ UNCHANGED <<tickets, tree, frozen, now, movers>>

\* set_project_archived: refused under an active claim unless forced, and then
\* each is revoked.  An expired claim is neither an obstacle nor revoked.
ArchiveProject(a, force, at) ==
    LET claimed == {t \in Tickets : Active(tickets[t], at)}
    IN  /\ a \in Admins
        /\ ~frozen
        /\ force \/ claimed = {}
        /\ \A t \in claimed : tickets[t].fence < MaxFence
        /\ tickets' = [t \in Tickets |->
              IF t \in claimed THEN Revoked(tickets[t]) ELSE tickets[t]]
        /\ frozen' = TRUE
        /\ UNCHANGED <<tree, archived, now, movers>>

UnarchiveProject(a) ==
    /\ a \in Admins
    /\ frozen
    /\ frozen' = FALSE
    /\ UNCHANGED <<tickets, tree, archived, now, movers>>

Tick ==
    /\ now < MaxTime
    /\ now' = now + 1
    /\ UNCHANGED <<tickets, tree, archived, frozen, movers>>

-----------------------------------------------------------------------------
\* The fences a caller may echo: any number up to one never issued, or none.
Echoes == 0..(MaxFence + 1) \cup {NoEcho}

LeaseStep(at) ==
    \E a \in Actors, t \in Tickets :
        \/ \E ttl \in TTLsFor(t) : Claim(a, t, ttl, at) \/ Renew(a, t, ttl, at)
        \/ \E ttl \in TTLs, echo \in Echoes : Heartbeat(a, t, echo, ttl, at)
        \/ \E echo \in Echoes : Release(a, t, echo, at)

MoveStep(at) ==
    \E a \in Actors, t \in Tickets, to \in States :
        \/ \E echo \in Echoes : Transition(a, t, to, echo, at)
        \/ \E ttl \in TTLsFor(t) : Start(a, t, to, ttl, at)

PatchStep(at) ==
    \E a \in Actors, echo \in Echoes :
        \/ \E pair \in ReparentTo : Reparent(a, pair[1], pair[2], echo, at)
        \/ \E pair \in DepEdges   : AddDep(a, pair[1], pair[2], echo, at)
        \/ \E pair \in DepEdges   : RemoveDep(a, pair[1], pair[2], echo, at)
        \/ \E t \in LinkWriters   : PatchLink(a, t, echo, at)

Next ==
    \/ Tick
    \/ \E at \in Sampled :
          \/ LeaseStep(at)
          \/ MoveStep(at)
          \/ PatchStep(at)
          \/ \E a \in Actors, F \in Filters, ttl \in TTLs : ReadyClaim(a, F, ttl, at)
          \/ \E a \in Actors, force \in BOOLEAN : ArchiveProject(a, force, at)
          \/ Sweep(at)
    \/ \E a \in Actors, t \in Tickets : ForceRelease(a, t)
    \/ \E t \in Archivable : ArchiveTicket(t) \/ UnarchiveTicket(t)
    \/ \E a \in Actors : UnarchiveProject(a)

\* The sweeper runs every tick of its interval for as long as the server does;
\* no caller owes the store another request.
Fairness == WF_vars(Tick) /\ WF_vars(Sweep(now))

Spec == Init /\ [][Next]_vars /\ Fairness
-----------------------------------------------------------------------------
(* Properties. *)

\* Every variable keeps to its type.
TypeOK ==
    /\ tickets \in [Tickets -> Row]
    /\ parent \in [Tickets -> Tickets \cup {NoTicket}]
    /\ deps \in [Tickets -> SUBSET Tickets]
    /\ linked \subseteq Tickets
    /\ archived \subseteq Tickets
    /\ frozen \in BOOLEAN
    /\ now \in Nat
    /\ movers \in [Tickets -> SUBSET (Actors \cup {System})]

\* The claim columns agree with each other: no expiry without a holder, no
\* lapsed holder beside a recorded one (the row would answer to two actors), and
\* a claim that never expires only ever on an epic.
LeaseShape ==
    \A t \in Tickets : LET tk == tickets[t] IN
        /\ tk.holder = NoOne => tk.expires = Never
        /\ tk.holder # NoOne => tk.lapsed = NoOne
        /\ tk.holder # NoOne /\ tk.expires = Never => t \in Epics

\* While a lease is active nobody but its holder has moved the ticket since it
\* was granted, however the moves, expiries, echoes and late clocks interleave:
\* the exclusive claimant the module comment of claims.rs promises.
OnlyHolderMoves ==
    \A t \in Tickets : Active(tickets[t], now) => movers[t] \subseteq {tickets[t].holder}

\* A ticket in a done or cancelled state holds no claim, so a finished epic
\* cannot stay locked: entry releases, and as long as such states are terminal no
\* way of claiming leads back in.
EndedUnheld ==
    \A t \in Tickets : tickets[t].state \in EndStates => tickets[t].holder = NoOne

\* Archiving a project strands no worker mid-lease, and nothing grants or
\* revives a lease until it is unarchived.
FrozenUnheld ==
    frozen => \A t \in Tickets : ~Active(tickets[t], now)

\* What rests is held by nobody, whatever order moves, expiries, claims and
\* archiving came in: neither a finished ticket nor one of a frozen project.
RestingUnheld == EndedUnheld /\ FrozenUnheld

\* An active claim on an epic reserves everything beneath it: no ticket under
\* it is at the same time claimed by someone else.
EpicReserved ==
    \A t \in Tickets : \A e \in Above(t) \cap Epics :
        Active(tickets[e], now) /\ Active(tickets[t], now)
            => tickets[e].holder = tickets[t].holder

\* The queue never hands out what claim-by-id would refuse: two pieces of code,
\* a SQL predicate and a chain of gates, that must not drift apart.
QueueIsHonest ==
    \A t \in Ready(now) : ~frozen /\ \A a \in Actors : ClaimGates(t, a, now)

\* No sequence of legal edits closes a ring: PATCH none of parents.
TreeAcyclic == \A t \in Tickets : t \notin Above(t)

\* And add_dep none of dependencies.
DepsAcyclic == \A t \in Tickets : \A b \in deps[t] : t \notin DependsOn(b)

\* Ancestors and blockers can be walked: claims, queue and epics do.
NoRings == TreeAcyclic /\ DepsAcyclic

\* No ticket waits, directly or transitively, for itself to finish, counting the
\* dependencies it inherits from its ancestors as claiming and the queue do.
NoTicketWaitsOnItself ==
    LET waits == [t \in Tickets |-> OpenBlockers(t)]
    IN  \A t \in Tickets : t \notin Least(waits[t], waits)

\* An expired claim row is eventually cleared or renewed with nobody calling, on
\* a frozen project too: its lapse is announced and its holder recorded.
ExpiryIsNoticed ==
    \A t \in Tickets : Expired(tickets[t], now) ~> ~Expired(tickets[t], now)
-----------------------------------------------------------------------------
(* The abstract lease each ticket implements. *)

\* Its time is up, and a request that read the clock before may still commit.
Late(t) == ~Active(tickets[t], now) /\ \E at \in Sampled : Active(tickets[t], at)

Phase(t) ==
    IF Active(tickets[t], now) THEN "held"
    ELSE IF Late(t) THEN "late"
    ELSE IF LapsedHolder(tickets[t], now) # NoOne THEN "lapsed" ELSE "free"

Owner(t) == IF Active(tickets[t], now) THEN tickets[t].holder ELSE LapsedHolder(tickets[t], now)

Lease == INSTANCE FencedLease WITH
    Leases <- Tickets, Owners <- Actors, Nobody <- NoOne,
    phase <- [t \in Tickets |-> Phase(t)],
    owner <- [t \in Tickets |-> Owner(t)],
    token <- [t \in Tickets |-> tickets[t].fence]

\* Every ticket is a fenced lease: read through the clock, its columns take
\* exactly the steps FencedLease allows, whichever requests interleave and
\* however late they commit.  A request with an old reading can keep a lease
\* whose time is up, but only its owner's can, for no longer than requests lag,
\* and not once the row was cleared or granted again.
LeaseRefined == Lease!Spec

\* Two tickets with two holders.
Clash(e, t) ==
    /\ Active(tickets[e], now) /\ Active(tickets[t], now)
    /\ tickets[e].holder # tickets[t].holder

\* A claim on an epic keeps everybody else out of everything beneath it, and is
\* not given while somebody is in there, on whatever clock reading and however
\* the tree was rewired before: nobody comes to hold one of two such tickets
\* beside another holder of the other, but by keeping a late lease of his own.
ReservationsKept ==
    [][\A e \in Epics, t \in Tickets :
          Clash(e, t)' /\ e \in Above(t)' =>
              Clash(e, t) \/ Lease!Rescue(e) \/ Lease!Rescue(t)]_vars
=============================================================================
