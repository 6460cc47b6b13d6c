---------------------------- MODULE TicketRules ----------------------------
(***************************************************************************)
(* The rules one ticket row obeys: what makes a claim active, what expiry, *)
(* a grant or a release writes, and when a transition is accepted.  No     *)
(* variables: every operator is a function of a row (`tk'), an instant     *)
(* (`at') and a caller, exactly as the store's helpers are functions of a  *)
(* row read inside a write transaction.  Claims and AskHuman both build    *)
(* their handlers from these.                                              *)
(***************************************************************************)
EXTENDS Integers

CONSTANTS
    Actors,     \* identities that call the store (a token's actor)
    NoOne,      \* NULL in claim_holder and lapsed_claim_holder
    Never,      \* NULL in claim_expires_at: no expiry, or no claim at all
    NoEcho,     \* the request carried no "fence"
    System,     \* the identity the sweepers write under
    States,     \* states of the project's workflow
    Category,   \* state -> todo | in_progress | blocked | review | done | cancelled
    Claimable,  \* states the ready queue serves
    Terminal,   \* states that end the lifecycle
    Edges,      \* transitions: [from, to, requires]
    Scopes      \* actor -> the scope requirements its token satisfies

Categories == {"todo", "in_progress", "blocked", "review", "done", "cancelled"}

\* Requirement::parse: `claim', `scope:<s>' and `guard:<id>'.  "human" is the
\* one scope the transition code treats specially; any other scope is "scope".
ScopeReqs    == {"human", "scope"}
GuardReqs    == {"no_open_children", "no_open_blockers", "has_link"}
Requirements == {"claim"} \cup ScopeReqs \cup GuardReqs

EndCategories == {"done", "cancelled"}
EndStates     == {s \in States : Category[s] \in EndCategories}

\* What Workflow::validate demands of an accepted workflow, as far as claims
\* depend on it.
ASSUME WorkflowAssumption ==
    /\ Category \in [States -> Categories]
    /\ Claimable \subseteq States
    /\ Terminal \subseteq States
    /\ Claimable \cap Terminal = {}
    /\ Claimable \cap EndStates = {}
    /\ Edges \subseteq [from : States \ Terminal, to : States, requires : SUBSET Requirements]

ASSUME CallerAssumption ==
    /\ NoOne \notin Actors
    /\ System \notin Actors
    /\ Never \notin Int
    /\ NoEcho \notin Int
    /\ Scopes \in [Actors -> SUBSET ScopeReqs]

\* The claim-relevant columns of a row of `tickets'.
Row == [state   : States,
        holder  : Actors \cup {NoOne},
        expires : Nat \cup {Never},
        lapsed  : Actors \cup {NoOne},
        fence   : Nat]

-----------------------------------------------------------------------------
(* Reading a row. *)

\* Ticket::active_claim: an expired lease reads as unclaimed, a claim without
\* an expiry never ends by itself.
TimeUp(tk, at)  == tk.expires # Never /\ tk.expires <= at
Active(tk, at)  == tk.holder # NoOne /\ ~TimeUp(tk, at)

\* Mutant of HeldBy: the recorded holder, whatever the time.
HeldBy_Recorded(tk, a, at) == tk.holder = a

HeldBy(tk, a, at)      == Active(tk, at) /\ tk.holder = a
HeldByOther(tk, a, at) == Active(tk, at) /\ tk.holder # a

\* The claim row is still there although its time has passed.
Expired(tk, at) == tk.holder # NoOne /\ TimeUp(tk, at)

\* Ticket::lapsed_holder: one fact with two sources, before and after the sweep.
LapsedHolder(tk, at) ==
    IF Expired(tk, at) THEN tk.holder
    ELSE IF tk.holder = NoOne THEN tk.lapsed ELSE NoOne

\* may_resume_lapsed_lease: the way back into a state nobody can claim.
MayResume(tk, a, at) ==
    /\ tk.state \notin Claimable
    /\ tk.state \notin Terminal
    /\ Category[tk.state] # "blocked"
    /\ LapsedHolder(tk, at) = a

-----------------------------------------------------------------------------
(* Writing a row. *)

Dropped(tk) == [tk EXCEPT !.holder = NoOne, !.expires = Never]

\* clear_expired_claim: the holder becomes the lapsed holder, the fence stays.
ClearExpired(tk, at) ==
    IF Expired(tk, at) THEN [Dropped(tk) EXCEPT !.lapsed = tk.holder] ELSE tk

\* grant_claim
Granted(tk, a, until) ==
    [tk EXCEPT !.fence = @ + 1, !.holder = a, !.expires = until, !.lapsed = NoOne]

\* Store::release, and force_release on top of it.
Released(tk) == [Dropped(tk) EXCEPT !.lapsed = NoOne]
Revoked(tk)  == [Released(tk) EXCEPT !.fence = @ + 1]

\* now + ttl * 1000, or NULL for a claim taken without a TTL.
Until(ttl, at) == IF ttl = Never THEN Never ELSE at + ttl

\* Mutant of FenceAccepted: the token is compared, the holder is not.
FenceAccepted_AnyActor(tk, a, echo, at) ==
    IF Active(tk, at) THEN echo = tk.fence ELSE echo \in {NoEcho, tk.fence}

\* check_fence_for_write, on a row whose expired claim has been cleared or
\* reads as inactive: the holder must echo the current fence, and an echo on an
\* unclaimed ticket must still be current.
FenceAccepted(tk, a, echo, at) ==
    IF Active(tk, at) THEN tk.holder = a /\ echo = tk.fence
    ELSE echo \in {NoEcho, tk.fence}

-----------------------------------------------------------------------------
(* apply_transition. *)

Candidates(s, to) == {e \in Edges : e.from = s /\ e.to = to}

ScopesMet(e, sc) == e.requires \cap ScopeReqs \subseteq sc

\* A scope:human edge the caller is authorised for overrides the holder lock.
HumanAuthoritative(s, to, sc) ==
    \E e \in Candidates(s, to) : "human" \in e.requires /\ ScopesMet(e, sc)

\* One edge whose requirements all hold is enough.  `guards' are the guards
\* that hold for the ticket now; `park' is MoveKind::ParkForQuestion.
EdgeOpen(e, sc, holds, park, guards) ==
    /\ ScopesMet(e, sc)
    /\ "claim" \in e.requires => holds \/ park
    /\ e.requires \cap GuardReqs \subseteq guards

\* `row' has had an expired claim cleared already, so recorded means active.
MayMove(row, to, a, sc, echo, park, guards, at) ==
    /\ HumanAuthoritative(row.state, to, sc) \/ FenceAccepted(row, a, echo, at)
    /\ \E e \in Candidates(row.state, to) :
          EdgeOpen(e, sc, row.holder = a, park, guards)

\* An active claim is dropped by a park, by a human decision and by entering a
\* done or cancelled state.  The lapsed marker and the fence stay as they are.
Moved(row, to, sc, park) ==
    LET ends == park \/ HumanAuthoritative(row.state, to, sc) \/ to \in EndStates
    IN  [(IF ends THEN Dropped(row) ELSE row) EXCEPT !.state = to]
=============================================================================
