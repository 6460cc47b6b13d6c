------------------------------ MODULE AskHuman ------------------------------
(***************************************************************************)
(* Ask a human: the questions on a project's tickets, the answers that     *)
(* resume them, the links that let an outsider answer one, and the sweeper *)
(* that applies `on_timeout' (src/store/questions.rs, answer_grants.rs and *)
(* the handlers of src/api/questions.rs).  Composed with every step of     *)
(* Claims: questions park and move the very tickets that agents claim.     *)
(*                                                                         *)
(* As in Claims an accepted request is one transaction and one step.  Two  *)
(* things are not: minting a link checks the question before the write     *)
(* transaction (MintCheck, MintInsert), and the sweeper lists what is due  *)
(* in one read and then settles each in a transaction of its own (ListDue, *)
(* then one Expire step per question).                                     *)
(***************************************************************************)
EXTENDS Claims

CONSTANTS
    Questions,   \* ids of the questions that may be asked
    About,       \* question -> its ticket
    Forms,       \* bound: question -> the requests it may be asked with
    NoForm,      \* not asked yet
    NoState,     \* NULL in questions.resolved_to
    Tagged,      \* questions asked with expertise tags
    Experts,     \* actors whose token holds the matching expert:<tag> scope
    Assignable,  \* people a question may be addressed to
    Askers,      \* bound: the actors that ask
    Relayers,    \* tokens with the answer:relay scope
    Links,       \* ids of the answer links that may be minted
    MinWindow,   \* MIN_RECOMMENDED_TIMEOUT_SECS
    MaxReopens   \* bound: how often one question is reopened

\* A request to ask; kind matters only as far as it is `approve' or not, and
\* `none' is also what `recommended' without a recommendation comes to.
Form == [mode : {"blocking", "advisory"}, approve : BOOLEAN,
         onTimeout : {"none", "escalate", "recommended", "cancel"},
         window : Nat \cup {Never}]

ASSUME AskAssumption ==
    /\ About \in [Questions -> Tickets]
    /\ Forms \in [Questions -> SUBSET Form]
    /\ NoForm \notin Form
    /\ NoState \notin States
    /\ Tagged \subseteq Questions
    /\ Experts \cup Assignable \cup Askers \cup Relayers \subseteq Actors
    /\ MinWindow \in Nat
    /\ MaxReopens \in Nat

VARIABLES
    asks,    \* question -> its row
    links,   \* link -> its row in answer_grants
    due,     \* what the running pass of the sweeper has listed, not yet settled
    pass     \* the clock reading that pass started with

qvars == <<asks, links, due, pass>>
sweep == <<due, pass>>
askVars == <<tickets, parent, deps, linked, archived, frozen, now, movers, asks, links, due, pass>>

\* `by' is who stands behind the answer (a link's answer: whoever minted it) and
\* `cycle' counts the reopenings; the rest are columns.
Question == [status     : {"unasked", "open", "answered", "withdrawn", "expired"},
             form       : Form \cup {NoForm},
             askedBy    : Actors \cup {NoOne},
             tagged     : BOOLEAN,
             assignee   : Actors \cup {NoOne},
             expires    : Nat \cup {Never},
             resolvedTo : States \cup {NoState},
             by         : Actors \cup {NoOne, System},
             cycle      : Nat]

\* `user' is the person a link was minted for, `cycle' when it was inserted.
Link == [status : {"unminted", "checked", "live", "spent", "revoked"},
         about  : Questions \cup {NoForm},
         user   : Actors \cup {NoOne},
         minter : Actors \cup {NoOne},
         cycle  : Nat]

AskInit ==
    /\ Init
    /\ asks = [q \in Questions |->
          [status |-> "unasked", form |-> NoForm, askedBy |-> NoOne, tagged |-> q \in Tagged,
           assignee |-> NoOne, expires |-> Never, resolvedTo |-> NoState, by |-> NoOne,
           cycle |-> 0]]
    /\ links = [l \in Links |->
          [status |-> "unminted", about |-> NoForm, user |-> NoOne, minter |-> NoOne, cycle |-> 0]]
    /\ due = {}
    /\ pass = 0

Asked(q)        == asks[q].status # "unasked"
IsOpen(q)       == asks[q].status = "open"
OpenBlocking(t) == {q \in Questions : IsOpen(q) /\ About[q] = t /\ asks[q].form.mode = "blocking"}

Parked(row) == Category[row.state] = "blocked"

\* Columns that no question handler writes.
Elsewhere == <<tree, archived, frozen, now>>

\* Mutant of Revoking: an answered question's links are left alone.
Revoking_OpenOnly(S) == [l \in Links |->
    IF links[l].status = "live" /\ links[l].about \in {q \in S : IsOpen(q)}
        THEN [links[l] EXCEPT !.status = "revoked"] ELSE links[l]]

\* revoke_open_grants_for_question
Revoking(S) == [l \in Links |->
    IF links[l].status = "live" /\ links[l].about \in S
        THEN [links[l] EXCEPT !.status = "revoked"] ELSE links[l]]

-----------------------------------------------------------------------------
(* Choosing an edge: park_target, ensure_edge_answerable, resume_target. *)

Exits(s) == {e \in Edges : e.from = s}

ParkTargets(s) == {e.to : e \in {x \in Exits(s) :
    Category[x.to] = "blocked" /\ x.requires \subseteq {"claim"}}}

\* Scopes met, no claim, no guard: nobody holds a lease while answering.
Answerable(e, sc) == e.requires \subseteq sc

HumanGated(s) == {e \in Exits(s) : "human" \in e.requires}

\* Where no exit is human-gated the answer may use any other that un-sticks the
\* ticket; a gate that exists is never routed around.
Carriers(s, sc) ==
    LET gated == HumanGated(s)
        free  == {e \in Exits(s) : e.to \notin Terminal /\ Category[e.to] # "blocked"}
    IN  {e.to : e \in {x \in IF gated = {} THEN free ELSE gated : Answerable(x, sc)}}

\* A queue state first, then any claimable one, then any.  Within a class the
\* code takes the first edge of the file; here, any.
Preferred(S) ==
    LET claimable == S \cap Claimable
        queue     == {s \in claimable : Category[s] = "todo"}
    IN  IF queue # {} THEN queue ELSE IF claimable # {} THEN claimable ELSE S

\* Mutant of MayCarry: the archive gate is only where requests come in.
MayCarry_Ungated(t, row, to, who, sc, at) ==
    MayMove(row, to, who, sc, NoEcho, FALSE, GuardsHolding(t), at)

\* question_transition: apply_transition as an ordinary move, no fence to echo,
\* refused like any other on an archived project or under another's lease.
MayCarry(t, row, to, who, sc, at) ==
    ~frozen /\ MayMove(row, to, who, sc, NoEcho, FALSE, GuardsHolding(t), at)

\* Mutant of ClearsBarrier: any blocking answer resumes.
ClearsBarrier_Any(q, row) == asks[q].form.mode = "blocking" /\ Parked(row)

\* The barrier: a blocking question, a parked ticket, no other blocking one open.
ClearsBarrier(q, row) ==
    /\ asks[q].form.mode = "blocking"
    /\ Parked(row)
    /\ OpenBlocking(About[q]) \subseteq {q}

\* Where an answer may take the ticket, NoState being nowhere.  An explicit
\* `resume_to' is strict (no outcome: refused), an automatic one best-effort.
Outcomes(q, row, want, who, sc, at) ==
    LET t     == About[q]
        picks == Preferred(Carriers(row.state, sc))
    IN  IF ~ClearsBarrier(q, row) THEN {NoState}
        ELSE IF want # NoState
            THEN {to \in {want} : /\ \E e \in Candidates(row.state, to) : Answerable(e, sc)
                                  /\ MayCarry(t, row, to, who, sc, at)}
        ELSE IF picks = {} THEN {NoState}
        ELSE {IF MayCarry(t, row, to, who, sc, at) THEN to ELSE NoState : to \in picks}

\* The ticket's part of a resume (or of none), expired claim cleared first.
Carry(t, row, to, who, sc) ==
    /\ tickets' = [tickets EXCEPT ![t] = IF to = NoState THEN row ELSE Moved(row, to, sc, FALSE)]
    /\ movers' = [movers EXCEPT ![t] = IF to = NoState THEN @ ELSE @ \cup {who}]

-----------------------------------------------------------------------------
(* Asking. *)

\* Mutant of Acceptable: an approval may be left to the clock.
Acceptable_ClockApproves(q, form, person) ==
    /\ form.mode = "advisory" => form.onTimeout # "cancel"
    /\ form.approve => q \in Tagged \/ person # NoOne

\* The validation in front of the transaction.
Acceptable(q, form, person) ==
    /\ form.mode = "advisory" => form.onTimeout # "cancel"
    /\ form.approve => (q \in Tagged \/ person # NoOne) /\ form.onTimeout # "recommended"
    /\ form.mode = "blocking" /\ form.onTimeout = "recommended"
          => form.window # Never /\ form.window >= MinWindow

\* Park through an unscoped edge, or, on a ticket already in a blocked state,
\* let go of the lease.  Either way the lease is handed back.
Park(t, row, a, echo, at) ==
    /\ FenceAccepted(row, a, echo, at)
    /\ \/ /\ ~Parked(row)
          /\ \E to \in ParkTargets(row.state) :
                /\ MayMove(row, to, a, {}, echo, TRUE, GuardsHolding(t), at)
                /\ tickets' = [tickets EXCEPT ![t] = Moved(row, to, {}, TRUE)]
                /\ movers' = [movers EXCEPT ![t] = @ \cup {a}]
       \/ /\ Parked(row)
          /\ tickets' = [tickets EXCEPT ![t] = Dropped(row)]
          /\ UNCHANGED movers

Ask(a, q, form, person, echo, at) ==
    LET t == About[q]
        row == ClearExpired(tickets[t], at)
    IN  /\ asks[q].status = "unasked"
        /\ Acceptable(q, form, person)
        /\ ~frozen
        /\ \/ form.mode = "blocking" /\ Park(t, row, a, echo, at)
           \/ /\ form.mode = "advisory"
              /\ tickets' = [tickets EXCEPT ![t] = row]
              /\ UNCHANGED movers
        /\ asks' = [asks EXCEPT ![q] =
              [@ EXCEPT !.status = "open", !.form = form, !.askedBy = a, !.assignee = person,
                        !.expires = Until(form.window, at)]]
        /\ UNCHANGED <<Elsewhere, links, sweep>>

\* A re-sent ask finds the open question and returns it: all that is committed
\* is the clearing of an expired claim.
AskAgain(a, q, echo, at) ==
    LET t == About[q]
        row == ClearExpired(tickets[t], at)
    IN  /\ IsOpen(q) /\ asks[q].askedBy = a
        /\ ~frozen
        /\ asks[q].form.mode = "blocking" => FenceAccepted(row, a, echo, at)
        /\ tickets' = [tickets EXCEPT ![t] = row]
        /\ UNCHANGED <<Elsewhere, movers, qvars>>

\* assign_question
Assign(q, person) ==
    /\ ~frozen
    /\ IsOpen(q)
    /\ asks' = [asks EXCEPT ![q].assignee = person]
    /\ UNCHANGED <<Elsewhere, tickets, movers, links, sweep>>

Withdraw(q) ==
    /\ ~frozen
    /\ IsOpen(q)
    /\ asks' = [asks EXCEPT ![q].status = "withdrawn"]
    /\ links' = Revoking({q})
    /\ UNCHANGED <<Elsewhere, tickets, movers, sweep>>

-----------------------------------------------------------------------------
(* Answering. *)

\* may_approve: the domain scope, or being the person it is addressed to.
MayApprove(q, expert, person) ==
    \/ asks[q].tagged /\ expert
    \/ person # NoOne /\ asks[q].assignee = person

Settled(q, to, by) ==
    [asks EXCEPT ![q] = [@ EXCEPT !.status = "answered", !.resolvedTo = to, !.by = by]]

\* answer_question_inner after its own refusals.
Record(q, want, who, sc, at) ==
    LET row == ClearExpired(tickets[About[q]], at)
    IN  /\ ~frozen
        /\ \E to \in Outcomes(q, row, want, who, sc, at) :
              /\ Carry(About[q], row, to, who, sc)
              /\ asks' = Settled(q, to, who)
        /\ UNCHANGED <<Elsewhere, sweep>>

AnswerDirect(a, q, want, at) ==
    /\ IsOpen(q)
    /\ "human" \in Scopes[a]
    /\ asks[q].form.approve => MayApprove(q, a \in Experts, a)
    /\ Record(q, want, a, Scopes[a], at)
    /\ links' = Revoking({q})

\* An agent writes down what the human `n' decided.
AnswerRelayed(r, n, q, want, at) ==
    /\ IsOpen(q)
    /\ r \in Relayers /\ "human" \notin Scopes[r]
    /\ asks[q].askedBy # r
    /\ ~asks[q].form.approve
    /\ Record(q, want, n, Scopes[r] \cup {"human"}, at)
    /\ links' = Revoking({q})

\* The grant is spent first, in the same transaction.  It carries `human', the
\* question's own expertise and the person it was minted for.
AnswerByLink(l, want, at) ==
    LET q == links[l].about
    IN  /\ links[l].status = "live"
        /\ IsOpen(q)
        /\ asks[q].form.approve => MayApprove(q, TRUE, links[l].user)
        /\ Record(q, want, links[l].minter, {"human"}, at)
        /\ links' = [Revoking({q}) EXCEPT ![l].status = "spent"]

\* reopen_question.  The reversal of a resume asks that nothing relies on it;
\* an answer that resumed nothing is taken back without a look at the ticket.
Reopen(a, q, at) ==
    LET t == About[q]
        row == ClearExpired(tickets[t], at)
        target == asks[q].resolvedTo
    IN  /\ "human" \in Scopes[a]
        /\ ~frozen
        /\ asks[q].status = "answered"
        /\ asks[q].cycle < MaxReopens
        /\ asks[q].form.approve => MayApprove(q, a \in Experts, a)
        /\ \/ /\ target # NoState
              /\ t \notin archived
              /\ row.holder = NoOne
              /\ row.state = target
              /\ \E s \in States :
                    /\ Category[s] = "blocked"
                    /\ tickets' = [tickets EXCEPT ![t] = [row EXCEPT !.state = s]]
           \/ /\ target = NoState
              /\ tickets' = [tickets EXCEPT ![t] = row]
        /\ asks' = [asks EXCEPT ![q] =
              [@ EXCEPT !.status = "open", !.resolvedTo = NoState, !.by = NoOne,
                        !.cycle = asks[q].cycle + 1]]
        /\ links' = Revoking({q})
        /\ UNCHANGED <<Elsewhere, movers, sweep>>

-----------------------------------------------------------------------------
(* Answer links: mint_answer_link, create_answer_grant, revoke_link. *)

\* The checks, made on a read before the transaction.
MintCheck(a, l, q) ==
    /\ "human" \in Scopes[a]
    /\ links[l].status = "unminted"
    /\ IsOpen(q)
    /\ asks[q].form.approve => MayApprove(q, a \in Experts, a)
    /\ links' = [links EXCEPT ![l] = [@ EXCEPT
          !.status = "checked", !.about = q, !.user = asks[q].assignee, !.minter = a]]
    /\ UNCHANGED <<vars, asks, sweep>>

\* The insert looks at nothing but the project.
MintInsert(l) ==
    /\ links[l].status = "checked"
    /\ ~frozen
    /\ links' = [links EXCEPT ![l] = [@ EXCEPT
          !.status = "live", !.cycle = asks[links[l].about].cycle]]
    /\ UNCHANGED <<vars, asks, sweep>>

RevokeLink(a, l) ==
    /\ "human" \in Scopes[a]
    /\ links[l].status \in {"live", "spent"}
    /\ a = links[l].minter \/ a \in Admins
    /\ links' = [links EXCEPT ![l].status = "revoked"]
    /\ UNCHANGED <<vars, asks, sweep>>

-----------------------------------------------------------------------------
(* The expiry sweep. *)

Due(q, at) == IsOpen(q) /\ asks[q].expires # Never /\ asks[q].expires <= at

\* sweep_expired_questions: the archive gate is this query's, at this instant.
ListDue(at) ==
    /\ due = {}
    /\ ~frozen
    /\ due' = {q \in Questions : Due(q, at)}
    /\ due' # {}
    /\ pass' = at
    /\ UNCHANGED <<vars, asks, links>>

\* expire_one_question on a question that is no longer due.
Skip(q, at) ==
    /\ ~Due(q, at)
    /\ UNCHANGED <<vars, asks, links>>

Escalate(q, at) ==
    /\ Due(q, at) /\ asks[q].form.onTimeout = "escalate"
    /\ asks' = [asks EXCEPT ![q] = [@ EXCEPT !.tagged = FALSE, !.expires = Never]]
    /\ UNCHANGED <<vars, links>>

\* expire_with_recommendation: `system' answers, with `human' implied.
Recommend(q, at) ==
    LET row == ClearExpired(tickets[About[q]], at)
    IN  /\ Due(q, at) /\ asks[q].form.onTimeout = "recommended"
        /\ \E to \in Outcomes(q, row, NoState, System, {"human"}, at) :
              /\ Carry(About[q], row, to, System, {"human"})
              /\ asks' = Settled(q, to, System)
        /\ links' = Revoking({q})
        /\ UNCHANGED Elsewhere

Flag(S) == [q \in Questions |-> IF q \in S THEN [asks[q] EXCEPT !.status = "expired"] ELSE asks[q]]

\* Mutant of CancelTargets: only the scopes of the edge are looked at.
CancelTargets_ScopesOnly(t) ==
    {e.to : e \in {x \in Exits(tickets[t].state) :
        Category[x.to] = "cancelled" /\ ScopesMet(x, {"human"})}}

\* Targets of expire_and_cancel, whatever state the ticket is in by now.
CancelTargets(t) ==
    {e.to : e \in {x \in Exits(tickets[t].state) :
        Category[x.to] = "cancelled" /\ Answerable(x, {"human"})}}

\* The siblings of a cancelled ticket's question expire with it; only the
\* question's own links are revoked.
Cancel(q, at) ==
    LET t == About[q]
        row == ClearExpired(tickets[t], at)
        siblings == {r \in Questions : IsOpen(r) /\ About[r] = t}
    IN  /\ Due(q, at) /\ asks[q].form.onTimeout = "cancel"
        /\ links' = Revoking({q})
        /\ \/ /\ CancelTargets(t) = {}
              /\ asks' = Flag({q})
              /\ UNCHANGED <<tickets, movers>>
           \/ \E to \in CancelTargets(t) :
              /\ MayCarry(t, row, to, System, {"human"}, at)
              /\ Carry(t, row, to, System, {"human"})
              /\ asks' = Flag(siblings)
        /\ UNCHANGED Elsewhere

\* A refused move is an error, and an error rolls the expiry back with it.
Refused(q, at) ==
    LET t == About[q]
        row == ClearExpired(tickets[t], at)
    IN  /\ Due(q, at) /\ asks[q].form.onTimeout = "cancel"
        /\ \E to \in CancelTargets(t) : ~MayCarry(t, row, to, System, {"human"}, at)
        /\ UNCHANGED <<vars, asks, links>>

FlagExpired(q, at) ==
    /\ Due(q, at) /\ asks[q].form.onTimeout = "none"
    /\ asks' = Flag({q})
    /\ links' = Revoking({q})
    /\ UNCHANGED vars

\* Every question of a pass is judged by the clock the pass started with.
Expire(q) ==
    /\ q \in due
    /\ due' = due \ {q}
    /\ pass' = IF due' = {} THEN 0 ELSE pass
    /\ \/ Skip(q, pass)
       \/ Escalate(q, pass)
       \/ Recommend(q, pass)
       \/ Cancel(q, pass)
       \/ Refused(q, pass)
       \/ FlagExpired(q, pass)

-----------------------------------------------------------------------------
AskStep(at) ==
    \E q \in Questions :
        \/ \E a \in Askers, form \in Forms[q], p \in Assignable \cup {NoOne}, echo \in Echoes :
              Ask(a, q, form, p, echo, at)
        \/ \E a \in Askers, echo \in Echoes : AskAgain(a, q, echo, at)

AnswerStep(at) ==
    \E q \in Questions, want \in States \cup {NoState} :
        \/ \E a \in Actors : AnswerDirect(a, q, want, at)
        \/ \E r \in Relayers, n \in Actors : AnswerRelayed(r, n, q, want, at)
        \/ \E l \in Links : links[l].about = q /\ AnswerByLink(l, want, at)

LinkStep ==
    \E l \in Links :
        \/ \E a \in Actors, q \in Questions : MintCheck(a, l, q)
        \/ MintInsert(l)
        \/ \E a \in Actors : RevokeLink(a, l)

AskNext ==
    \/ Next /\ UNCHANGED qvars
    \/ \E at \in Sampled :
          \/ AskStep(at)
          \/ AnswerStep(at)
          \/ \E a \in Actors, q \in Questions : Reopen(a, q, at)
          \/ ListDue(at)
    \/ LinkStep
    \/ \E q \in Questions :
          \/ Expire(q)
          \/ \E p \in Assignable \cup {NoOne} : Assign(q, p)
          \/ Withdraw(q)

\* The same interval task runs both sweeps.
AskFairness ==
    /\ Fairness
    /\ WF_askVars(ListDue(now))
    /\ \A q \in Questions : WF_askVars(Expire(q))

AskSpec == AskInit /\ [][AskNext]_askVars /\ AskFairness
-----------------------------------------------------------------------------
(* Properties. *)

\* Every variable keeps to its type.
AskTypeOK ==
    /\ TypeOK
    /\ asks \in [Questions -> Question]
    /\ links \in [Links -> Link]
    /\ due \subseteq Questions
    /\ pass \in Nat

Opens(q)  == asks[q].status # "open" /\ asks'[q].status = "open"
Leaves(q) == asks[q].status = "open" /\ asks'[q].status # "open"

\* An answer or a timeout takes a ticket out of its blocked state only when no
\* blocking question on it is left open, in whatever order several of them are
\* answered, withdrawn, reopened or expire: the barrier.
LastAnswerResumes ==
    [][\A q \in Questions :
          LET t == About[q] IN
          Leaves(q) /\ Parked(tickets[t]) /\ ~Parked(tickets'[t]) => OpenBlocking(t)' = {}]_askVars

\* A link is spent exactly when it answers an open question, and only in the
\* cycle it was minted in: neither a second use nor a link that outlived a
\* reopening ever records an answer.
LinkAnswersItsCycle ==
    [][\A l \in Links :
          links'[l].status = "spent" /\ links[l].status # "spent" =>
              LET q == links[l].about IN
              Leaves(q) /\ asks'[q].status = "answered" /\ links[l].cycle = asks[q].cycle]_askVars

\* An `approve' is answered only by somebody who could be shown to hold the
\* authority, or a link such a person minted: never by the clock, never by an
\* agent that relays a name.
ApprovalIsProof ==
    \A q \in Questions : asks[q].status = "answered" /\ asks[q].form.approve =>
        asks[q].by \in Experts \cup Assignable

\* No ticket moves while its project is archived, not even on a deadline the
\* sweeper had listed just before.
FrozenStaysPut ==
    [][frozen => \A t \in Tickets : tickets'[t].state = tickets[t].state]_askVars

\* A blocking question that comes to be open, asked or reopened, has its ticket
\* parked in a blocked state with nobody holding it.
OpeningParks ==
    [][\A q \in Questions : Opens(q) /\ asks'[q].form.mode = "blocking" =>
          Parked(tickets'[About[q]]) /\ ~Active(tickets'[About[q]], now)]_askVars

\* A deadline is eventually acted on: the question is settled, or widened and
\* freed of its deadline, unless the project is frozen over it.
DeadlineIsKept ==
    \A q \in Questions : Due(q, now) /\ ~frozen ~> ~Due(q, now) \/ frozen
=============================================================================
