---------------------------- MODULE MCDecisions ----------------------------
(* An instance of what people decide: questions they answer by a link,     *)
(* reviews they send each other, proposals they accept.  The three share   *)
(* nothing that changes; `part' says which is looked at.                   *)
EXTENDS MCAskHuman, Reviews, Proposals, TLC

CONSTANTS
    ann, ben, rev, chg, t1, t2, n1, n2, a1, a2, a3,   \* Reviews
    x, y, p1, p2, server, page                      \* Proposals

\* A review of a new comment and an old one, and a change asked for over the old
\* one.
TwoSends ==
    (rev :> [by |-> ann, kind |-> "review", to |-> {ben}, new |-> {t1}, old |-> {t2}])
    @@ (chg :> [by |-> ann, kind |-> "change", to |-> {ben}, new |-> {}, old |-> {t2}])

Try(p, does, s, t, who) ==
    [by |-> p, on |-> s, does |-> does, text |-> does \in {"reply", "close"},
     thread |-> t, to |-> who]
SomeTries ==
    {Try(ben, "reply", rev, t2, {}), Try(ben, "reviewed", rev, NoThread, {}),
     Try(ann, "resolve", rev, t1, {}), Try(ben, "unresolve", rev, t2, {}),
     Try(ann, "close", rev, NoThread, {}), Try(ben, "close", rev, NoThread, {}),
     Try(ann, "reopen", rev, NoThread, {}), Try(ann, "assign", rev, NoThread, {ann}),
     Try(ann, "start", chg, NoThread, {}), Try(ben, "start", chg, NoThread, {}),
     Try(ben, "ready", chg, NoThread, {}), Try(ann, "close", chg, NoThread, {})}

Twins == Permutations({n1, n2}) \cup Permutations({a1, a2, a3}) \cup Permutations({p1, p2})

XThenY == <<x, y>>
Ins(id, k) == [op |-> "insert_after", id |-> id, nodes |-> k, exotic |-> FALSE]
Rep(id, k) == [op |-> "replace", id |-> id, nodes |-> k, exotic |-> FALSE]
Del(id) == [op |-> "delete", id |-> id, nodes |-> 1, exotic |-> FALSE]

\* Operations that get into each other's way.
SomeDrafts ==
    {<<Rep(x, 2), Ins(x, 1), Ins(x, 1)>>,
     <<Del(x), Ins(y, 1), Rep(x, 1)>>,
     <<[Rep(y, 2) EXCEPT !.exotic = TRUE]>>}

VARIABLE part

DecisionsInit ==
    /\ part \in {"links", "reviews", "proposals"}
    /\ AskInit /\ ReviewsInit /\ ProposalsInit

\* A document may rest: that is no deadlock, of a question it would be one.
DecisionsNext ==
    \/ part = "links" /\ UNCHANGED <<part, reviewVars, propVars>> /\ AskNext
    \/ /\ part = "reviews" /\ UNCHANGED <<part, askVars, propVars>>
       /\ ReviewsNext \/ UNCHANGED reviewVars
    \/ /\ part = "proposals" /\ UNCHANGED <<part, askVars, reviewVars>>
       /\ ProposalsNext \/ UNCHANGED propVars

DecisionsSpec ==
    /\ DecisionsInit
    /\ [][DecisionsNext]_<<part, askVars, reviewVars, propVars>>
=============================================================================
