----------------------------- MODULE MCClaims -----------------------------
(* The workflow and the small instances Claims is checked on. *)
EXTENDS Claims

\* A workflow with every kind of edge the shipped ones have: claim-gated, free,
\* human-gated, guarded, and two edges between the same pair of states.
FlowStates == {"todo", "doing", "blocked", "review", "done"}
FlowCategory ==
    [s \in FlowStates |->
        CASE s = "todo" -> "todo" [] s = "doing" -> "in_progress"
          [] s = "blocked" -> "blocked" [] s = "review" -> "review" [] s = "done" -> "done"]

Edge(f, t, r) == [from |-> f, to |-> t, requires |-> r]
FlowEdges ==
    {Edge("todo", "doing", {"claim"}),
     Edge("doing", "todo", {}),
     Edge("doing", "blocked", {}),
     Edge("blocked", "doing", {"human"}),
     Edge("doing", "review", {"claim"}),
     Edge("review", "doing", {}),
     Edge("review", "done", {"human", "no_open_children"}),
     Edge("review", "done", {"claim", "has_link"})}

\* The two-state core of it, for instances with several tickets.
ShortStates == {"todo", "done"}
ShortEdges == {Edge("todo", "done", {"claim", "no_open_children", "no_open_blockers"})}
ShortCategory == [s \in ShortStates |-> s]

CONSTANTS a, b, h, e, c, d
OneAgentOneHuman == [x \in Actors |-> IF x = h THEN {"human"} ELSE {}]
NoScopes == [x \in Actors |-> {}]
NoParents == [t \in Tickets |-> NoTicket]
NoDeps == [t \in Tickets |-> {}]
AllTodo == [t \in Tickets |-> "todo"]
Timeless == [t \in Tickets |-> Never]
SameRank == [t \in Tickets |-> 0]
EpicOverChild == [t \in Tickets |-> IF t = e THEN NoTicket ELSE e]
FirstOccursUntil2 == [t \in Tickets |-> IF t = c THEN 2 ELSE Never]
EpicLast == [t \in Tickets |-> IF t = e THEN 1 ELSE 0]
EveryoneOrChild == {Tickets, {c}}
JustEveryone == {Tickets}
AllPairs == {p \in Tickets \X Tickets : p[1] # p[2]}
AllParents == AllPairs \cup {<<c, NoTicket>>}
ChildUnderEpic == {<<c, e>>}
GrandchildMoves == {<<d, c>>}
EpicOverEpic == [t \in Tickets |-> IF t = c THEN e ELSE NoTicket]
=============================================================================
