---------------------------- MODULE MCAskHuman ----------------------------
(* Instances of AskHuman: questions on one ticket of the workflow MCClaims has. *)
EXTENDS AskHuman, MCClaims

CONSTANTS q1, q2, l1

\* Where factory-default leads a question: claimed work parks by a free edge and
\* comes back through a human gate; cancelling needs a human or a claim.
GatedStates == {"todo", "doing", "blocked", "cancelled"}
GatedCategory ==
    [s \in GatedStates |->
        CASE s = "todo" -> "todo" [] s = "doing" -> "in_progress"
          [] s = "blocked" -> "blocked" [] s = "cancelled" -> "cancelled"]
GatedEdges ==
    {Edge("todo", "doing", {"claim"}),
     Edge("doing", "blocked", {}),
     Edge("doing", "cancelled", {"claim"}),
     Edge("blocked", "todo", {"human"}),
     Edge("blocked", "doing", {"human"}),
     Edge("blocked", "cancelled", {"human"})}

\* The edges of `simple' between the same states: no gate, free to cancel.
SimpleEdges ==
    {Edge("todo", "doing", {"claim"}),
     Edge("todo", "cancelled", {}),
     Edge("doing", "blocked", {}),
     Edge("doing", "todo", {}),
     Edge("doing", "cancelled", {}),
     Edge("blocked", "doing", {"claim"}),
     Edge("blocked", "todo", {}),
     Edge("blocked", "cancelled", {})}

F(m, ap, ot, w) == [mode |-> m, approve |-> ap, onTimeout |-> ot, window |-> w]

\* Two questions with a deadline, one for each fallback that moves the ticket.
TwoQuestions ==
    [q \in Questions |->
        {F("blocking", FALSE, IF q = q1 THEN "recommended" ELSE "cancel", 1)}]

\* Sign-offs with the other fallbacks, and one request that must be refused: an
\* approval by the clock.
SignOffs ==
    [q \in Questions |->
        {F("blocking", TRUE, "cancel", 1), F("advisory", TRUE, "none", 1),
         F("advisory", TRUE, "escalate", 1),
         F("blocking", TRUE, "recommended", 1)}]
PlainQuestions == [q \in Questions |-> {F("blocking", FALSE, "none", Never)}]
CancelQuestion == [q \in Questions |-> {F("blocking", FALSE, "cancel", 1)}]
AboutC == [q \in Questions |-> c]
ParkedStart == [t \in Tickets |-> "doing"]
=============================================================================
