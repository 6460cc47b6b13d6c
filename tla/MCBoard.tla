------------------------------ MODULE MCBoard ------------------------------
(* An instance of a reserved epic and of the board that shows its project. *)
(* The two share nothing that changes; `part' says which is looked at.     *)
EXTENDS MCClaims, LiveUpdates

CONSTANTS here, away, board

\* A board lists tickets, blockers in other projects included, and questions.
OfHere == [v \in Views |-> here]
BoardTopics == [v \in Views |-> {"tickets", "inbox"}]
BoardReads == [v \in Views |->
    {<<"tickets", here>>, <<"tickets", away>>, <<"comments", here>>,
     <<"questions", here>>, <<"question_messages", here>>}]

\* A blocker changes; a question moves away and is commented on there; somebody
\* comments on something else there.
SomeWrites ==
    {{[table |-> "tickets", from |-> away, to |-> away]},
     {[table |-> "questions", from |-> here, to |-> away],
      [table |-> "comments", from |-> away, to |-> away]},
     {[table |-> "comments", from |-> away, to |-> away]}}

VARIABLE part

BoardInit == part \in {"epic", "board"} /\ Init /\ UpdatesInit

\* A board may rest: that is no deadlock, of the epic it would be one.
BoardNext ==
    \/ part = "epic" /\ UNCHANGED <<part, updVars>> /\ Next
    \/ part = "board" /\ UNCHANGED <<part, vars>> /\ (UpdatesNext \/ UNCHANGED updVars)

BoardSpec ==
    /\ BoardInit
    /\ [][BoardNext]_<<part, vars, updVars>>
    /\ UpdatesFairness
=============================================================================
