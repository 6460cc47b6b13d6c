------------------------------- MODULE Filing -------------------------------
(***************************************************************************)
(* Where tickets are filed: projects, their workflows and what refers to   *)
(* them.  store/moves.rs moves tickets between projects, store/projects.rs *)
(* replaces a workflow, archives and deletes a project, store/tickets.rs   *)
(* creates and re-parents, and each must leave standing what the others    *)
(* rely on.  Every operation is one transaction and so one step.           *)
(*                                                                         *)
(* A workflow is its states and the initial one; which edge a transition   *)
(* takes is TicketRules' matter.  A lease is held or not: that it expires  *)
(* is LetGo.                                                               *)
(***************************************************************************)
CONSTANTS
    Projects,   \* the ids of projects
    Filed,      \* the ids of tickets
    Asked,      \* the ids of questions
    Flows,      \* the workflows a project may be given: [states, initial]
    NoProject,  \* of a ticket or question that does not exist
    NoParent,   \* NULL in tickets.parent
    Rows,       \* bound: <<table, project>> for the rows of other tables that
                \* may come to refer to a project
    Adoptions,  \* bound: the <<child, parent>> pairs tried
    Workers     \* bound: the tickets somebody claims

ASSUME FilingAssumption ==
    /\ \A f \in Flows : f.initial \in f.states
    /\ Flows # {} /\ NoProject \notin Projects /\ NoParent \notin Filed
    /\ Adoptions \subseteq Filed \X Filed
    /\ Workers \subseteq Filed
    /\ Rows \subseteq {"user_projects", "initiatives", "schedules"} \X Projects

VARIABLES
    projects,   \* project -> its row: does it exist, is it archived, its workflow
    filed,      \* ticket -> its row
    asked,      \* question -> the ticket it is about, and its own project column
    records     \* the rows of user_projects, initiatives and schedules

filingVars == <<projects, filed, asked, records>>

Stages == UNION {f.states : f \in Flows}

Unfiled == [project |-> NoProject, stage |-> CHOOSE s \in Stages : TRUE,
            parent |-> NoParent, held |-> FALSE]
NoQuestion == [about |-> NoParent, project |-> NoProject]

Exists(p) == p \in Projects /\ projects[p].status # "gone"

\* ensure_project_writable
Writable(p) == p \in Projects /\ projects[p].status = "live"

In(p) == {t \in Filed : filed[t].project = p}

\* states_in_use
StatesInUse(p) == {filed[t].stage : t \in In(p)}

\* descendants_of: the least set that holds the children of S and its own.
Descendants(S) ==
    {t \in Filed : \A below \in SUBSET Filed :
        (\A u \in Filed : filed[u].parent \in S \cup below => u \in below) => t \in below}

FilingInit ==
    /\ projects \in [Projects -> [status : {"live"}, flow : Flows]]
    /\ filed = [t \in Filed |-> Unfiled]
    /\ asked = [q \in Asked |-> NoQuestion]
    /\ records = {}

-----------------------------------------------------------------------------

CreateTicket(t, p, parent) ==
    /\ Writable(p) /\ filed[t].project = NoProject
    /\ parent # NoParent => filed[parent].project = p
    /\ filed' = [filed EXCEPT ![t] = [project |-> p, stage |-> projects[p].flow.initial,
                                      parent |-> parent, held |-> FALSE]]
    /\ UNCHANGED <<projects, asked, records>>

\* patch_ticket, the parent field
Refile(t, parent) ==
    /\ Writable(filed[t].project)
    /\ parent # NoParent =>
         /\ filed[parent].project = filed[t].project
         /\ parent # t /\ parent \notin Descendants({t})
    /\ filed' = [filed EXCEPT ![t].parent = parent]
    /\ UNCHANGED <<projects, asked, records>>

Advance(t, stage) ==
    /\ Writable(filed[t].project)
    /\ stage \in projects[filed[t].project].flow.states
    /\ filed' = [filed EXCEPT ![t].stage = stage]
    /\ UNCHANGED <<projects, asked, records>>

Hold(t) ==
    /\ Writable(filed[t].project) /\ ~filed[t].held
    /\ filed' = [filed EXCEPT ![t].held = TRUE]
    /\ UNCHANGED <<projects, asked, records>>

\* Released or expired.
LetGo(t) ==
    /\ filed[t].held
    /\ filed' = [filed EXCEPT ![t].held = FALSE]
    /\ UNCHANGED <<projects, asked, records>>

Ask(q, t) ==
    /\ Writable(filed[t].project) /\ asked[q] = NoQuestion
    /\ asked' = [asked EXCEPT ![q] = [about |-> t, project |-> filed[t].project]]
    /\ UNCHANGED <<projects, filed, records>>

-----------------------------------------------------------------------------
(* move_tickets: the named tickets, with what hangs under them or without. *)

Landing(stage, flow) == IF stage \in flow.states THEN stage ELSE flow.initial

\* A parent that moves too, or is already there, is kept.
KeepsParent(t, moving, to) ==
    filed[t].parent # NoParent /\ (filed[t].parent \in moving \/ filed[filed[t].parent].project = to)

\* Mutant: children of a moving parent are not looked at.
LeftBehind_Nobody(moving) == {}

LeftBehind(moving) == {t \in Filed \ moving : filed[t].parent \in moving}

\* An archived project neither takes work nor gives it up.
Gated(all, to) == Writable(to) /\ \A t \in all : Writable(filed[t].project)

\* Mutant: the questions keep the project they were asked in.
FollowingQuestions_Stay(moving, to) == asked

FollowingQuestions(moving, to) ==
    [q \in Asked |->
        IF asked[q].about \in moving THEN [asked[q] EXCEPT !.project = to] ELSE asked[q]]

MoveTickets(S, to, descendants) ==
    LET all == S \cup IF descendants THEN Descendants(S) ELSE {}
        moving == {t \in all : filed[t].project # to}
    IN  /\ S # {} /\ Gated(all, to)
        /\ \A t \in moving : ~filed[t].held
        /\ moving # {}
        /\ filed' = [t \in Filed |->
             IF t \in moving
             THEN [filed[t] EXCEPT !.project = to,
                                   !.stage = Landing(@, projects[to].flow),
                                   !.parent = IF KeepsParent(t, moving, to) THEN @ ELSE NoParent]
             ELSE IF t \in LeftBehind(moving) THEN [filed[t] EXCEPT !.parent = NoParent]
             ELSE filed[t]]
        /\ asked' = FollowingQuestions(moving, to)
        /\ UNCHANGED <<projects, records>>

-----------------------------------------------------------------------------

PutWorkflow(p, flow) ==
    /\ Writable(p)
    /\ StatesInUse(p) \subseteq flow.states
    /\ flow # projects[p].flow
    /\ projects' = [projects EXCEPT ![p].flow = flow]
    /\ UNCHANGED <<filed, asked, records>>

FreezeProject(p, force) ==
    /\ Writable(p)
    /\ force \/ \A t \in In(p) : ~filed[t].held
    /\ projects' = [projects EXCEPT ![p].status = "archived"]
    /\ filed' = [t \in Filed |-> IF t \in In(p) THEN [filed[t] EXCEPT !.held = FALSE] ELSE filed[t]]
    /\ UNCHANGED <<asked, records>>

ThawProject(p) ==
    /\ projects[p].status = "archived"
    /\ projects' = [projects EXCEPT ![p].status = "live"]
    /\ UNCHANGED <<filed, asked, records>>

\* add_member, create_initiative and create_schedule, and what takes the row
\* away again.
Attach(row) ==
    /\ Exists(row[2]) /\ (row[1] # "initiatives" => Writable(row[2]))
    /\ records' = records \cup {row}
    /\ UNCHANGED <<projects, filed, asked>>

Detach(row) ==
    /\ Writable(row[2])
    /\ records' = records \ {row}
    /\ UNCHANGED <<projects, filed, asked>>

\* QUESTIONS_OF_PROJECT
QuestionsOf(p) == {q \in Asked : asked[q].project = p \/ asked[q].about \in In(p)}

\* The foreign keys, as the cascade's last statements meet them: no ticket
\* elsewhere hangs under one of p's, and nothing else refers to p.
Unreferenced(p) ==
    /\ \A t \in Filed \ In(p) : filed[t].parent \notin In(p)
    /\ \A row \in records : row[2] # p

DeleteProject(p, force) ==
    /\ Exists(p)
    /\ force \/ \A t \in In(p) : ~filed[t].held
    /\ Unreferenced(p)
    /\ projects' = [projects EXCEPT ![p].status = "gone"]
    /\ filed' = [t \in Filed |-> IF t \in In(p) THEN Unfiled ELSE filed[t]]
    /\ asked' = [q \in Asked |-> IF q \in QuestionsOf(p) THEN NoQuestion ELSE asked[q]]
    /\ UNCHANGED records

-----------------------------------------------------------------------------

FilingNext ==
    \/ \E t \in Filed :
         \/ \E p \in Projects, parent \in {NoParent} \cup {a[2] : a \in {x \in Adoptions : x[1] = t}} :
              CreateTicket(t, p, parent)
         \/ \E parent \in {NoParent} \cup {a[2] : a \in {x \in Adoptions : x[1] = t}} :
              Refile(t, parent)
         \/ \E stage \in Stages : Advance(t, stage)
         \/ t \in Workers /\ (Hold(t) \/ LetGo(t))
         \/ \E q \in Asked : Ask(q, t)
    \/ \E S \in SUBSET Filed, to \in Projects, descendants \in BOOLEAN :
         MoveTickets(S, to, descendants)
    \/ \E p \in Projects :
         \/ \E flow \in Flows : PutWorkflow(p, flow)
         \/ \E force \in BOOLEAN : FreezeProject(p, force) \/ DeleteProject(p, force)
         \/ ThawProject(p)
    \/ \E row \in Rows : Attach(row) \/ Detach(row)

FilingSpec == FilingInit /\ [][FilingNext]_filingVars

-----------------------------------------------------------------------------
FilingTypeOK ==
    /\ projects \in [Projects -> [status : {"live", "archived", "gone"}, flow : Flows]]
    /\ filed \in [Filed -> [project : Projects \cup {NoProject}, stage : Stages,
                           parent : Filed \cup {NoParent}, held : BOOLEAN]]
    /\ asked \in [Asked -> [about : Filed \cup {NoParent}, project : Projects \cup {NoProject}]]
    /\ records \subseteq Rows

(* Properties.                                                             *)

\* A parent and its child are in one project, whichever of them moved, stayed
\* behind, was re-filed or created in the meantime.
FamiliesShareProject ==
    \A t \in Filed : filed[t].parent # NoParent =>
        filed[t].project \in Projects /\ filed[filed[t].parent].project = filed[t].project

\* Every ticket stands in a state its project's workflow defines, though the
\* workflow is replaced under it and it is moved under another.
StagesAreKnown ==
    \A t \in Filed : Exists(filed[t].project) =>
        filed[t].stage \in projects[filed[t].project].flow.states

\* Wherever tickets are moved, they arrive where a reader can find them: beside
\* their parents, in a state their project knows.
FiledWell == FamiliesShareProject /\ StagesAreKnown

\* Deleting a project takes the questions on its tickets and no others: the
\* copy of the project in a question's row follows its ticket around.
DeleteTakesItsOwn ==
    [][\A p \in Projects : Exists(p) /\ projects'[p].status = "gone" =>
        \A q \in Asked : asked'[q] # asked[q] <=> asked[q].about \in In(p)]_filingVars

\* Refuted: "Cascade-delete a project and everything under it" (projects.rs:873).
\* A forced delete of a project that exists goes through.
DeleteGoesThrough == \A p \in Projects : Exists(p) => Unreferenced(p)
=============================================================================
