--------------------------- MODULE Filing_proofs ---------------------------
(* What Filing promises, for any number of projects, tickets, questions,    *)
(* workflows and referring rows.                                            *)
EXTENDS Filing, TLAPS

\* The copy of the project in a question's row is its ticket's project.
QuestionsKnowHome ==
    \A q \in Asked :
        \/ asked[q] = NoQuestion
        \/ /\ asked[q].about \in Filed /\ asked[q].project \in Projects
           /\ asked[q].project = filed[asked[q].about].project

FilingInv == FilingTypeOK /\ FamiliesShareProject /\ StagesAreKnown /\ QuestionsKnowHome

TicketRow == [project : Projects \cup {NoProject}, stage : Stages,
              parent : Filed \cup {NoParent}, held : BOOLEAN]

-----------------------------------------------------------------------------
(* The rows of what does not exist.                                         *)

LEMMA FlowsDefineStages ==
    ASSUME NEW f \in Flows
    PROVE  /\ f.states \subseteq Stages
           /\ f.initial \in f.states
           /\ \A s : Landing(s, f) \in f.states
BY FilingAssumption DEF Stages, Landing

LEMMA UnfiledIsARow == Unfiled \in TicketRow
<1>1. Stages # {}
  BY FilingAssumption DEF Stages
<1> QED BY <1>1 DEF Unfiled, TicketRow

-----------------------------------------------------------------------------
(* Steps that write one ticket's row and leave its project alone.           *)

LEMMA RowStep ==
    ASSUME FilingInv, NEW t \in Filed, NEW row \in TicketRow,
           row.project = filed[t].project,
           row.parent # NoParent =>
             row.project \in Projects /\ filed[row.parent].project = row.project,
           Exists(row.project) => row.stage \in projects[row.project].flow.states,
           filed' = [filed EXCEPT ![t] = row], UNCHANGED <<projects, asked, records>>
    PROVE  FilingInv'
<1> USE DEF FilingInv, FilingTypeOK, TicketRow
<1>1. FilingTypeOK'
  OBVIOUS
<1>2. \A u \in Filed : filed'[u].project = filed[u].project
  OBVIOUS
<1>3. FamiliesShareProject'
  BY <1>2 DEF FamiliesShareProject
<1>4. StagesAreKnown'
  BY <1>2 DEF StagesAreKnown, Exists
<1>5. QuestionsKnowHome'
  BY <1>2 DEF QuestionsKnowHome, NoQuestion
<1> QED BY <1>1, <1>3, <1>4, <1>5

LEMMA TicketStep ==
    ASSUME FilingInv, NEW t \in Filed,
           \/ \E parent \in Filed \cup {NoParent} : Refile(t, parent)
           \/ \E stage \in Stages : Advance(t, stage)
           \/ Hold(t) \/ LetGo(t)
    PROVE  FilingInv'
<1> USE DEF FilingInv, FilingTypeOK, TicketRow
<1>1. CASE \E parent \in Filed \cup {NoParent} : Refile(t, parent)
  <2>1. PICK parent \in Filed \cup {NoParent} : Refile(t, parent)
    BY <1>1
  <2> DEFINE row == [filed[t] EXCEPT !.parent = parent]
  <2>2. /\ row \in TicketRow /\ row.project = filed[t].project
        /\ row.stage = filed[t].stage /\ row.parent = parent
    OBVIOUS
  <2>3. parent # NoParent => row.project \in Projects /\ filed[parent].project = row.project
    BY <2>1, <2>2 DEF Refile, Writable
  <2>4. Exists(row.project) => row.stage \in projects[row.project].flow.states
    BY <2>2 DEF StagesAreKnown
  <2>5. filed' = [filed EXCEPT ![t] = row] /\ UNCHANGED <<projects, asked, records>>
    BY <2>1 DEF Refile
  <2> HIDE DEF row
  <2> QED BY <2>2, <2>3, <2>4, <2>5, RowStep
<1>2. CASE \E stage \in Stages : Advance(t, stage)
  <2>1. PICK stage \in Stages : Advance(t, stage)
    BY <1>2
  <2> DEFINE row == [filed[t] EXCEPT !.stage = stage]
  <2>2. /\ row \in TicketRow /\ row.project = filed[t].project
        /\ row.stage = stage /\ row.parent = filed[t].parent
    OBVIOUS
  <2>3. row.parent # NoParent =>
          row.project \in Projects /\ filed[row.parent].project = row.project
    BY <2>2 DEF FamiliesShareProject
  <2>4. Exists(row.project) => row.stage \in projects[row.project].flow.states
    BY <2>1, <2>2 DEF Advance
  <2>5. filed' = [filed EXCEPT ![t] = row] /\ UNCHANGED <<projects, asked, records>>
    BY <2>1 DEF Advance
  <2> HIDE DEF row
  <2> QED BY <2>2, <2>3, <2>4, <2>5, RowStep
<1>3. CASE Hold(t) \/ LetGo(t)
  <2>1. PICK h \in BOOLEAN : /\ filed' = [filed EXCEPT ![t].held = h]
                             /\ UNCHANGED <<projects, asked, records>>
    BY <1>3 DEF Hold, LetGo
  <2> DEFINE row == [filed[t] EXCEPT !.held = h]
  <2>2. /\ row \in TicketRow /\ row.project = filed[t].project
        /\ row.stage = filed[t].stage /\ row.parent = filed[t].parent
    OBVIOUS
  <2>3. row.parent # NoParent =>
          row.project \in Projects /\ filed[row.parent].project = row.project
    BY <2>2 DEF FamiliesShareProject
  <2>4. Exists(row.project) => row.stage \in projects[row.project].flow.states
    BY <2>2 DEF StagesAreKnown
  <2>5. filed' = [filed EXCEPT ![t] = row]
    BY <2>1
  <2> HIDE DEF row
  <2> QED BY <2>1, <2>2, <2>3, <2>4, <2>5, RowStep
<1> QED BY <1>1, <1>2, <1>3

\* A new ticket is nobody's parent and nobody asked about it yet.
LEMMA CreateStep ==
    ASSUME FilingInv, NEW t \in Filed, NEW p \in Projects,
           NEW parent \in Filed \cup {NoParent}, CreateTicket(t, p, parent)
    PROVE  FilingInv'
<1> DEFINE row == [project |-> p, stage |-> projects[p].flow.initial,
                   parent |-> parent, held |-> FALSE]
<1>1. /\ filed[t].project = NoProject /\ NoProject \notin Projects
      /\ parent # NoParent => filed[parent].project = p
      /\ filed' = [filed EXCEPT ![t] = row] /\ UNCHANGED <<projects, asked, records>>
  BY FilingAssumption DEF CreateTicket
<1>2. projects[p].flow \in Flows
  BY DEF FilingInv, FilingTypeOK
<1>3. row \in TicketRow /\ row.stage \in projects[p].flow.states
  BY <1>2, FlowsDefineStages DEF TicketRow
<1>4. row.project = p /\ row.parent = parent
  OBVIOUS
<1> HIDE DEF row
<1> USE DEF FilingInv, FilingTypeOK, TicketRow
<1>5. /\ filed'[t] = row
      /\ \A u \in Filed \ {t} : filed'[u] = filed[u]
  BY <1>1
<1>6. FilingTypeOK'
  BY <1>1, <1>3
<1>7. FamiliesShareProject'
  <2> SUFFICES ASSUME NEW u \in Filed, filed'[u].parent # NoParent
               PROVE  /\ filed'[u].project \in Projects
                      /\ filed'[filed'[u].parent].project = filed'[u].project
    BY DEF FamiliesShareProject
  <2>1. CASE u = t
    BY <2>1, <1>1, <1>4, <1>5
  <2>2. CASE u # t
    <3>1. /\ filed'[u] = filed[u] /\ filed[u].project \in Projects
          /\ filed[u].parent \in Filed
          /\ filed[filed[u].parent].project = filed[u].project
      BY <2>2, <1>5 DEF FamiliesShareProject
    <3>2. filed[u].parent # t
      BY <3>1, <1>1
    <3> QED BY <3>1, <3>2, <1>5
  <2> QED BY <2>1, <2>2
<1>8. StagesAreKnown'
  BY <1>1, <1>3, <1>4, <1>5 DEF StagesAreKnown, Exists
<1>9. QuestionsKnowHome'
  BY <1>1, <1>5 DEF QuestionsKnowHome, NoQuestion
<1> QED BY <1>6, <1>7, <1>8, <1>9

LEMMA AskStep ==
    ASSUME FilingInv, NEW q \in Asked, NEW t \in Filed, Ask(q, t)
    PROVE  FilingInv'
<1> USE DEF FilingInv, FilingTypeOK
<1>1. /\ asked' = [asked EXCEPT ![q] = [about |-> t, project |-> filed[t].project]]
      /\ filed[t].project \in Projects /\ UNCHANGED <<projects, filed, records>>
  BY DEF Ask, Writable
<1>2. FilingTypeOK' /\ FamiliesShareProject' /\ StagesAreKnown'
  BY <1>1 DEF FamiliesShareProject, StagesAreKnown, Exists
<1>3. QuestionsKnowHome'
  BY <1>1 DEF QuestionsKnowHome, NoQuestion
<1> QED BY <1>2, <1>3

-----------------------------------------------------------------------------
(* Moving, replacing a workflow, archiving, deleting.                       *)

LEMMA MoveStep ==
    ASSUME FilingInv, NEW S \in SUBSET Filed, NEW to, NEW descendants, MoveTickets(S, to, descendants)
    PROVE  FilingInv'
<1> DEFINE all == S \cup IF descendants THEN Descendants(S) ELSE {}
           moving == {t \in all : filed[t].project # to}
<1>1. /\ to \in Projects /\ moving \subseteq Filed /\ \A t \in moving : filed[t].project # to
      /\ asked' = FollowingQuestions(moving, to) /\ UNCHANGED <<projects, records>>
      /\ filed' = [t \in Filed |->
           IF t \in moving
           THEN [filed[t] EXCEPT !.project = to,
                                 !.stage = Landing(@, projects[to].flow),
                                 !.parent = IF KeepsParent(t, moving, to) THEN @ ELSE NoParent]
           ELSE IF t \in LeftBehind(moving) THEN [filed[t] EXCEPT !.parent = NoParent]
           ELSE filed[t]]
  <2>1. Gated(all, to)
    BY DEF MoveTickets
  <2>2. to \in Projects
    BY <2>1 DEF Gated, Writable
  <2>3. Descendants(S) \subseteq Filed
    BY DEF Descendants
  <2> QED BY <2>2, <2>3 DEF MoveTickets
<1> HIDE DEF moving, all
<1> USE DEF FilingInv, FilingTypeOK
<1>2. projects[to].flow \in Flows
  BY <1>1
<1>3. \A s : Landing(s, projects[to].flow) \in projects[to].flow.states \cap Stages
  BY <1>2, FlowsDefineStages
<1>4. ASSUME NEW t \in Filed, t \in moving
      PROVE  /\ filed'[t].project = to
             /\ filed'[t].stage = Landing(filed[t].stage, projects[to].flow)
             /\ filed'[t].parent = IF KeepsParent(t, moving, to) THEN filed[t].parent ELSE NoParent
             /\ filed'[t].held = filed[t].held
             /\ filed'[t] \in TicketRow
  BY <1>1, <1>3, <1>4 DEF TicketRow
<1>5. ASSUME NEW t \in Filed, t \notin moving
      PROVE  /\ filed'[t].project = filed[t].project /\ filed'[t].stage = filed[t].stage
             /\ filed'[t].parent = IF t \in LeftBehind(moving) THEN NoParent ELSE filed[t].parent
             /\ filed'[t] \in TicketRow
  BY <1>1, <1>5 DEF TicketRow
<1>6. FilingTypeOK'
  <2>1. filed' \in [Filed -> TicketRow]
    BY <1>1, <1>4, <1>5
  <2>2. asked' \in [Asked -> [about : Filed \cup {NoParent}, project : Projects \cup {NoProject}]]
    BY <1>1 DEF FollowingQuestions
  <2> QED BY <2>1, <2>2, <1>1 DEF TicketRow
<1>7. FamiliesShareProject'
  <2> SUFFICES ASSUME NEW t \in Filed, filed'[t].parent # NoParent
               PROVE  /\ filed'[t].project \in Projects
                      /\ filed'[filed'[t].parent].project = filed'[t].project
    BY DEF FamiliesShareProject
  <2>1. filed'[t].parent = filed[t].parent
    BY <1>4, <1>5
  <2>2. /\ filed[t].parent \in Filed /\ filed[t].project \in Projects
        /\ filed[filed[t].parent].project = filed[t].project
    BY <2>1 DEF FamiliesShareProject
  <2>3. CASE t \in moving
    <3>1. filed[t].parent \in moving
      BY <2>3, <1>1, <1>4, <2>2 DEF KeepsParent
    <3> QED BY <3>1, <2>1, <2>2, <2>3, <1>1, <1>4
  <2>4. CASE t \notin moving
    <3>1. filed[t].parent \notin moving
      BY <2>4, <1>5 DEF LeftBehind
    <3> QED BY <3>1, <2>1, <2>2, <2>4, <1>5
  <2> QED BY <2>3, <2>4
<1>8. StagesAreKnown'
  <2> SUFFICES ASSUME NEW t \in Filed, Exists(filed'[t].project)
               PROVE  filed'[t].stage \in projects[filed'[t].project].flow.states
    BY <1>1 DEF StagesAreKnown, Exists
  <2>1. CASE t \in moving
    BY <2>1, <1>3, <1>4
  <2>2. CASE t \notin moving
    BY <2>2, <1>5 DEF StagesAreKnown
  <2> QED BY <2>1, <2>2
<1>9. QuestionsKnowHome'
  <2> SUFFICES ASSUME NEW q \in Asked, asked'[q] # NoQuestion
               PROVE  /\ asked'[q].about \in Filed /\ asked'[q].project \in Projects
                      /\ asked'[q].project = filed'[asked'[q].about].project
    BY DEF QuestionsKnowHome, NoQuestion
  <2>1. CASE asked[q].about \in moving
    <3>1. asked'[q].about = asked[q].about /\ asked'[q].project = to
      BY <2>1, <1>1 DEF FollowingQuestions
    <3>2. asked[q].about \in Filed
      BY <2>1, <1>1
    <3> QED BY <3>1, <3>2, <2>1, <1>1, <1>4
  <2>2. CASE asked[q].about \notin moving
    <3>1. asked'[q] = asked[q]
      BY <2>2, <1>1 DEF FollowingQuestions
    <3> QED BY <3>1, <2>2, <1>5 DEF QuestionsKnowHome
  <2> QED BY <2>1, <2>2
<1> QED BY <1>6, <1>7, <1>8, <1>9

LEMMA ProjectStep ==
    ASSUME FilingInv, NEW p \in Projects,
           \/ \E flow \in Flows : PutWorkflow(p, flow)
           \/ \E force \in BOOLEAN : FreezeProject(p, force)
           \/ ThawProject(p)
    PROVE  FilingInv'
<1> USE DEF FilingInv, FilingTypeOK
<1>1. CASE \E flow \in Flows : PutWorkflow(p, flow)
  <2>1. PICK flow \in Flows : PutWorkflow(p, flow)
    BY <1>1
  <2>2. /\ projects' = [projects EXCEPT ![p].flow = flow]
        /\ StatesInUse(p) \subseteq flow.states /\ UNCHANGED <<filed, asked, records>>
    BY <2>1 DEF PutWorkflow
  <2>3. FilingTypeOK' /\ FamiliesShareProject' /\ QuestionsKnowHome'
    BY <2>2 DEF FamiliesShareProject, QuestionsKnowHome, NoQuestion
  <2>4. StagesAreKnown'
    <3> SUFFICES ASSUME NEW t \in Filed, Exists(filed[t].project)'
                 PROVE  filed[t].stage \in projects'[filed[t].project].flow.states
      BY <2>2 DEF StagesAreKnown
    <3>1. CASE filed[t].project = p
      BY <3>1, <2>2 DEF StatesInUse, In
    <3>2. CASE filed[t].project # p
      BY <3>2, <2>2 DEF StagesAreKnown, Exists
    <3> QED BY <3>1, <3>2
  <2> QED BY <2>3, <2>4
<1>2. CASE \/ \E force \in BOOLEAN : FreezeProject(p, force)
           \/ ThawProject(p)
  <2>1. PICK status \in {"live", "archived"} :
          /\ projects' = [projects EXCEPT ![p].status = status] /\ Exists(p)
          /\ UNCHANGED <<asked, records>>
    <3>1. CASE ThawProject(p)
      BY <3>1 DEF ThawProject, Exists
    <3>2. CASE \E force \in BOOLEAN : FreezeProject(p, force)
      BY <3>2 DEF FreezeProject, Exists, Writable
    <3> QED BY <3>1, <3>2, <1>2
  <2>2. filed' \in [Filed -> TicketRow]
    <3>1. CASE ThawProject(p)
      BY <3>1 DEF ThawProject, TicketRow
    <3>2. CASE \E force \in BOOLEAN : FreezeProject(p, force)
      <4>1. filed' = [t \in Filed |->
                       IF t \in In(p) THEN [filed[t] EXCEPT !.held = FALSE] ELSE filed[t]]
        BY <3>2 DEF FreezeProject
      <4>2. \A t \in Filed : [filed[t] EXCEPT !.held = FALSE] \in TicketRow /\ filed[t] \in TicketRow
        BY DEF TicketRow
      <4> QED BY <4>1, <4>2
    <3> QED BY <3>1, <3>2, <1>2
  <2>3. \A t \in Filed : /\ filed'[t].project = filed[t].project
                         /\ filed'[t].stage = filed[t].stage
                         /\ filed'[t].parent = filed[t].parent
    BY <1>2 DEF FreezeProject, ThawProject
  <2>4. FilingTypeOK'
    BY <2>1, <2>2 DEF TicketRow
  <2>5. FamiliesShareProject'
    BY <2>3 DEF FamiliesShareProject
  <2>6. StagesAreKnown'
    BY <2>1, <2>3 DEF StagesAreKnown, Exists
  <2>7. QuestionsKnowHome'
    BY <2>1, <2>3 DEF QuestionsKnowHome, NoQuestion
  <2> QED BY <2>4, <2>5, <2>6, <2>7
<1> QED BY <1>1, <1>2

\* Who hung under one of p's tickets was one of p's tickets.
LEMMA DeleteStep ==
    ASSUME FilingInv, NEW p \in Projects, NEW force \in BOOLEAN, DeleteProject(p, force)
    PROVE  FilingInv'
<1> USE DEF FilingInv, FilingTypeOK
<1>1. /\ projects' = [projects EXCEPT ![p].status = "gone"]
      /\ filed' = [t \in Filed |-> IF t \in In(p) THEN Unfiled ELSE filed[t]]
      /\ asked' = [q \in Asked |-> IF q \in QuestionsOf(p) THEN NoQuestion ELSE asked[q]]
      /\ UNCHANGED records
  BY DEF DeleteProject
<1>2. /\ Unfiled \in TicketRow /\ Unfiled.parent = NoParent /\ Unfiled.project = NoProject
  BY UnfiledIsARow DEF Unfiled
<1>3. FilingTypeOK'
  <2>1. filed' \in [Filed -> TicketRow]
    BY <1>1, <1>2 DEF TicketRow
  <2>2. asked' \in [Asked -> [about : Filed \cup {NoParent}, project : Projects \cup {NoProject}]]
    BY <1>1 DEF NoQuestion
  <2> QED BY <2>1, <2>2, <1>1 DEF TicketRow
<1>4. FamiliesShareProject'
  <2> SUFFICES ASSUME NEW t \in Filed, filed'[t].parent # NoParent
               PROVE  /\ filed'[t].project \in Projects
                      /\ filed'[filed'[t].parent].project = filed'[t].project
    BY DEF FamiliesShareProject
  <2>1. t \notin In(p) /\ filed'[t] = filed[t]
    BY <1>1, <1>2
  <2>2. /\ filed[t].parent \in Filed /\ filed[t].project \in Projects
        /\ filed[filed[t].parent].project = filed[t].project
    BY <2>1 DEF FamiliesShareProject
  <2>3. filed[t].parent \notin In(p)
    BY <2>1, <2>2 DEF In
  <2> QED BY <2>1, <2>2, <2>3, <1>1
<1>5. StagesAreKnown'
  <2> SUFFICES ASSUME NEW t \in Filed, Exists(filed[t].project)'
               PROVE  filed'[t].stage \in projects'[filed'[t].project].flow.states
    BY DEF StagesAreKnown
  <2>1. filed'[t].project \in Projects /\ projects'[filed'[t].project].status # "gone"
    BY DEF Exists
  <2>2. t \notin In(p) /\ filed'[t] = filed[t]
    BY <2>1, <1>1, <1>2, FilingAssumption
  <2>3. filed[t].project # p
    BY <2>2 DEF In
  <2> QED BY <2>1, <2>2, <2>3, <1>1 DEF StagesAreKnown, Exists
<1>6. QuestionsKnowHome'
  <2> SUFFICES ASSUME NEW q \in Asked, asked'[q] # NoQuestion
               PROVE  /\ asked'[q].about \in Filed /\ asked'[q].project \in Projects
                      /\ asked'[q].project = filed'[asked'[q].about].project
    BY DEF QuestionsKnowHome, NoQuestion
  <2>1. q \notin QuestionsOf(p) /\ asked'[q] = asked[q]
    BY <1>1
  <2>2. asked[q].about \in Filed /\ asked[q].about \notin In(p)
    BY <2>1 DEF QuestionsOf, QuestionsKnowHome
  <2> QED BY <2>1, <2>2, <1>1 DEF QuestionsKnowHome
<1> QED BY <1>3, <1>4, <1>5, <1>6

LEMMA RecordsStep ==
    ASSUME FilingInv, NEW row \in Rows, Attach(row) \/ Detach(row)
    PROVE  FilingInv'
<1>1. records' \subseteq Rows /\ UNCHANGED <<projects, filed, asked>>
  BY DEF FilingInv, FilingTypeOK, Attach, Detach
<1> QED BY <1>1 DEF FilingInv, FilingTypeOK, FamiliesShareProject, StagesAreKnown,
                    Exists, QuestionsKnowHome, NoQuestion

-----------------------------------------------------------------------------

LEMMA FilingInitGood == FilingInit => FilingInv
<1> SUFFICES ASSUME FilingInit PROVE FilingInv
  OBVIOUS
<1>1. Unfiled \in TicketRow /\ Unfiled.parent = NoParent /\ Unfiled.project = NoProject
  BY UnfiledIsARow DEF Unfiled
<1>2. FilingTypeOK
  BY <1>1 DEF FilingInit, FilingTypeOK, TicketRow, NoQuestion
<1>3. FamiliesShareProject /\ QuestionsKnowHome
  BY <1>1 DEF FilingInit, FamiliesShareProject, QuestionsKnowHome
<1>4. StagesAreKnown
  BY <1>1, FilingAssumption DEF FilingInit, StagesAreKnown, Exists
<1> QED BY <1>2, <1>3, <1>4 DEF FilingInv

\* A child's parents that are tried are tickets.
LEMMA AdoptedAreFiled ==
    ASSUME NEW t \in Filed,
           NEW parent \in {NoParent} \cup {a[2] : a \in {x \in Adoptions : x[1] = t}}
    PROVE  parent \in Filed \cup {NoParent}
BY FilingAssumption

LEMMA FilingStep == FilingInv /\ [FilingNext]_filingVars => FilingInv'
<1> SUFFICES ASSUME FilingInv, [FilingNext]_filingVars PROVE FilingInv'
  OBVIOUS
<1>1. CASE \E t \in Filed : \E p \in Projects,
              parent \in {NoParent} \cup {a[2] : a \in {x \in Adoptions : x[1] = t}} :
             CreateTicket(t, p, parent)
  BY <1>1, CreateStep, AdoptedAreFiled
<1>2. CASE \E t \in Filed :
             \/ \E parent \in {NoParent} \cup {a[2] : a \in {x \in Adoptions : x[1] = t}} :
                  Refile(t, parent)
             \/ \E stage \in Stages : Advance(t, stage)
             \/ Hold(t) \/ LetGo(t)
  BY <1>2, TicketStep, AdoptedAreFiled
<1>3. CASE \E t \in Filed, q \in Asked : Ask(q, t)
  BY <1>3, AskStep
<1>4. CASE \E S \in SUBSET Filed, to \in Projects, descendants \in BOOLEAN :
             MoveTickets(S, to, descendants)
  BY <1>4, MoveStep
<1>5. CASE \E p \in Projects :
             \/ \E flow \in Flows : PutWorkflow(p, flow)
             \/ \E force \in BOOLEAN : FreezeProject(p, force)
             \/ ThawProject(p)
  BY <1>5, ProjectStep
<1>6. CASE \E p \in Projects, force \in BOOLEAN : DeleteProject(p, force)
  BY <1>6, DeleteStep
<1>7. CASE \E row \in Rows : Attach(row) \/ Detach(row)
  BY <1>7, RecordsStep
<1>8. CASE UNCHANGED filingVars
  BY <1>8 DEF filingVars, FilingInv, FilingTypeOK, FamiliesShareProject, StagesAreKnown,
              Exists, QuestionsKnowHome, NoQuestion
<1> QED BY <1>1, <1>2, <1>3, <1>4, <1>5, <1>6, <1>7, <1>8 DEF FilingNext

\* What every operation of moves.rs, projects.rs and tickets.rs keeps between
\* tickets, projects, workflows and questions.
THEOREM FilingInvariant == FilingSpec => []FilingInv
BY FilingInitGood, FilingStep, PTL DEF FilingSpec

\* A parent and its child are in one project, for any number of either
\* (move_tickets keeps, cuts or orphans; patch_ticket and create_ticket refuse).
THEOREM FamiliesShareProjectHolds == FilingSpec => []FamiliesShareProject
<1>1. FilingInv => FamiliesShareProject
  BY DEF FilingInv
<1> QED BY <1>1, FilingInvariant, PTL

\* Every ticket stands in a state of its project's workflow, for any workflows
\* (put_workflow asks for the states in use, move_tickets lands on initial).
THEOREM StagesAreKnownHolds == FilingSpec => []StagesAreKnown
<1>1. FilingInv => StagesAreKnown
  BY DEF FilingInv
<1> QED BY <1>1, FilingInvariant, PTL

\* Wherever tickets are moved they stand beside their parents, in a state their
\* project knows.
THEOREM FiledWellHolds == FilingSpec => []FiledWell
<1>1. FilingInv => FiledWell
  BY DEF FilingInv, FiledWell
<1> QED BY <1>1, FilingInvariant, PTL

\* Only deleting a project makes it go.
LEMMA OnlyDeleteEnds ==
    ASSUME FilingInv, [FilingNext]_filingVars, NEW p \in Projects,
           Exists(p), projects'[p].status = "gone"
    PROVE  \E force \in BOOLEAN : DeleteProject(p, force)
<1> USE DEF FilingInv, FilingTypeOK, Exists
<1>1. projects' # projects
  OBVIOUS
<1>2. PICK r \in Projects :
        \/ \E flow \in Flows : PutWorkflow(r, flow)
        \/ \E force \in BOOLEAN : FreezeProject(r, force) \/ DeleteProject(r, force)
        \/ ThawProject(r)
  BY <1>1 DEF FilingNext, filingVars, CreateTicket, Refile, Advance, Hold, LetGo, Ask,
              MoveTickets, Attach, Detach
<1>3. ~\E flow \in Flows : PutWorkflow(r, flow)
  BY DEF PutWorkflow
<1>4. ~\E force \in BOOLEAN : FreezeProject(r, force)
  BY DEF FreezeProject
<1>5. ~ThawProject(r)
  BY DEF ThawProject
<1>6. PICK force \in BOOLEAN : DeleteProject(r, force)
  BY <1>2, <1>3, <1>4, <1>5
<1>7. r = p
  BY <1>6 DEF DeleteProject
<1> QED BY <1>6, <1>7

\* Deleting a project takes the questions on its tickets and no others
\* (delete_project selects them by the copied column and by the ticket).
THEOREM DeleteTakesItsOwnHolds == FilingSpec => DeleteTakesItsOwn
<1>1. ASSUME FilingInv, [FilingNext]_filingVars
      PROVE  [\A p \in Projects : Exists(p) /\ projects'[p].status = "gone" =>
                \A q \in Asked : asked'[q] # asked[q] <=> asked[q].about \in In(p)]_filingVars
  <2> SUFFICES ASSUME NEW p \in Projects, Exists(p), projects'[p].status = "gone",
                      NEW q \in Asked
               PROVE  asked'[q] # asked[q] <=> asked[q].about \in In(p)
    OBVIOUS
  <2>1. PICK force \in BOOLEAN : DeleteProject(p, force)
    BY <1>1, OnlyDeleteEnds
  <2>2. asked'[q] = IF q \in QuestionsOf(p) THEN NoQuestion ELSE asked[q]
    BY <2>1 DEF DeleteProject
  <2>3. q \in QuestionsOf(p) <=> asked[q].about \in In(p)
    BY <1>1, FilingAssumption DEF FilingInv, QuestionsKnowHome, NoQuestion, QuestionsOf, In
  <2>4. asked[q].about \in In(p) => asked[q] # NoQuestion
    BY FilingAssumption DEF In, NoQuestion
  <2> QED BY <2>2, <2>3, <2>4
<1> QED BY <1>1, FilingInvariant, PTL DEF FilingSpec, DeleteTakesItsOwn
=============================================================================
