SPECIFICATION AskSpec
CHECK_DEADLOCK FALSE
CONSTANTS
    a = a
    b = b
    h = h
    e = e
    c = c
    d = d
    q1 = q1
    q2 = q2
    l1 = l1
    NoOne = NoOne
    Never = Never
    NoEcho = NoEcho
    NoTicket = NoTicket
    System = System
    NoForm = NoForm
    NoState = NoState
    Actors = {a, h}
    Admins = {}
    Tickets = {c}
    Epics = {}
    States <- GatedStates
    Category <- GatedCategory
    Claimable = {"todo"}
    Terminal = {"cancelled"}
    Edges <- GatedEdges
    Scopes <- OneAgentOneHuman
    Parent0 <- NoParents
    Deps0 <- NoDeps
    State0 <- ParkedStart
    TTLs = {1}
    Rank <- SameRank
    Filters <- JustEveryone
    OccursUntil <- Timeless
    ReparentTo = {}
    DepEdges = {}
    LinkWriters = {}
    Archivable = {}
    MaxTime = 1
    MaxFence = 2
    MaxLag = 1
    Questions = {q1, q2}
    About <- AboutC
    Forms <- TwoQuestions
    Tagged = {}
    Experts = {}
    Assignable = {}
    Askers = {a}
    Relayers = {}
    Links = {}
    MinWindow = 1
    MaxReopens = 1
PROPERTIES
    LastAnswerResumes
    DeadlineIsKept
