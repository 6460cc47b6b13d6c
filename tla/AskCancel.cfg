SPECIFICATION AskSpec
CHECK_DEADLOCK FALSE
CONSTANTS
    a = a
    b = b
    h = h
    e = e
    c = c
    d = d
    q1 = q1
    q2 = q2
    l1 = l1
    NoOne = NoOne
    Never = Never
    NoEcho = NoEcho
    NoTicket = NoTicket
    System = System
    NoForm = NoForm
    NoState = NoState
    Actors = {a, h}
    Admins = {}
    Tickets = {c}
    Epics = {c}
    States <- GatedStates
    Category <- GatedCategory
    Claimable = {"todo"}
    Terminal = {"cancelled"}
    Edges <- SimpleEdges
    Scopes <- OneAgentOneHuman
    Parent0 <- NoParents
    Deps0 <- NoDeps
    State0 <- ParkedStart
    TTLs = {}
    Rank <- SameRank
    Filters <- JustEveryone
    OccursUntil <- Timeless
    ReparentTo = {}
    DepEdges = {}
    LinkWriters = {}
    Archivable = {}
    MaxTime = 1
    MaxFence = 2
    MaxLag = 0
    Questions = {q1}
    About <- AboutC
    Forms <- CancelQuestion
    Tagged = {}
    Experts = {}
    Assignable = {}
    Askers = {a}
    Relayers = {}
    Links = {}
    MinWindow = 1
    MaxReopens = 0
PROPERTIES
    DeadlineIsKept
