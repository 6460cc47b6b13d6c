SPECIFICATION TicketsSpec
CHECK_DEADLOCK FALSE
CONSTANTS
    a = a
    b = b
    h = h
    e = e
    c = c
    d = d
    NoOne = NoOne
    Never = Never
    NoEcho = NoEcho
    NoTicket = NoTicket
    System = System
    Actors = {a, b, h}
    Admins = {h}
    Tickets = {e, c, d}
    Epics = {}
    States <- FlowStates
    Category <- FlowCategory
    Claimable = {"todo"}
    Terminal = {"done"}
    Edges <- FlowEdges
    Scopes <- OneAgentOneHuman
    Parent0 <- NoParents
    Deps0 <- NoDeps
    State0 <- OneOpen
    TTLs = {1, 2}
    Rank <- SameRank
    Filters <- EveryoneOrChild
    OccursUntil <- Timeless
    ReparentTo <- AllParents
    DepEdges <- AllPairs
    LinkWriters = {c}
    Archivable = {c}
    MaxTime = 4
    MaxFence = 3
    MaxLag = 1
    p1 = p1
    p2 = p2
    t1 = t1
    t2 = t2
    t3 = t3
    s1 = s1
    Projects = {p1, p2}
    Filed = {t1, t2, t3}
    Asked = {s1}
    Flows <- TwoFlows
    NoProject = NoProject
    NoParent = NoParent
    Rows <- OneSchedule
    Adoptions <- InARow
    Workers = {t3}
INVARIANTS
    OnlyHolderMoves
    RestingUnheld
    NoRings
    FiledWell
PROPERTIES
    ExpiryIsNoticed
    DeleteTakesItsOwn
    LeaseRefined
