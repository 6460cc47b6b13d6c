SPECIFICATION Spec
CONSTANTS
    a = a
    b = b
    h = h
    e = e
    c = c
    d = d
    NoOne = NoOne
    Never = Never
    NoEcho = NoEcho
    NoTicket = NoTicket
    System = System
    Actors = {a}
    Admins = {a}
    Tickets = {e, c, d}
    Epics = {e}
    States <- ShortStates
    Category <- ShortCategory
    Claimable = {"todo"}
    Terminal = {"done"}
    Edges <- ShortEdges
    Scopes <- NoScopes
    Parent0 <- NoParents
    Deps0 <- NoDeps
    State0 <- AllTodo
    TTLs = {1}
    Rank <- EpicLast
    Filters <- EveryoneOrChild
    OccursUntil <- Timeless
    ReparentTo <- AllParents
    DepEdges <- AllPairs
    LinkWriters = {}
    Archivable = {e, c, d}
    MaxTime = 1
    MaxFence = 1
    MaxLag = 0
INVARIANTS
    NoTicketWaitsOnItself
