SPECIFICATION Spec
CONSTANTS
    a = a
    b = b
    h = h
    e = e
    c = c
    d = d
    NoOne = NoOne
    Never = Never
    NoEcho = NoEcho
    NoTicket = NoTicket
    System = System
    Actors = {a, b}
    Admins = {b}
    Tickets = {e, c}
    Epics = {e}
    States <- ShortStates
    Category <- ShortCategory
    Claimable = {"todo"}
    Terminal = {"done"}
    Edges <- ShortEdges
    Scopes <- NoScopes
    Parent0 <- NoParents
    Deps0 <- NoDeps
    State0 <- AllTodo
    TTLs = {1, 2}
    Rank <- EpicLast
    Filters <- EveryoneOrChild
    OccursUntil <- FirstOccursUntil2
    ReparentTo <- ChildUnderEpic
    DepEdges = {}
    LinkWriters = {}
    Archivable = {e, c}
    MaxTime = 4
    MaxFence = 3
    MaxLag = 0
INVARIANTS
    EpicReserved
