SPECIFICATION BoardSpec
CONSTANTS
    a = a
    b = b
    h = h
    e = e
    c = c
    d = d
    NoOne = NoOne
    Never = Never
    NoEcho = NoEcho
    NoTicket = NoTicket
    System = System
    Actors = {a, b}
    Admins = {b}
    Tickets = {e, c, d}
    Epics = {e, c}
    States <- ShortStates
    Category <- ShortCategory
    Claimable = {"todo"}
    Terminal = {"done"}
    Edges <- ShortEdges
    Scopes <- NoScopes
    Parent0 <- EpicOverEpic
    Deps0 <- NoDeps
    State0 <- AllTodo
    TTLs = {1}
    Rank <- EpicLast
    Filters <- EveryoneOrChild
    OccursUntil <- FirstOccursUntil2
    ReparentTo <- GrandchildMoves
    DepEdges = {}
    LinkWriters = {}
    Archivable = {}
    MaxTime = 2
    MaxFence = 2
    MaxLag = 1
    here = here
    away = away
    board = board
    Homes = {here, away}
    NoHome = NoHome
    Everywhere = Everywhere
    Views = {board}
    Of <- OfHere
    Listens <- BoardTopics
    Reads <- BoardReads
    Writes <- SomeWrites
    Capacity = 1
    MaxWrites = 2
    MaxFaults = 1
    MaxWhims = 1
INVARIANTS
    QueueIsHonest
    QuietIsCurrent
PROPERTIES
    PagesCatchUp
    ReservationsKept
