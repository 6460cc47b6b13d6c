SPECIFICATION DocumentsSpec
CHECK_DEADLOCK FALSE
CONSTANTS
    here = here
    there = there
    Replicas = {here, there}
    MaxId = 4
    Seeded <- FirstTwo
    Base = 4
    MaxKeyLen = 3
    MaxDepth = 2
    MaxNodes = 4
    MaxGrow = 2
    MaxEdits = 2
    MaxSpot = 1
    s = s
    c = c
    x = x
    z = z
    y = y
    r1 = r1
    r2 = r2
    Cli = Cli
    NoRoom = NoRoom
    NoEdit = NoEdit
    Flusher = Flusher
    Sockets = {s}
    Callers = {c}
    Editors = {s}
    Edits = {x, y, z}
    Author <- TwoTyped
    RoomIds = {r1, r2}
    CompactAfter = 2
    MaxUpdate = 1
    MaxHeld = 1
    MaxObject = 5
    JoinAttempts = 2
    ResetAttempts = 2
    MaxEvents = 2
    MaxSeq = 8
INVARIANTS
    OneReplica
    FreezeReachesRoom
    SavedIsWritten
    ShownIsKept
    TreeIsWhole
PROPERTIES
    LogKeepsEdits
    MovesStayLocal
    AimIsMet
    QueueDrains
    NothingLingers
