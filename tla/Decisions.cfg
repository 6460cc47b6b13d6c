SPECIFICATION DecisionsSpec
CONSTANTS
    a = a
    b = b
    h = h
    e = e
    c = c
    d = d
    q1 = q1
    q2 = q2
    l1 = l1
    NoOne = NoOne
    Never = Never
    NoEcho = NoEcho
    NoTicket = NoTicket
    System = System
    NoForm = NoForm
    NoState = NoState
    Actors = {a, b, h}
    Admins = {h}
    Tickets = {c}
    Epics = {}
    States <- GatedStates
    Category <- GatedCategory
    Claimable = {"todo"}
    Terminal = {"cancelled"}
    Edges <- GatedEdges
    Scopes <- OneAgentOneHuman
    Parent0 <- NoParents
    Deps0 <- NoDeps
    State0 <- ParkedStart
    TTLs = {}
    Rank <- SameRank
    Filters <- JustEveryone
    OccursUntil <- Timeless
    ReparentTo = {}
    DepEdges = {}
    LinkWriters = {}
    Archivable = {}
    MaxTime = 2
    MaxFence = 0
    MaxLag = 1
    Questions = {q2}
    About <- AboutC
    Forms <- SignOffs
    Tagged = {q2}
    Experts = {}
    Assignable = {h}
    Askers = {a}
    Relayers = {a, b}
    Links = {l1}
    MinWindow = 1
    MaxReopens = 1
    ann = ann
    ben = ben
    rev = rev
    chg = chg
    t1 = t1
    t2 = t2
    n1 = n1
    n2 = n2
    a1 = a1
    a2 = a2
    a3 = a3
    People = {ann, ben}
    Users = {ann, ben}
    Overseers = {}
    Threads = {t1, t2}
    Sends = {rev, chg}
    SendOf <- TwoSends
    Acts = {a1, a2}
    Tries <- SomeTries
    Calls = {n1, n2}
    NoCall = NoCall
    MaxWhims = 2
    NoReview = NoReview
    NoAct = NoAct
    NoThread = NoThread
    x = x
    y = y
    p1 = p1
    p2 = p2
    server = server
    page = page
    Blocks = {x, y}
    FirstText <- XThenY
    Offers = {p1, p2}
    Drafts <- SomeDrafts
    Server = server
    Pages = {page}
    MaxPending = 2
    MaxUpsets = 1
    NoDraft = NoDraft
INVARIANTS
    ApprovalIsProof
    SentAsOne
    RecordsAreTrue
PROPERTIES
    FrozenStaysPut
    LinkAnswersItsCycle
    ReceiptsAreTrue
    ActionsMeetThePresent
    OpsLandAsMeant
SYMMETRY Twins
