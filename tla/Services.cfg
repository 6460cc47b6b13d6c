SPECIFICATION Spec
CHECK_DEADLOCK FALSE
CONSTANTS
    section = section
    bug = bug
    note = note
    asker = asker
    q1 = q1
    q2 = q2
    s1 = s1
    s2 = s2
    NoService = NoService
    NoJob = NoJob
    Chats = {section}
    Bugs = {bug}
    Notes = {note}
    Actors = {asker}
    Requests = {q1, q2}
    Services = {s1, s2}
    Lease = 1
    MaxRun = 2
    MaxTurns = 2
    MaxTicketRuns = 1
    MaxJobs = 2
    MaxSwitches = 1
    l1 = l1
    t1 = t1
    h1 = h1
    h2 = h2
    p1 = p1
    w1 = w1
    x = x
    y = y
    v = v
    NoWorker = NoWorker
    NoWork = NoWork
    Lanes = {l1}
    Tickets = {t1}
    Handoffs = {h1, h2}
    Plans = {p1}
    Workers = {w1}
    Texts = {x, y}
    Work = {v}
    WorkLease = 1
    MaxAttempts = 2
    MaxTouches = 1
    daily = daily
    weekly = weekly
    Never = Never
    Rules = {daily, weekly}
    Broken = {}
    Cadences = {2}
    Ends = {4, Never}
    MaxMissed = 3
    MaxTime = 5
    MaxChanges = 4
    g = g
    k1 = k1
    ra = ra
    rb = rb
    rc = rc
    aa = aa
    ab = ab
    ac = ac
    NoGrantor = NoGrantor
    Grantors = {g}
    Codes = {k1}
    Refreshes = {ra, rb, rc}
    Accesses = {aa, ab, ac}
    CodeTTL = 1
    AccessTTL = 2
    RefreshTTL = 3
    Retention = 1
INVARIANTS
    OneRunEach
    RepliesFollowQuestions
    ReviewsSeeFinalWork
    OneTicketPerSlot
    CutStaysCut
PROPERTIES
    UnseenEditsSurvive
    RunsEnd
    DueSlotsAreServed
    WithdrawalEndsAccess
