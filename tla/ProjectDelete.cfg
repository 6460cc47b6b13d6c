SPECIFICATION FilingSpec
CHECK_DEADLOCK FALSE
CONSTANTS
    p1 = p1
    p2 = p2
    t1 = t1
    t2 = t2
    t3 = t3
    s1 = s1
    Projects = {p1, p2}
    Filed = {t1, t2, t3}
    Asked = {s1}
    Flows <- TwoFlows
    NoProject = NoProject
    NoParent = NoParent
    Rows <- AnyRow
    Adoptions <- InARow
    Workers = {t3}
INVARIANTS
    DeleteGoesThrough
