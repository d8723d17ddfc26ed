SPECIFICATION Spec
CONSTANTS
    Reqs = {r1, r2, r3, r4}
    RowIds = {r1, r2, r3, r4}
    r1 = r1
    r2 = r2
    r3 = r3
    r4 = r4
    Users = {u1, u2, u3}
    Homeworks = {h1}
    Problems = {p1, p2}
    Langs = {c, script}
    Gears = {g1, g2}
    Files = {f1, f2}
    u1 = u1
    u2 = u2
    u3 = u3
    h1 = h1
    p1 = p1
    p2 = p2
    c = c
    script = script
    g1 = g1
    g2 = g2
    f1 = f1
    f2 = f2
    None = None
    ScriptLang = script
    Locks = {1, 2, 3}
    Inputs <- FinalInputs
    Enrolled <- NotU3
    HwProblems <- OnlyP1
    Limit <- Limits
    HwLock <- ByProblem
    OpenLock <- ByUser
SYMMETRY Sym
INVARIANTS TypeOK OneFinalRecord TotalCountsSubmitters LastSubmissionWins RowsMatchFiles
