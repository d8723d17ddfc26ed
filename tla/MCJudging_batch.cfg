SPECIFICATION JSpec
CONSTANTS
    Reqs = {r1, r2}
    RowIds = {r1, r2}
    Tas = {a1, a2}
    r1 = r1
    r2 = r2
    r3 = r3
    a1 = a1
    a2 = a2
    Users = {u1, u2}
    Homeworks = {h1}
    Problems = {p1, p2}
    Langs = {c, script}
    Gears = {g1}
    Files = {f1, f2}
    u1 = u1
    u2 = u2
    h1 = h1
    p1 = p1
    p2 = p2
    c = c
    script = script
    g1 = g1
    f1 = f1
    f2 = f2
    None = None
    ScriptLang = script
    Locks = {1, 2, 3}
    Inputs <- BatchInputs
    Enrolled <- AllEnrolled
    HwProblems <- OnlyP1
    Limit <- Limits
    HwLock <- ByProblem
    OpenLock <- ByUser
    Kinds = {"all"}
    Method <- Code
    Disciplined = TRUE
INVARIANTS CountsAddUp VerdictOfFile FinishedMeansReported
PROPERTIES BatchEnds SubmissionJudged
