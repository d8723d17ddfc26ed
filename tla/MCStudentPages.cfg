SPECIFICATION Spec
CONSTANTS
    None = None
    h1 = h1
    h2 = h2
    p1 = p1
    p2 = p2
    n1 = n1
    n2 = n2
    u1 = u1
    TestKinds = {"1"}
    Limit <- Tests
    MaxClicks = 2
    FirstResults <- Results
    MaxResults = 2
    Homeworks = {h1, h2}
    Problems = {p1, p2}
    Notices = {n1, n2}
    Assistants = {u1}
    FirstDb <- Course
    MaxLoads = 2
    MaxChanges = 1
    MaxMishaps = 1
INVARIANTS TypesOK ShownIsStored CardsFitPanel SubmissionsAllowed
CHECK_DEADLOCK FALSE
