SPECIFICATION Spec
CONSTANTS
    None = None
    u1 = u1
    u2 = u2
    me = me
    s60 = s60
    s100 = s100
    Unknown = Unknown
    Unmarked = Unmarked
    Users = {me, u1, u2}
    Me = me
    Assistants = {me}
    FirstCourse <- FirstOfCourse
    MaxPosts = 2
    MaxMounts = 3
    Languages = {"1", "3"}
    FirstRow <- FirstOfForm
    MaxFiles = 2
    MaxSaves = 2
    MaxFormClicks = 7
    Students = {u1, u2}
    Scores = {s60, s100}
    Members = {u1, u2}
    FirstMarks <- FirstOfMarking
    Testers = {u2}
    MaxClicks = 2
    MaxChanges = 2
INVARIANTS TypesOK PagesFit ProblemIsForm
PROPERTY NothingLost
CHECK_DEADLOCK FALSE
