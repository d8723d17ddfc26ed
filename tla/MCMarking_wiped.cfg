SPECIFICATION Spec
CONSTANTS
    u1 = u1
    u2 = u2
    s60 = s60
    s100 = s100
    Students = {u1, u2}
    Scores = {s60, s100}
    Members = {u1, u2}
    FirstMarks <- First
    Testers = {u2}
    MaxClicks = 2
    MaxChanges = 2
    Unmarked = Unmarked
    None = None

PROPERTY MarksOnlyAfterQuestion
CHECK_DEADLOCK FALSE
