SPECIFICATION Spec
CONSTANTS
    h1 = h1
    h2 = h2
    p1 = p1
    p2 = p2
    n1 = n1
    Homeworks = {h1, h2}
    Problems = {p1, p2}
    Notices = {n1}
    Html = {}
    FirstDb <- First
    MaxClicks = 2
    MaxChanges = 2
    None = None
INVARIANTS TypeOK PageSettles FormSound
PROPERTY SavesKeepProblems
CHECK_DEADLOCK FALSE
