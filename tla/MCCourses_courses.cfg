SPECIFICATION RSpec
CONSTANTS
    q1 = q1
    q2 = q2
    q3 = q3
    s1 = s1
    s2 = s2
    ta = ta
    ad = ad
    p1 = p1
    p2 = p2
    old = old
    oldhw = oldhw
    None = None
    Users = {s1, s2, ta, ad}
    Problems = {p1, p2}
    Role <- Roles
    OldCourse = old
    OldMembers <- Members
    OldHw = oldhw
    OldProblems = {p1}
    Reqs = {q1, q2, q3}
    Inputs <- AllInputs
INVARIANTS TypeOK SidesAgree HomeworksListed StatesMatch
