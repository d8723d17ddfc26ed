SPECIFICATION Spec
CONSTANTS
    stu = stu
    ta = ta
    ad = ad
    t1 = t1
    t2 = t2
    Users = {stu, ta, ad}
    Tabs = {t1, t2}
    Role <- Roles
    Registered = {ta, ad}
    MaxPosts = 4
    Guest = Guest
    None = None
SYMMETRY TabSymmetry
INVARIANT ShownIsSession
CHECK_DEADLOCK FALSE
