SPECIFICATION Spec
CONSTANTS
    Jobs = {t1, t2, s1, s2}
    t1 = t1
    t2 = t2
    s1 = s1
    s2 = s2
    None = None
    Kind <- TwoEach
    NoSource = {s2}
    MaxUpdates = 1
INVARIANTS TypeOK SecondIsFallback NoOlderVerdict
PROPERTIES EveryJobReported ImplementsService
