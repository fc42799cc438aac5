CONSTANTS
    t1 = t1
    t2 = t2
    t3 = t3
    r1 = r1
    NoThread = NoThread
    Threads = {t1, t2, t3}
    Reactors = {r1}
    Pollers = {t2}
    Assistants = {t3}
    items <- TwoPolled
    Kinds = {"data", "timer"}
    MaxEvents = 2
SPECIFICATION Spec
CHECK_DEADLOCK FALSE
INVARIANTS WaitersExact
