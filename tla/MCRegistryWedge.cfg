SPECIFICATION Spec
CONSTANTS
    Threads = {t1, t2, t3}
    Ids = {s1}
    Offered <- MCNested
    Wanted = {"p"}
    MaxOps = 3
    Faults = {}
INVARIANT NoWedge
CHECK_DEADLOCK FALSE
