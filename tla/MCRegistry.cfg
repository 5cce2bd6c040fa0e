SPECIFICATION Spec
CONSTANTS
    Threads = {t1, t2, t3}
    Ids = {s1, s2}
    Offered <- MCOffered
    Wanted = {"p"}
    MaxOps = 3
    Faults = {"db", "load"}
SYMMETRY MCSymmetry
INVARIANTS Agreement ReadersClosed NoOtherWedge
CHECK_DEADLOCK FALSE
