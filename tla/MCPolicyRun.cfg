SPECIFICATION Spec
CONSTANTS
    d1 = d1
    d2 = d2
    p = p
    q = q
    Domains <- MCDomains
    A4 = {p}
    A6 = {q}
    TTL = 0
    FailedTTL = 0
    MaxAge = 1
    maxRowsPerTx = 1
    Faults = {"db", "write", "crash", "close"}
INVARIANTS
    RecordsNotNewer
    ExportComplete
    AnswersExported
    RoutesFollowFiles
    ValidHasRecords
SYMMETRY MCSymmetry
