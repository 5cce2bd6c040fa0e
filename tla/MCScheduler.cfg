SPECIFICATION SFairSpec
CONSTANTS
    c1 = c1
    c2 = c2
    k1 = k1
    u1 = u1
    u2 = u2
    Callers <- MCCallers
    Ticks <- MCTicks
    Cancellers <- MCCancellers
    Controllers <- MCControllers
    HistoryLimit = 2
    MaxPolicies = 1
    MaxRuns = 3
    MaxStarts = 2
INVARIANTS
    SingleFlight
    HistoryContiguous
    BusyIdRecent
    StatusLagsOnlyFailure
    StopQuiesces
    OrphanNeedsTwoStops
PROPERTIES
    CancelOnlyInFlight
    EventsAlternate
    EveryTriggerReturns
    ImplementsLedger
    StopReturns
    UsesOrchestrator
