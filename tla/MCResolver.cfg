\* Three domains, two workers: the channels fill up and workers idle.
\* A batch comes to an end, so there are states without a successor.
SPECIFICATION FairSpec
CONSTANTS
    d1 = d1
    d2 = d2
    d3 = d3
    x = x
    y = y
    Domains <- MCDomains
    Names <- MCNames
    Zones <- MCZones
    FollowCNAME = TRUE
    MaxCNAMEChain = 2
    Workers = {w1, w2}
    Retries = 1
INVARIANTS
    ExactlyOnePlace
    VerdictsTrue
PROPERTY BatchEnds
CHECK_DEADLOCK FALSE
