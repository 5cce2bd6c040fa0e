CONSTANTS
    a = a
    b = b
    Handlers = {h1, h2}
    Subs = {s}
    Names = {a, b}
    Tables = {1, 2}
    Base <- MCBase
    Offered <- MCOffered
    Lists <- MCLists
    SettingsKeys = {"policies", "ttl"}
    EnvKeys = {}
    Buffered = 1
    MaxRequests = 2
    MaxBoots = 1
    Faults = {"db", "panic", "crash"}
SPECIFICATION FairSpec
INVARIANTS PublishedValid SerialDurable NewestLast
PROPERTY RepliesEventually
CHECK_DEADLOCK FALSE
