\* Two clients, two publishers with more events than a buffer holds.
\* A behaviour ends when the bound on events is reached or after a panic.
SPECIFICATION FairSpec
CONSTANTS
    orch = orch
    watcher = watcher
    Clients = {c1, c2}
    Publishers = {orch, watcher}
    Topics <- MCTopics
    TopicOf <- MCTopicOf
    Cap = 2
    MaxEvents = 2
INVARIANT InOrder
PROPERTIES
    PanicsExplained
    PublishReturns
CHECK_DEADLOCK FALSE
