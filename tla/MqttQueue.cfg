\* Caching, with entries that may expire at once, two processes that queue for the
\* same topics, lost connections and a crash.
SPECIFICATION FairSpec
CONSTANTS
    backend = backend
    worker = worker
    t1 = t1
    t2 = t2
    a = a
    b = b
    NoPayload = NoPayload
    Backend = backend
    Publishers <- BackendAndWorker
    Topics <- BothTopics
    Payloads <- BothPayloads
    MaxInQueue = 2
    Caching = TRUE
    MaxMessages = 3
    MaxCrashes = 1
CHECK_DEADLOCK FALSE
INVARIANTS
    QueueIsBounded
    LatestIsOnItsWay
PROPERTIES
    ImplementsChannel
    QueueIsEmptied
