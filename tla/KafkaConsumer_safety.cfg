\* Two members, the Redis cache and every kind of fault; a new group that starts at the end.
SPECIFICATION Spec
CONSTANTS
    c1 = c1
    c2 = c2
    m1 = m1
    NoConsumer = NoConsumer
    Messages = {m1}
    Consumers = {c1, c2}
    FromBeginning = FALSE
    DlqRequired = TRUE
    Cached = TRUE
    InitialCommitted <- NeverCommitted
    FaultKinds = {"crash", "rebalance", "cache", "broker", "decode"}
    MaxFaults = 3
    MaxMessages = 3
SYMMETRY Symmetry
INVARIANT TypeOK
PROPERTIES
    CommitsAreHandled
    SkippedAreHandled
\* The members are idle when the topic holds no more messages.
CHECK_DEADLOCK FALSE
