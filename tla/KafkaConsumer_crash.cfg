\* Crashes and errors without overlapping members; a new group from the beginning.
SPECIFICATION FairSpec
CONSTANTS
    c1 = c1
    c2 = c2
    m1 = m1
    NoConsumer = NoConsumer
    Messages = {m1}
    Consumers = {c1, c2}
    FromBeginning = TRUE
    DlqRequired = TRUE
    Cached = TRUE
    InitialCommitted <- NeverCommitted
    FaultKinds = {"crash", "cache", "broker", "decode"}
    MaxFaults = 2
    MaxMessages = 3
PROPERTIES
    ImplementsQueue
    RecordedIsSkipped
    EveryMessageHandled
\* The members are idle when the topic holds no more messages.
CHECK_DEADLOCK FALSE
