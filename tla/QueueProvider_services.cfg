\* Two subscriptions of either service, and two failures anywhere.
SPECIFICATION FairProviderSpec
CONSTANTS
    s1 = s1
    s2 = s2
    m1 = m1
    m2 = m2
    none = none
    Subscriptions = {s1, s2}
    FaultKinds = {"call", "processor", "send", "close", "lock", "settle"}
    MaxFaults = 2
    MaxMessages = 2
    Messages = {m1}
    NoMessage = none
    MaxDeliveries = 2
INVARIANTS
    ProviderTypeOK
    FailingMessageHasProducer
    DisconnectDrains
    CallsAreTrue
PROPERTIES
    ImplementsQueue
    DisconnectSettles
    QueuedIsSettled
\* The process ends when it has disconnected.
CHECK_DEADLOCK FALSE
