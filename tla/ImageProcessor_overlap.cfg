\* Two workers attempt a request of two images, or one without images, at the same time.
SPECIFICATION FairSpec
CONSTANTS
    w1 = w1
    w2 = w2
    r1 = r1
    r2 = r2
    NoRequest = NoRequest
    Workers = {w1, w2}
    Requests <- TwoRequests
    NumImages <- TwoAndNone
    FaultKinds = {"call", "webhook", "crash"}
    MaxFaults = 2
    MaxAttempts = 3
INVARIANTS
    TypeOK
    SucceededIsComplete
    WebhookAfterOutputsStored
    TempDirReleased
    ResolvedIsFinal
PROPERTIES
    SuccessNotRevoked
    ImplementsLifecycle
    AttemptSettles
\* The workers stop when the bound on attempts is reached.
CHECK_DEADLOCK FALSE
