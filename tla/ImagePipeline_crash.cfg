\* One pod that crashes, loses answers and dead letters, and is given duplicates; a request has no images.
SPECIFICATION FairPipelineSpec
CONSTANTS
    w1 = w1
    w2 = w2
    r1 = r1
    r2 = r2
    NoWorker = NoWorker
    NoRequest = NoRequest
    Workers = {w1}
    Requests = {r1, r2}
    NumImages <- OneAndNone
    InitialCommitted = 0
    FaultKinds = {"create", "publish", "apiCrash", "call", "webhook", "crash", "decode", "broker"}
    MaxFaults = 3
    MaxMessages = 3
    \* Bounds Next of ImageProcessor only.
    MaxAttempts = 0
INVARIANT
    OpenRequestsAreDeadLettered
PROPERTIES
    ImplementsExclusiveLifecycle
    AcceptedIsHandled
\* The pods are idle when the topic holds no more messages.
CHECK_DEADLOCK FALSE
