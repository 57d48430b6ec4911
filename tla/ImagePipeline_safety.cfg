\* Every kind of fault, two pods, one request that may be published up to three times.
SPECIFICATION PipelineSpec
CONSTANTS
    w1 = w1
    w2 = w2
    r1 = r1
    r2 = r2
    NoWorker = NoWorker
    NoRequest = NoRequest
    Workers = {w1, w2}
    Requests <- OneRequest
    NumImages <- OneOfOne
    InitialCommitted = 0
    FaultKinds = {"create", "publish", "apiCrash", "call", "webhook", "crash", "rebalance", "decode", "broker"}
    MaxFaults = 3
    MaxMessages = 3
    \* Bounds Next of ImageProcessor only.
    MaxAttempts = 0
SYMMETRY Symmetry
INVARIANTS
    PipelineTypeOK
    QueuedIsCreated
PROPERTY
    ImplementsLifecycle
\* The pods are idle when the topic holds no more messages.
CHECK_DEADLOCK FALSE
