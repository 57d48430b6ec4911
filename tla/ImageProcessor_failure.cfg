\* A single failing call: is the failure recorded in the document?
SPECIFICATION Spec
CONSTANTS
    w1 = w1
    w2 = w2
    r1 = r1
    r2 = r2
    NoRequest = NoRequest
    Workers = {w1}
    Requests <- OneRequest
    NumImages <- TwoImages
    FaultKinds = {"call"}
    MaxFaults = 1
    MaxAttempts = 1
INVARIANT
    FailureIsRecorded
CHECK_DEADLOCK FALSE
