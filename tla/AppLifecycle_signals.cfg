\* An API or a consumer, started twice, with two failures anywhere.
SPECIFICATION FairAppSpec
CONSTANTS
    s1 = s1
    t1 = t1
    f1 = f1
    f2 = f2
    q1 = q1
    q2 = q2
    Subscriptions = {s1}
    FaultKinds = {"call", "processor", "schemaFile", "registry", "file", "kill", "database"}
    MaxFaults = 2
    MaxMessages = 1
    SchemaFiles = {f1, f2}
    PublishTopics = {t1}
    DlqRequired = {t1}
    Requests = {q1, q2}
    MaxStarts = 2
INVARIANTS
    AppTypeOK
    WorksInitialized
    RequestsAreServed
    DrainsUnrouted
PROPERTIES
    StartedComesToWork
    LostDatabaseIsNoticed
\* The container is gone after its last start.
CHECK_DEADLOCK FALSE
