----------------------------- MODULE AppLifecycle -----------------------------
(***************************************************************************)
(* The life of one container of the application, from bootstrap() of       *)
(* main.ts to its end: an API that initializes the schemas and the topics  *)
(* before it listens, answers requests and shuts down through the hooks of *)
(* Nest, or a consumer that subscribes and writes the liveness file.  Its  *)
(* connections are those of KafkaService.tla, which this module composes   *)
(* with the database and with the signals and probes of the cluster.       *)
(*                                                                         *)
(* Nest is external: create() waits for the factories of the providers,    *)
(* listen() for the hooks onApplicationBootstrap; SIGTERM, once the hooks  *)
(* are enabled, closes the server, waits for the requests it is handling   *)
(* and then calls onApplicationShutdown of every provider.  So is the      *)
(* kubelet: it restarts a container whose liveness probe fails, and ends   *)
(* one with the preStop hook of the chart and then SIGTERM.                *)
(***************************************************************************)
EXTENDS KafkaService

CONSTANTS
    SchemaFiles,     \* the files in the directory of the schemas
    PublishTopics,   \* PUBLISH_TOPICS of the configuration
    DlqRequired,     \* those of them with a dead letter topic
    Requests,        \* bound: the requests that reach the API
    MaxStarts        \* bound: how often the container is started

ASSUME AppAssumption == DlqRequired \subseteq PublishTopics /\ MaxStarts \in Nat \ {0}

VARIABLES
    app,             \* APP_NAME of the container
    main,            \* where bootstrap() and the application stand
    db,              \* where MongoService stands
    dbUp,            \* readyState === 1: the database answers
    schemas,         \* the schemas in the registry
    topics,          \* [TopicNames -> how the topic was created]
    todo,            \* what is left of the loop of MessagingEntity
    requests,        \* [Requests -> how the request fared]
    told,            \* whether SIGUSR1 came, and found its handler
    shutdownMode,    \* of HealthCheckService
    ready, probed,   \* the last readiness probe, and whether it followed SIGUSR1
    check, file,     \* the last checkLiveness(), and the liveness file
    starts           \* bounded by MaxStarts: the starts so far

appVars == <<app, main, db, dbUp, schemas, topics, todo, requests, told,
             shutdownMode, ready, probed, check, file, starts>>

(* What an ordinary step of bootstrap() or of the processing leaves alone.  *)
broker    == <<schemas, topics>>
signals   == <<told, shutdownMode>>
probes    == <<ready, probed, check, file>>
container == <<app, starts>>

API == "api-app"
Consumers == "consumer-app"
DlqName(t) == <<t, "DLQ">>
TopicNames == {<<t, "topic">> : t \in PublishTopics} \cup {DlqName(t) : t \in DlqRequired}

MainPC == {"create", "registerSchemas", "initializeTopics", "listening", "serving",
           "consume", "consuming", "draining", "closing", "exited"}
Ends == {"clean", "error", "signal", "killed", "uncaught"}

(* A refused request is an upload whose query was rejected: it is answered, *)
(* but its body flows on.  One that an end of the process cuts off is left  *)
(* with the name of that end.                                               *)
RequestState == {"none", "handling", "refused", "answered", "failed"} \cup Ends

AppTypeOK ==
    /\ app \in {API, Consumers} /\ main \in MainPC
    /\ db \in {"connect", "models", "open", "closed", "failed"} /\ dbUp \in BOOLEAN
    /\ schemas \subseteq SchemaFiles
    /\ topics \in [TopicNames -> {"absent", "default", "configured"}]
    /\ todo \subseteq SchemaFiles \cup TopicNames
    /\ requests \in [Requests -> RequestState]
    /\ told \in {"no", "early", "heard"}
    /\ shutdownMode \in BOOLEAN /\ ready \in BOOLEAN /\ probed \in BOOLEAN
    /\ check \in {"none", "write", "written", "failed", "skipped"}
    /\ file \in {"none", "fresh", "stale"}
    /\ starts \in 1..MaxStarts
    /\ main \in {"registerSchemas", "initializeTopics", "listening", "serving", "draining"}
         => app = API
    /\ main \in {"consume", "consuming"} => app = Consumers

(* Other containers may have been here before.                              *)
AppInit ==
    /\ Init
    /\ main = "create" /\ db = "connect" /\ todo = {}
    /\ told = "no" /\ shutdownMode = FALSE
    /\ ready = FALSE /\ probed = FALSE /\ check = "none" /\ file = "none"
    /\ app \in {API, Consumers}
    /\ dbUp = TRUE
    /\ schemas \in SUBSET SchemaFiles
    /\ topics \in [TopicNames -> {"absent", "default", "configured"}]
    /\ requests = [q \in Requests |-> "none"]
    /\ starts = 1

-------------------------------------------------------------------------------
(* The end of the process: a rejection or an error that nobody handles, a   *)
(* signal, or the end of the shutdown.  It takes the requests it was        *)
(* handling along; a refused one has its answer.                            *)
Exit(end) ==
    /\ main' = "exited"
    /\ requests' = [q \in Requests |->
           CASE requests[q] = "handling" -> end
             [] requests[q] = "refused" -> "answered"
             [] OTHER -> requests[q]]
    /\ UNCHANGED <<container, db, dbUp, broker, todo, signals, probes>>

(* An awaited call of bootstrap() that rejects ends the process.            *)
Rejects(kind) == Fault(kind) /\ Exit("error")

KafkaUnchanged == UNCHANGED <<service, admin, producer, sub, consumers, stopping, abandoned>>

-------------------------------------------------------------------------------
(* NestFactory.create(): the factories of the providers, side by side *)

QueueServiceFactory ==
    /\ main = "create"
    /\ ConnectAdmin \/ ConnectProducer
    /\ UNCHANGED appVars

(* connect() of mongoose, and then the models.                              *)
InitiateConnection ==
    /\ main = "create" /\ db = "connect"
    /\ \/ dbUp /\ db' = "models" /\ UNCHANGED faults
       \/ ~dbUp /\ db' = "failed" /\ UNCHANGED faults
    /\ KafkaUnchanged
    /\ UNCHANGED <<container, main, dbUp, broker, todo, requests, signals, probes>>

SetupModels ==
    /\ main = "create" /\ db = "models"
    /\ \/ db' = "open" /\ UNCHANGED faults
       \/ db' = "failed" /\ Fault("call")
    /\ KafkaUnchanged
    /\ UNCHANGED <<container, main, dbUp, broker, todo, requests, signals, probes>>

(* One factory has rejected: create() does, and the process ends.           *)
CreateFails ==
    /\ main = "create"
    /\ service = "failed" \/ db = "failed"
    /\ Exit("error")
    /\ UNCHANGED vars

(* Mutant: both applications initialize the topics, as if one lifecycle     *)
(* service served the two.                                                  *)
CreatedForBoth ==
    /\ main = "create" /\ service = "up" /\ db = "open"
    /\ main' = "registerSchemas" /\ todo' = SchemaFiles
    /\ UNCHANGED <<vars, container, db, dbUp, broker, requests, signals, probes>>

(* All of them have resolved.  onApplicationBootstrap of both applications  *)
(* starts with the handler of SIGUSR1.                                      *)
Created ==
    /\ main = "create" /\ service = "up" /\ db = "open"
    /\ \/ app = API /\ main' = "registerSchemas" /\ todo' = SchemaFiles
       \/ app = Consumers /\ main' = "consume" /\ todo' = {}
    /\ UNCHANGED <<vars, container, db, dbUp, broker, requests, signals, probes>>

-------------------------------------------------------------------------------
(* onApplicationBootstrap of the API *)

(* Mutant: the schemas are registered by a forEach that nobody awaits.      *)
RegisterSchemaNotAwaited(f) ==
    /\ main = "registerSchemas" /\ f \in todo
    /\ todo' = todo \ {f}
    /\ schemas' \in {schemas, schemas \cup {f}}
    /\ UNCHANGED <<vars, container, main, db, dbUp, topics, requests, signals, probes>>

(* registerSchema() of one file: it must be a readable .avsc file, and the  *)
(* registry must accept it.                                                 *)
RegisterSchema(f) ==
    /\ main = "registerSchemas" /\ f \in todo
    /\ \/ /\ todo' = todo \ {f} /\ schemas' = schemas \cup {f}
          /\ UNCHANGED <<faults, container, main, db, dbUp, topics, requests, signals, probes>>
       \/ Rejects("schemaFile")
       \/ Rejects("registry")
    /\ KafkaUnchanged

InitializeTopics ==
    /\ main = "registerSchemas" /\ todo = {}
    /\ main' = "initializeTopics" /\ todo' = TopicNames
    /\ UNCHANGED <<vars, container, db, dbUp, broker, requests, signals, probes>>

(* createTopic() for a topic, and then for its dead letter topic.  A topic  *)
(* that is there already, with whatever partitions, is left as it is.       *)
CreateTopic(n) ==
    /\ main = "initializeTopics" /\ n \in todo
    /\ \A t \in DlqRequired : n = DlqName(t) => <<t, "topic">> \notin todo
    /\ \/ /\ todo' = todo \ {n}
          /\ topics' = [topics EXCEPT ![n] = IF @ = "absent" THEN "configured" ELSE @]
          /\ UNCHANGED <<faults, container, main, db, dbUp, schemas, requests, signals, probes>>
       \/ Rejects("call")
    /\ KafkaUnchanged

Listen ==
    /\ main = "initializeTopics" /\ todo = {}
    /\ main' = "listening"
    /\ UNCHANGED <<vars, container, db, dbUp, broker, todo, requests, signals, probes>>

(* No request is handled before: this runs in the turn in which listen()    *)
(* resolves.                                                                *)
EnableShutdownHooks ==
    /\ main = "listening"
    /\ main' = "serving"
    /\ UNCHANGED <<vars, container, db, dbUp, broker, todo, requests, signals, probes>>

-------------------------------------------------------------------------------
(* The API at work *)

(* A server that closes takes no new connection, but Node 18 leaves those   *)
(* open that are kept alive, and what comes over them is still handled.     *)
Receive(q) ==
    /\ main \in {"serving", "draining"} /\ requests[q] = "none"
    /\ requests' = [requests EXCEPT ![q] = "handling"]
    /\ UNCHANGED <<vars, container, main, db, dbUp, broker, todo, signals, probes>>

(* It stores the request and publishes it, through the two connections.     *)
Answer(q) ==
    /\ main # "exited" /\ requests[q] = "handling"
    /\ requests' = [requests EXCEPT ![q] =
           IF db = "open" /\ service = "up" /\ producer THEN "answered" ELSE "failed"]
    /\ UNCHANGED <<vars, container, main, db, dbUp, broker, todo, signals, probes>>

(* The query of an upload is rejected after the request was piped into      *)
(* busboy: it is answered, and the controller is never called.              *)
RefuseQuery(q) ==
    /\ requests[q] = "handling"
    /\ requests' = [requests EXCEPT ![q] = "refused"]
    /\ UNCHANGED <<vars, container, main, db, dbUp, broker, todo, signals, probes>>

(* Its body comes to an end, or the connection does: Node closes one over   *)
(* which a request takes too long.                                          *)
BodyEnds(q) ==
    /\ requests[q] = "refused"
    /\ requests' = [requests EXCEPT ![q] = "answered"]
    /\ UNCHANGED <<vars, container, main, db, dbUp, broker, todo, signals, probes>>

(* Or busboy finds an error in it.  The listeners pass it to a stream that  *)
(* no controller iterates over, so that nobody listens for its errors       *)
(* (error = "uncaught" in CsvUpload), and that ends the process.            *)
UncaughtError(q) ==
    /\ requests[q] = "refused"
    /\ Exit("uncaught")
    /\ UNCHANGED vars

-------------------------------------------------------------------------------
(* The consumer at work *)

(* consume() calls subscribe() and does not await it.                       *)
StartConsuming(s) ==
    /\ main = "consume" /\ main' = "consuming"
    /\ Subscribe(s)
    /\ UNCHANGED <<container, db, dbUp, broker, todo, requests, signals, probes>>

(* Asking for the metadata of a topic that is absent has the broker create  *)
(* it, with its own number of partitions.                                   *)
JoinTopics(s) ==
    /\ main = "consuming"
    /\ SubscribeTopics(s)
    /\ topics' = [n \in TopicNames |->
           IF topics[n] = "absent" /\ n[2] = "topic" THEN "default" ELSE topics[n]]
    /\ UNCHANGED <<container, main, db, dbUp, schemas, todo, requests, signals, probes>>

(* The other awaits of subscribe().                                         *)
Joins(s) ==
    /\ main = "consuming"
    /\ Connect(s) \/ Run(s) \/ Push(s)
    /\ UNCHANGED appVars

ConsumerWorks(s) ==
    /\ main = "consuming"
    /\ Take(s) \/ HandleStep(s)
    /\ UNCHANGED appVars

(* Mutant: consume() catches the rejection and logs it.                     *)
RejectionIsLogged ==
    /\ main = "consuming" /\ \E s \in Subscriptions : At(s, "rejected")
    /\ UNCHANGED <<vars, appVars>>

(* Nobody handles the rejection of subscribe(): the process ends.           *)
UnhandledRejection ==
    /\ main = "consuming" /\ \E s \in Subscriptions : At(s, "rejected")
    /\ Exit("error")
    /\ UNCHANGED vars

(* Mutant: the file is written whatever the database says.                  *)
CheckLivenessAlways ==
    /\ main = "consuming" /\ check # "write"
    /\ check' = "write"
    /\ UNCHANGED <<vars, container, main, db, dbUp, broker, todo, requests, signals, ready, probed, file>>

(* checkLiveness() at its interval: without the database, no file.          *)
CheckLiveness ==
    /\ main = "consuming" /\ check # "write"
    /\ check' = IF dbUp THEN "write" ELSE "skipped"
    /\ UNCHANGED <<vars, container, main, db, dbUp, broker, todo, requests, signals, ready, probed, file>>

(* An error of the write is only logged.                                    *)
WriteLivenessFile ==
    /\ main = "consuming" /\ check = "write"
    /\ \/ check' = "written" /\ file' = "fresh" /\ UNCHANGED faults
       \/ check' = "failed" /\ UNCHANGED file /\ Fault("file")
    /\ KafkaUnchanged
    /\ UNCHANGED <<container, main, db, dbUp, broker, todo, requests, signals, ready, probed>>

(* A minute without a write: the interval is a sixth of it.                 *)
FileAges ==
    /\ main # "exited" /\ file = "fresh" /\ check \in {"skipped", "failed"}
    /\ file' = "stale"
    /\ UNCHANGED <<vars, container, main, db, dbUp, broker, todo, requests, signals, ready, probed, check>>

-------------------------------------------------------------------------------
(* The probes and the signals of the cluster *)

ServerIsUp == main \in {"listening", "serving", "draining"}

(* liveness(): of the API, the database; of the consumer, the file.         *)
Alive == IF app = API THEN ServerIsUp => dbUp ELSE main = "consuming" => file = "fresh"

(* Mutant: readiness() asks for the database only.                          *)
ReadinessOfDatabase == IF app = API THEN ServerIsUp /\ dbUp ELSE file = "fresh"

(* readiness(): the API also looks at its shutdown mode.                    *)
Readiness == IF app = API THEN ServerIsUp /\ dbUp /\ ~shutdownMode ELSE file = "fresh"

ProbeReadiness ==
    /\ main # "exited"
    /\ ready' = Readiness /\ probed' = (told # "no")
    /\ UNCHANGED <<vars, container, main, db, dbUp, broker, todo, requests, signals, check, file>>

(* preStop sends SIGUSR1.  Its handler is there once the providers are; it  *)
(* emits an event to which only HealthCheckService of the API listens.      *)
PreStop ==
    /\ main # "exited" /\ told = "no"
    /\ told' = IF main = "create" THEN "early" ELSE "heard"
    /\ shutdownMode' = (app = API /\ main # "create")
    /\ probed' = FALSE
    /\ UNCHANGED <<vars, container, main, db, dbUp, broker, todo, requests, ready, check, file>>

(* SIGTERM follows when preStop has slept for longer than the probes take   *)
(* to fail.  Without the hooks it ends the process at once; main.ts enables *)
(* them for the API only.                                                   *)
Sigterm ==
    /\ told # "no" /\ probed
    /\ \/ /\ main = "serving" /\ main' = "draining"
          /\ UNCHANGED <<vars, container, db, dbUp, broker, todo, requests, signals, probes>>
       \/ main \notin {"serving", "draining", "closing", "exited"} /\ Exit("signal") /\ UNCHANGED vars

(* Mutant: the providers are closed without waiting for the requests.       *)
DrainedAtOnce ==
    /\ main = "draining"
    /\ main' = "closing"
    /\ UNCHANGED <<vars, container, db, dbUp, broker, todo, requests, signals, probes>>

(* The server has answered what it was handling, and every connection that  *)
(* a request still comes over is closed.                                    *)
Drained ==
    /\ main = "draining" /\ \A q \in Requests : requests[q] \notin {"handling", "refused"}
    /\ main' = "closing"
    /\ UNCHANGED <<vars, container, db, dbUp, broker, todo, requests, signals, probes>>

(* onApplicationShutdown of the provider of the queue, and of the database. *)
CloseQueue ==
    /\ main = "closing"
    /\ Shutdown \/ DisconnectAdmin \/ DisconnectProducer \/ DisconnectConsumers \/ Disconnected
    /\ UNCHANGED appVars

CloseConnection ==
    /\ main = "closing" /\ db = "open"
    /\ \/ /\ db' = "closed"
          /\ UNCHANGED <<faults, container, main, dbUp, broker, todo, requests, signals, probes>>
       \/ Rejects("call")
    /\ KafkaUnchanged

(* Nest ends the process when all hooks have resolved, or one rejects.      *)
ShutdownEnds ==
    /\ main = "closing"
    /\ \/ db = "closed" /\ service = "down" /\ Exit("clean")
       \/ service = "stopFailed" /\ Exit("error")
    /\ UNCHANGED vars

(* SIGKILL at the end of the grace period, or the loss of the node.         *)
Kill ==
    /\ main # "exited" /\ Fault("kill") /\ Exit("killed")
    /\ KafkaUnchanged

(* The container is started again: a new process, and a new file system.    *)
Restart ==
    /\ main = "exited" /\ starts < MaxStarts
    /\ starts' = starts + 1
    /\ main' = "create" /\ db' = "connect" /\ todo' = {}
    /\ told' = "no" /\ shutdownMode' = FALSE
    /\ ready' = FALSE /\ probed' = FALSE /\ check' = "none" /\ file' = "none"
    /\ service' = "connectAdmin" /\ admin' = FALSE /\ producer' = FALSE
    /\ sub' = [s \in Subscriptions |-> [pc |-> "none", open |-> FALSE, fetching |-> FALSE,
                                        msg |-> "none", taken |-> 0]]
    /\ consumers' = {} /\ stopping' = {} /\ abandoned' = {}
    /\ UNCHANGED <<faults, app, dbUp, broker, requests>>

DatabaseFails ==
    /\ dbUp /\ dbUp' = FALSE /\ Fault("database")
    /\ KafkaUnchanged
    /\ UNCHANGED <<container, main, db, broker, todo, requests, signals, probes>>

DatabaseRecovers ==
    /\ ~dbUp /\ dbUp' = TRUE
    /\ UNCHANGED <<vars, container, main, db, broker, todo, requests, signals, probes>>

-------------------------------------------------------------------------------
BootstrapStep ==
    \/ QueueServiceFactory \/ InitiateConnection \/ SetupModels \/ CreateFails \/ Created
    \/ \E f \in SchemaFiles : RegisterSchema(f)
    \/ InitializeTopics
    \/ \E n \in TopicNames : CreateTopic(n)
    \/ Listen \/ EnableShutdownHooks
    \/ \E s \in Subscriptions : StartConsuming(s)

ShutdownStep == Drained \/ CloseQueue \/ CloseConnection \/ ShutdownEnds

AppNext ==
    \/ BootstrapStep \/ ShutdownStep
    \/ \E q \in Requests :
          Receive(q) \/ Answer(q) \/ RefuseQuery(q) \/ BodyEnds(q) \/ UncaughtError(q)
    \/ \E s \in Subscriptions : JoinTopics(s) \/ Joins(s) \/ ConsumerWorks(s)
    \/ UnhandledRejection
    \/ CheckLiveness \/ WriteLivenessFile \/ FileAges
    \/ ProbeReadiness \/ PreStop \/ Sigterm \/ Kill \/ Restart
    \/ DatabaseFails \/ DatabaseRecovers

AppSpec == AppInit /\ [][AppNext]_<<vars, appVars>>

(* The event loop runs, every await settles, a request comes to its end,    *)
(* and the kubelet probes and acts on a liveness probe that fails.          *)
FairAppSpec ==
    /\ AppSpec
    /\ WF_<<vars, appVars>>(BootstrapStep) /\ WF_<<vars, appVars>>(ShutdownStep)
    /\ WF_<<vars, appVars>>(UnhandledRejection)
    /\ \A q \in Requests : WF_<<vars, appVars>>(Answer(q)) /\ WF_<<vars, appVars>>(BodyEnds(q))
    /\ \A s \in Subscriptions : WF_<<vars, appVars>>(JoinTopics(s) \/ Joins(s))
    /\ WF_<<vars, appVars>>(CheckLiveness) /\ WF_<<vars, appVars>>(WriteLivenessFile)
    /\ WF_<<vars, appVars>>(FileAges)
    /\ WF_<<vars, appVars>>(ProbeReadiness) /\ WF_<<vars, appVars>>(~Alive /\ PreStop)
    /\ WF_<<vars, appVars>>(Sigterm)

-------------------------------------------------------------------------------
(* Properties *)

(* Whoever works has what it needs: an API that listens has its database,   *)
(* its producer, every schema and every topic, a dead letter topic too; a   *)
(* consumer that takes messages has its database and its producer.          *)
WorksInitialized ==
    /\ ServerIsUp =>
          /\ db = "open" /\ service = "up" /\ producer
          /\ schemas = SchemaFiles
          /\ \A n \in TopicNames : topics[n] # "absent"
    /\ main = "consuming" /\ (\E s \in Subscriptions : sub[s].fetching)
          => db = "open" /\ service = "up" /\ producer

(* No request finds a connection that the shutdown has closed, and a        *)
(* request is cut off only by SIGKILL or by the uncaught error of another   *)
(* upload, whose query was rejected (multipart.decorator.ts:98 and 115):    *)
(* never by a rejection of bootstrap(), by SIGTERM or by the hooks.         *)
RequestsAreServed ==
    \A q \in Requests :
        requests[q] \in {"none", "handling", "refused", "answered", "killed", "uncaught"}

(* A server that closes is one to which no request is routed any more, if   *)
(* the SIGUSR1 before it found its handler.                                 *)
DrainsUnrouted ==
    main = "draining" /\ told = "heard" => ~ready

(* A container that starts comes to serve or to consume, or it ends, and    *)
(* the kubelet starts it again: no await of create(), of the loops of       *)
(* MessagingEntity or of the subscribe() that nobody awaits                 *)
(* (consumer-app-lifecycle.service.ts:47) leaves a process that is alive    *)
(* and does nothing.                                                        *)
StartedComesToWork ==
    main = "create" ~>
        \/ main \in {"serving", "exited"}
        \/ main = "consuming" /\ \E s \in Subscriptions : sub[s].fetching

(* A container whose database stays away is ended, an API through its       *)
(* probe, a consumer through the file it no longer writes.                  *)
LostDatabaseIsNoticed ==
    (main \in {"serving", "consuming"} /\ ~dbUp) ~> (dbUp \/ main = "exited")
===============================================================================
