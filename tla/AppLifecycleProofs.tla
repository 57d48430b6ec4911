-------------------------- MODULE AppLifecycleProofs --------------------------
(***************************************************************************)
(* Proofs about AppLifecycle for any number of schemas, topics, requests,  *)
(* subscriptions, failures and starts of a container: nothing works before *)
(* what it needs is there, and no end of it cuts off a request but SIGKILL *)
(* and the uncaught error of an upload.                                    *)
(***************************************************************************)
EXTENDS AppLifecycle, TLAPS

states == <<vars, appVars>>

(* bootstrap() is past create(), and the shutdown has closed nothing yet.   *)
Running == {"registerSchemas", "initializeTopics", "listening", "serving", "draining",
            "consume", "consuming"}

(* What create() waited for stays until the shutdown hooks run.             *)
Connected ==
    /\ service = "up" => producer
    /\ main \in Running => service = "up" /\ db = "open"

(* The loops of MessagingEntity: what is no longer to do is done.           *)
Registered ==
    /\ main = "registerSchemas" => \A f \in SchemaFiles : f \in todo \/ f \in schemas
    /\ main = "initializeTopics" =>
          /\ schemas = SchemaFiles
          /\ \A n \in TopicNames : n \in todo \/ topics[n] # "absent"
    /\ ServerIsUp => schemas = SchemaFiles /\ \A n \in TopicNames : topics[n] # "absent"

(* Requests are in flight, and bodies of refused ones flow on, only while   *)
(* the server is up: Nest waits for both before the hooks.                  *)
Served ==
    /\ RequestsAreServed
    /\ \A q \in Requests :
          requests[q] \in {"handling", "refused"} => main \in {"serving", "draining"}

(* SIGTERM comes after a readiness probe that followed SIGUSR1, and such a  *)
(* probe of an API that heard it fails.                                     *)
Unrouted ==
    /\ told = "heard" /\ app = API => shutdownMode /\ (probed => ~ready)
    /\ main = "draining" => app = API /\ told # "no" /\ probed

AppInv == AppTypeOK /\ Connected /\ Registered /\ Served /\ Unrouted

-------------------------------------------------------------------------------
(* The first state of a container.                                          *)
LEMMA InitAppInv == AppInit => AppInv
  <1> SUFFICES ASSUME AppInit PROVE AppInv
      OBVIOUS
  <1>1. AppTypeOK
    <2>1. starts \in 1..MaxStarts
        BY AppAssumption DEF AppInit
    <2>2. requests \in [Requests -> RequestState]
        BY DEF AppInit, RequestState
    <2> QED
        BY <2>1, <2>2 DEF AppInit, AppTypeOK, MainPC, API, Consumers
  <1>2. Connected /\ Registered /\ Served /\ Unrouted
      BY DEF AppInit, Init, Connected, Running, Registered, ServerIsUp, Served,
         RequestsAreServed, Unrouted
  <1> QED
      BY <1>1, <1>2 DEF AppInv

(* How a process may end: with the requests it was handling.                *)
LEMMA ExitTypes ==
  ASSUME AppTypeOK, NEW end \in Ends, Exit(end)
  PROVE  AppTypeOK'
  <1>1. requests' \in [Requests -> RequestState]
      BY DEF Exit, AppTypeOK, RequestState
  <1>2. main' = "exited" /\ UNCHANGED <<app, starts, db, dbUp, schemas, topics, todo, told,
                                       shutdownMode, ready, probed, check, file>>
      BY DEF Exit, container, broker, signals, probes
  <1> QED
      BY <1>1, <1>2 DEF AppTypeOK, MainPC

LEMMA AppTypes ==
  ASSUME AppTypeOK, [AppNext]_states
  PROVE  AppTypeOK'
  <1> USE AppAssumption DEF container, broker, signals, probes, appVars, API, Consumers
  <1>1. CASE UNCHANGED states
      BY <1>1 DEF states, AppTypeOK
  <1>2. CASE QueueServiceFactory \/ InitiateConnection \/ SetupModels
      BY <1>2 DEF QueueServiceFactory, InitiateConnection, SetupModels, AppTypeOK
  <1>3. CASE CreateFails \/ UnhandledRejection \/ Kill
      BY <1>3, ExitTypes DEF CreateFails, UnhandledRejection, Kill, Ends
  <1>4. CASE Created
      BY <1>4 DEF Created, AppTypeOK, MainPC
  <1>5. ASSUME NEW f \in SchemaFiles, RegisterSchema(f) PROVE AppTypeOK'
    <2>1. CASE Rejects("schemaFile") \/ Rejects("registry")
        BY <2>1, ExitTypes DEF Rejects, Ends
    <2>2. CASE ~(Rejects("schemaFile") \/ Rejects("registry"))
        BY <1>5, <2>2 DEF RegisterSchema, AppTypeOK
    <2> QED
        BY <2>1, <2>2
  <1>6. CASE InitializeTopics \/ Listen \/ EnableShutdownHooks
      BY <1>6 DEF InitializeTopics, Listen, EnableShutdownHooks, AppTypeOK, MainPC
  <1>7. ASSUME NEW n \in TopicNames, CreateTopic(n) PROVE AppTypeOK'
    <2>1. CASE Rejects("call")
        BY <2>1, ExitTypes DEF Rejects, Ends
    <2>2. CASE ~Rejects("call")
        BY <1>7, <2>2 DEF CreateTopic, AppTypeOK
    <2> QED
        BY <2>1, <2>2
  <1>8. ASSUME NEW s \in Subscriptions,
               StartConsuming(s) \/ JoinTopics(s) \/ Joins(s) \/ ConsumerWorks(s)
        PROVE  AppTypeOK'
    <2>1. CASE StartConsuming(s)
      <3>1. app = Consumers
          BY <2>1 DEF StartConsuming, AppTypeOK
      <3> QED
          BY <2>1, <3>1 DEF StartConsuming, AppTypeOK, MainPC
    <2>2. CASE JoinTopics(s)
        BY <2>2 DEF JoinTopics, AppTypeOK
    <2>3. CASE Joins(s) \/ ConsumerWorks(s)
        BY <2>3 DEF Joins, ConsumerWorks, AppTypeOK
    <2> QED
        BY <1>8, <2>1, <2>2, <2>3
  <1>9. CASE CheckLiveness \/ WriteLivenessFile \/ FileAges \/ DatabaseFails \/ DatabaseRecovers
    <2>1. CASE CheckLiveness \/ WriteLivenessFile \/ FileAges
        BY <2>1 DEF CheckLiveness, WriteLivenessFile, FileAges, AppTypeOK
    <2>2. CASE DatabaseFails \/ DatabaseRecovers
      <3>1. dbUp' \in BOOLEAN
          BY <2>2, Zenon DEF DatabaseFails, DatabaseRecovers
      <3>2. UNCHANGED <<app, main, db, schemas, topics, todo, requests, told, shutdownMode,
                        ready, probed, check, file, starts>>
          BY <2>2 DEF DatabaseFails, DatabaseRecovers
      <3> QED
          BY <3>1, <3>2 DEF AppTypeOK
    <2> QED
        BY <1>9, <2>1, <2>2
  <1>10. CASE ProbeReadiness \/ PreStop
    <2>1. Readiness \in BOOLEAN
        BY DEF Readiness, AppTypeOK, ServerIsUp
    <2>2. ready' \in BOOLEAN /\ probed' \in BOOLEAN /\ shutdownMode' \in BOOLEAN
      <3>1. CASE ProbeReadiness
        <4>1. shutdownMode' = shutdownMode
            BY <3>1 DEF ProbeReadiness
        <4>2. ready' \in BOOLEAN /\ probed' \in BOOLEAN
            BY <3>1, <2>1, Zenon DEF ProbeReadiness
        <4> QED
            BY <4>1, <4>2 DEF AppTypeOK
      <3>2. CASE PreStop
        <4>1. ready' = ready /\ probed' = FALSE
            BY <3>2 DEF PreStop
        <4>2. shutdownMode' \in BOOLEAN
            BY <3>2, Zenon DEF PreStop
        <4> QED
            BY <4>1, <4>2 DEF AppTypeOK
      <3> QED
          BY <1>10, <3>1, <3>2
    <2>3. told' \in {"no", "early", "heard"}
        BY <1>10 DEF ProbeReadiness, PreStop, AppTypeOK
    <2>4. UNCHANGED <<app, main, db, dbUp, schemas, topics, todo, requests, check, file, starts>>
        BY <1>10 DEF ProbeReadiness, PreStop
    <2> QED
        BY <2>2, <2>3, <2>4 DEF AppTypeOK
  <1>11. CASE Sigterm
    <2>1. CASE Exit("signal")
        BY <2>1, ExitTypes DEF Ends
    <2>2. CASE main = "serving" /\ main' = "draining"
        BY <1>11, <2>2 DEF Sigterm, AppTypeOK, MainPC
    <2> QED
        BY <1>11, <2>1, <2>2 DEF Sigterm
  <1>12. CASE Restart
    <2>1. starts' \in 1..MaxStarts
        BY <1>12 DEF Restart, AppTypeOK
    <2> QED
        BY <1>12, <2>1 DEF Restart, AppTypeOK, MainPC
  <1>13. CASE Drained \/ CloseQueue
      BY <1>13 DEF Drained, CloseQueue, AppTypeOK, MainPC
  <1>14. CASE CloseConnection
    <2>1. CASE Rejects("call")
        BY <2>1, ExitTypes DEF Rejects, Ends
    <2>2. CASE ~Rejects("call")
        BY <1>14, <2>2 DEF CloseConnection, AppTypeOK
    <2> QED
        BY <2>1, <2>2
  <1>15. CASE ShutdownEnds
      BY <1>15, ExitTypes DEF ShutdownEnds, Ends
  <1>16. ASSUME NEW q \in Requests,
                Receive(q) \/ Answer(q) \/ RefuseQuery(q) \/ BodyEnds(q) \/ UncaughtError(q)
         PROVE  AppTypeOK'
    <2>1. CASE UncaughtError(q)
        BY <2>1, ExitTypes DEF UncaughtError, Ends
    <2>2. CASE Receive(q) \/ Answer(q) \/ RefuseQuery(q) \/ BodyEnds(q)
        BY <2>2 DEF Receive, Answer, RefuseQuery, BodyEnds, AppTypeOK, RequestState
    <2> QED
        BY <1>16, <2>1, <2>2
  <1> QED
      BY <1>1, <1>2, <1>3, <1>4, <1>5, <1>6, <1>7, <1>8, <1>9, <1>10, <1>11, <1>12, <1>13,
         <1>14, <1>15, <1>16 DEF AppNext, BootstrapStep, ShutdownStep

-------------------------------------------------------------------------------
(* Only bootstrap() gets a process to where it works, and only the hooks,   *)
(* which come after, close what it has.                                     *)
LEMMA StepConnected ==
  ASSUME AppTypeOK, Connected, [AppNext]_states
  PROVE  Connected'
  <1> USE DEF Connected, Running, container, broker, signals, probes
  <1>1. CASE UNCHANGED states
      BY <1>1 DEF states, vars, appVars
  <1>2. CASE QueueServiceFactory
      BY <1>2 DEF QueueServiceFactory, ConnectAdmin, ConnectProducer, Await, Succeeds, appVars
  <1>3. CASE InitiateConnection \/ SetupModels \/ Created \/ CheckLiveness \/ WriteLivenessFile
             \/ FileAges \/ ProbeReadiness \/ PreStop \/ DatabaseFails \/ DatabaseRecovers
      BY <1>3 DEF InitiateConnection, SetupModels, Created, CheckLiveness, WriteLivenessFile,
         FileAges, ProbeReadiness, PreStop, DatabaseFails, DatabaseRecovers, KafkaUnchanged, vars
  <1>4. CASE CreateFails \/ UnhandledRejection \/ Kill \/ Sigterm \/ ShutdownEnds \/ Drained
      BY <1>4 DEF CreateFails, UnhandledRejection, Kill, Sigterm, ShutdownEnds, Drained, Exit,
         KafkaUnchanged, vars
  <1>5. ASSUME NEW f \in SchemaFiles, RegisterSchema(f) PROVE Connected'
      BY <1>5 DEF RegisterSchema, Rejects, Exit, KafkaUnchanged
  <1>6. ASSUME NEW n \in TopicNames, CreateTopic(n) PROVE Connected'
      BY <1>6 DEF CreateTopic, Rejects, Exit, KafkaUnchanged
  <1>7. CASE InitializeTopics \/ Listen \/ EnableShutdownHooks
      BY <1>7 DEF InitializeTopics, Listen, EnableShutdownHooks, vars
  <1>8. ASSUME NEW q \in Requests,
               Receive(q) \/ Answer(q) \/ RefuseQuery(q) \/ BodyEnds(q) \/ UncaughtError(q)
        PROVE  Connected'
      BY <1>8 DEF Receive, Answer, RefuseQuery, BodyEnds, UncaughtError, Exit, vars
  <1>9. ASSUME NEW s \in Subscriptions,
               StartConsuming(s) \/ JoinTopics(s) \/ Joins(s) \/ ConsumerWorks(s)
        PROVE  Connected'
    <2>1. UNCHANGED <<service, producer, db>>
        BY <1>9 DEF StartConsuming, Subscribe, JoinTopics, Joins, ConsumerWorks, Connect,
           SubscribeTopics, Run, Consume, Push, Take, HandleStep, RunProcessor, PublishToDlq, appVars
    <2>2. main \in Running
        BY <1>9 DEF StartConsuming, JoinTopics, Joins, ConsumerWorks
    <2> QED
        BY <2>1, <2>2
  <1>10. CASE CloseQueue
      BY <1>10 DEF CloseQueue, Shutdown, DisconnectAdmin, DisconnectProducer, DisconnectConsumers,
         Disconnected, Await, Succeeds, appVars
  <1>11. CASE CloseConnection
      BY <1>11 DEF CloseConnection, Rejects, Exit, KafkaUnchanged
  <1>12. CASE Restart
      BY <1>12 DEF Restart
  <1> QED
      BY <1>1, <1>2, <1>3, <1>4, <1>5, <1>6, <1>7, <1>8, <1>9, <1>10, <1>11, <1>12
         DEF AppNext, BootstrapStep, ShutdownStep

(* Each turn of the loops of MessagingEntity leaves what is left of them    *)
(* to do, and nothing of what they made is ever deleted.                    *)
LEMMA StepRegistered ==
  ASSUME AppTypeOK, Registered, [AppNext]_states
  PROVE  Registered'
  <1> USE DEF Registered, ServerIsUp, container, broker, signals, probes
  <1>1. CASE UNCHANGED states
      BY <1>1 DEF states, appVars
  <1>2. CASE QueueServiceFactory \/ CloseQueue
      BY <1>2 DEF QueueServiceFactory, CloseQueue, appVars
  <1>3. CASE InitiateConnection \/ SetupModels \/ Created \/ CheckLiveness \/ WriteLivenessFile
             \/ FileAges \/ ProbeReadiness \/ PreStop \/ DatabaseFails \/ DatabaseRecovers
      BY <1>3 DEF InitiateConnection, SetupModels, Created, CheckLiveness, WriteLivenessFile,
         FileAges, ProbeReadiness, PreStop, DatabaseFails, DatabaseRecovers
  <1>4. CASE CreateFails \/ UnhandledRejection \/ Kill \/ Sigterm \/ ShutdownEnds \/ Drained
             \/ CloseConnection \/ Restart
      BY <1>4 DEF CreateFails, UnhandledRejection, Kill, Sigterm, ShutdownEnds, Drained,
         CloseConnection, Restart, Rejects, Exit
  <1>5. ASSUME NEW f \in SchemaFiles, RegisterSchema(f) PROVE Registered'
    <2>1. CASE Rejects("schemaFile") \/ Rejects("registry")
        BY <2>1 DEF Rejects, Exit
    <2>2. CASE ~(Rejects("schemaFile") \/ Rejects("registry"))
        BY <1>5, <2>2 DEF RegisterSchema
    <2> QED
        BY <2>1, <2>2
  <1>6. ASSUME NEW n \in TopicNames, CreateTopic(n) PROVE Registered'
    <2>1. CASE Rejects("call")
        BY <2>1 DEF Rejects, Exit
    <2>2. CASE ~Rejects("call")
        BY <1>6, <2>2 DEF CreateTopic, AppTypeOK
    <2> QED
        BY <2>1, <2>2
  <1>7. CASE InitializeTopics \/ Listen \/ EnableShutdownHooks
    <2>1. CASE InitializeTopics
      <3>1. schemas = SchemaFiles
          BY <2>1 DEF InitializeTopics, AppTypeOK
      <3> QED
          BY <2>1, <3>1 DEF InitializeTopics
    <2>2. CASE Listen \/ EnableShutdownHooks
        BY <2>2 DEF Listen, EnableShutdownHooks
    <2> QED
        BY <1>7, <2>1, <2>2
  <1>8. ASSUME NEW q \in Requests,
               Receive(q) \/ Answer(q) \/ RefuseQuery(q) \/ BodyEnds(q) \/ UncaughtError(q)
        PROVE  Registered'
      BY <1>8 DEF Receive, Answer, RefuseQuery, BodyEnds, UncaughtError, Exit
  <1>9. ASSUME NEW s \in Subscriptions,
               StartConsuming(s) \/ JoinTopics(s) \/ Joins(s) \/ ConsumerWorks(s)
        PROVE  Registered'
      BY <1>9 DEF StartConsuming, JoinTopics, Joins, ConsumerWorks, appVars
  <1> QED
      BY <1>1, <1>2, <1>3, <1>4, <1>5, <1>6, <1>7, <1>8, <1>9
         DEF AppNext, BootstrapStep, ShutdownStep

(* A process ends with a request in flight only when it is killed or when   *)
(* an upload raises an error that nobody listens for: every other end comes *)
(* before the server is up, after it has drained, or in a consumer.         *)
LEMMA StepServed ==
  ASSUME AppTypeOK, Connected, Served, [AppNext]_states
  PROVE  Served'
  <1> USE DEF Served, RequestsAreServed, container, broker, signals, probes
  <1>1. CASE UNCHANGED states
      BY <1>1 DEF states, appVars
  <1>2. CASE QueueServiceFactory \/ CloseQueue
      BY <1>2 DEF QueueServiceFactory, CloseQueue, appVars
  <1>3. CASE InitiateConnection \/ SetupModels \/ Created \/ CheckLiveness \/ WriteLivenessFile
             \/ FileAges \/ ProbeReadiness \/ PreStop \/ DatabaseFails \/ DatabaseRecovers
      BY <1>3 DEF InitiateConnection, SetupModels, Created, CheckLiveness, WriteLivenessFile,
         FileAges, ProbeReadiness, PreStop, DatabaseFails, DatabaseRecovers
  <1>4. ASSUME NEW end \in Ends, Exit(end), main \notin {"serving", "draining"} PROVE Served'
      BY <1>4 DEF Exit
  <1>5. CASE CreateFails \/ UnhandledRejection \/ ShutdownEnds
      BY <1>5, <1>4 DEF CreateFails, UnhandledRejection, ShutdownEnds, Ends
  <1>6. CASE Kill
      BY <1>6 DEF Kill, Exit
  <1>7. CASE Sigterm
      BY <1>7, <1>4 DEF Sigterm, Ends
  <1>8. CASE Drained \/ CloseConnection \/ Restart
      BY <1>8, <1>4 DEF Drained, CloseConnection, Rejects, Ends, Restart
  <1>9. ASSUME NEW f \in SchemaFiles, RegisterSchema(f) PROVE Served'
      BY <1>9, <1>4 DEF RegisterSchema, Rejects, Ends
  <1>10. ASSUME NEW n \in TopicNames, CreateTopic(n) PROVE Served'
      BY <1>10, <1>4 DEF CreateTopic, Rejects, Ends
  <1>11. CASE InitializeTopics \/ Listen \/ EnableShutdownHooks
      BY <1>11 DEF InitializeTopics, Listen, EnableShutdownHooks
  <1>12. ASSUME NEW q \in Requests,
                Receive(q) \/ RefuseQuery(q) \/ BodyEnds(q) \/ UncaughtError(q)
         PROVE  Served'
    <2>1. CASE Receive(q)
        BY <2>1 DEF Receive, AppTypeOK
    <2>2. CASE RefuseQuery(q) \/ BodyEnds(q)
        BY <2>2 DEF RefuseQuery, BodyEnds, AppTypeOK
    <2>3. CASE UncaughtError(q)
        BY <2>3 DEF UncaughtError, Exit
    <2> QED
        BY <1>12, <2>1, <2>2, <2>3
  <1>13. ASSUME NEW q \in Requests, Answer(q) PROVE Served'
    <2>1. db = "open" /\ service = "up" /\ producer
        BY <1>13 DEF Answer, Connected, Running
    <2> QED
        BY <1>13, <2>1 DEF Answer, AppTypeOK
  <1>14. ASSUME NEW s \in Subscriptions,
                StartConsuming(s) \/ JoinTopics(s) \/ Joins(s) \/ ConsumerWorks(s)
         PROVE  Served'
      BY <1>14 DEF StartConsuming, JoinTopics, Joins, ConsumerWorks, appVars
  <1> QED
      BY <1>1, <1>2, <1>3, <1>5, <1>6, <1>7, <1>8, <1>9, <1>10, <1>11, <1>12, <1>13, <1>14
         DEF AppNext, BootstrapStep, ShutdownStep

(* After SIGUSR1 was heard, no readiness probe of an API succeeds.          *)
LEMMA StepUnrouted ==
  ASSUME AppTypeOK, Unrouted, [AppNext]_states
  PROVE  Unrouted'
  <1> USE DEF Unrouted, container, broker, signals, probes
  <1>1. CASE UNCHANGED states
      BY <1>1 DEF states, appVars
  <1>2. CASE QueueServiceFactory \/ CloseQueue
      BY <1>2 DEF QueueServiceFactory, CloseQueue, appVars
  <1>3. CASE InitiateConnection \/ SetupModels \/ CheckLiveness \/ WriteLivenessFile
             \/ FileAges \/ DatabaseFails \/ DatabaseRecovers
      BY <1>3 DEF InitiateConnection, SetupModels, CheckLiveness, WriteLivenessFile,
         FileAges, DatabaseFails, DatabaseRecovers
  <1>4. CASE Created \/ InitializeTopics \/ Listen \/ EnableShutdownHooks
      BY <1>4 DEF Created, InitializeTopics, Listen, EnableShutdownHooks
  <1>5. CASE CreateFails \/ UnhandledRejection \/ Kill \/ ShutdownEnds \/ Drained
             \/ CloseConnection \/ Restart
      BY <1>5 DEF CreateFails, UnhandledRejection, Kill, ShutdownEnds, Drained,
         CloseConnection, Restart, Rejects, Exit
  <1>6. CASE Sigterm
    <2>1. UNCHANGED <<app, told, shutdownMode, ready, probed>>
        BY <1>6 DEF Sigterm, Exit
    <2>2. main' = "draining" => main = "serving" /\ told # "no" /\ probed
        BY <1>6 DEF Sigterm, Exit
    <2> QED
        BY <2>1, <2>2 DEF AppTypeOK
  <1>7. ASSUME NEW f \in SchemaFiles, RegisterSchema(f) PROVE Unrouted'
      BY <1>7 DEF RegisterSchema, Rejects, Exit
  <1>8. ASSUME NEW n \in TopicNames, CreateTopic(n) PROVE Unrouted'
      BY <1>8 DEF CreateTopic, Rejects, Exit
  <1>9. CASE ProbeReadiness
    <2>1. told = "heard" /\ app = API => ~Readiness
        BY DEF Readiness
    <2> QED
        BY <1>9, <2>1 DEF ProbeReadiness
  <1>10. CASE PreStop
    <2>1. main # "draining" /\ main' = main
        BY <1>10 DEF PreStop
    <2>2. app = API /\ told' = "heard" => shutdownMode'
      <3>1. told' = "heard" => main # "create"
          BY <1>10 DEF PreStop
      <3>2. app = API /\ main # "create" => shutdownMode'
          BY <1>10, Zenon DEF PreStop
      <3> QED
          BY <3>1, <3>2
    <2>3. app' = app /\ probed' = FALSE
        BY <1>10 DEF PreStop
    <2> QED
        BY <2>1, <2>2, <2>3
  <1>11. ASSUME NEW q \in Requests,
                Receive(q) \/ Answer(q) \/ RefuseQuery(q) \/ BodyEnds(q) \/ UncaughtError(q)
         PROVE  Unrouted'
      BY <1>11 DEF Receive, Answer, RefuseQuery, BodyEnds, UncaughtError, Exit
  <1>12. ASSUME NEW s \in Subscriptions,
                StartConsuming(s) \/ JoinTopics(s) \/ Joins(s) \/ ConsumerWorks(s)
         PROVE  Unrouted'
      BY <1>12 DEF StartConsuming, JoinTopics, Joins, ConsumerWorks, appVars
  <1> QED
      BY <1>1, <1>2, <1>3, <1>4, <1>5, <1>6, <1>7, <1>8, <1>9, <1>10, <1>11, <1>12
         DEF AppNext, BootstrapStep, ShutdownStep

-------------------------------------------------------------------------------
LEMMA AppInvariance == AppSpec => []AppInv
  <1>1. AppInv /\ [AppNext]_states => AppInv'
      BY AppTypes, StepConnected, StepRegistered, StepServed, StepUnrouted DEF AppInv
  <1> QED
      BY InitAppInv, <1>1, PTL DEF AppSpec, states

(* The types of the variables of a container (main.ts).                     *)
THEOREM AppTyped == AppSpec => []AppTypeOK
  <1>1. AppInv => AppTypeOK
      BY DEF AppInv
  <1> QED
      BY AppInvariance, <1>1, PTL

(* The API listens (main.ts:40) only after the loops of MessagingEntity are *)
(* through, whatever was there before and however often it restarts; and a  *)
(* consumer takes messages only with its connections.                       *)
THEOREM Initialized == AppSpec => []WorksInitialized
  <1>1. AppInv => WorksInitialized
      BY DEF AppInv, Connected, Running, Registered, ServerIsUp, WorksInitialized
  <1> QED
      BY AppInvariance, <1>1, PTL

(* The shutdown hooks (mongo-service.ts:81, kafka-service.ts:84) close      *)
(* nothing that a request in flight still needs, and a process that handles *)
(* requests ends by SIGKILL or by the uncaught error of an upload           *)
(* (multipart.decorator.ts:98 and 115), never by another way out of         *)
(* bootstrap() or of the shutdown.                                          *)
THEOREM AllServed == AppSpec => []RequestsAreServed
  <1>1. AppInv => RequestsAreServed
      BY DEF AppInv, Served
  <1> QED
      BY AppInvariance, <1>1, PTL

(* A server that drains is one the cluster found not ready                  *)
(* (health-check.service.ts:67), if SIGUSR1 was heard.                      *)
THEOREM NoneRouted == AppSpec => []DrainsUnrouted
  <1>1. AppInv => DrainsUnrouted
      BY DEF AppInv, Unrouted, DrainsUnrouted
  <1> QED
      BY AppInvariance, <1>1, PTL

===============================================================================
