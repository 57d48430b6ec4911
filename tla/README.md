# Formal specification of csv-image-processing

The service takes a csv of products with image urls, answers `202` with a
request id, compresses every image in the background, stores the outputs,
records the result in MongoDB and calls a webhook. An API process and any number
of consumer pods share a Kafka topic, a MongoDB collection and an upload service.

This directory holds TLA+ modules for the parts of it that decide whether a
request is handled correctly, TLC configurations that check them on small
instances, and proofs that TLAPS checks for every value of the constants.

1. [Components](#1-components)
2. [Modules, and how they correspond to the code](#2-modules-and-how-they-correspond-to-the-code)
3. [What the runs check](#3-what-the-runs-check)
4. [Where the code does something else than its texts say](#4-where-the-code-does-something-else-than-its-texts-say)
5. [Fairness](#5-fairness)
6. [What is proved](#6-what-is-proved)
7. [What is not modelled](#7-what-is-not-modelled)
8. [Plan](#8-plan)
9. [Running the tools](#9-running-the-tools)

Paths in this document are relative to the repository; `image.processor.ts:99` is
line 99 of the file of that name.

## 1. Components

    client --POST csv--> API --createRequest--> MongoDB <--updateStatus/Request-- consumer pods
                          |                                                         |  |  |
                          +--publish--> topic (Kafka) --eachMessage---------------->+  |  +--> webhook
                                          ^                 |                          +-----> upload service
                                          |                 +--> topic.DLQ
                                      committed offset, cached offset (Redis, optional)

| Component | State it keeps | Operations | What is hard | Correct when |
|---|---|---|---|---|
| `ImageProcessor` (consumer) | the request document, files under `tmpdir()`, files of the upload service | `process`, `processImage`, `handleError` | a dozen awaits an image, each can reject or lose its answer; a second attempt at the request by another pod; death in the middle | a document that says Succeeded lists all outputs of one attempt; the webhook comes after them; the directory is removed; no outcome is recorded without a start |
| `KafkaConsumerService.subscribe` | offset of each member, committed offset, Redis offset, dead letter topic | `eachMessage`: decode, `checkOffset`, processor, `publishOffset`, `publishToDlq` | redelivery after crashes and rebalances; a member that works on after it lost its partition; errors that are swallowed | no offset is committed or cached over a message nobody handled; a poison message does not stop the partition |
| `KafkaService`, `KafkaProducerService` | admin, producer and consumer connections, the list `_consumers` | `connect`, `disconnect`, `subscribe`/`consume` | subscriptions half-way when the service disconnects; order of closing | disconnect waits for what it stops and ends |
| Scheduling (controller, `SchedulingService`, `ImageProcessingMessagingEntity`) | the request document, the topic | `scheduleImageProcessing`, `publishProcessingRequest`, `subscribe` | two stores written without a transaction; a producer that is not idempotent | what is queued has a document; what is accepted is handled |
| `RequestRepository`, `StatusService` | MongoDB documents | `createRequest`, `updateStatus`, `updateRequest`, `getStatus` | writers of two pods | see the callers |
| `CSVEntity` | `partialRow`, the products read so far | `parseData`, `buildCSV` | chunks cut anywhere; quotes; unterminated last row | the result is a function of the file |
| Upload (`Multipart` decorator, controller) | the stream of parts, the stream of each file, the error the iterator keeps | listeners for `field`, `file`, `limit`, `finish`, `error`; the loop of `processCsv` | events against an async iterator with buffers in between | the answer is a function of the body; every request is answered |
| Providers of the queue and the database | the one service of the configured type | factory at start, hook at shutdown | who may use the service when | nobody has it before it is connected |
| Application lifecycle, health check | bootstrap, signal handlers, shutdown mode, the liveness file | `bootstrap`, `onApplicationBootstrap`, `consume`, `checkLiveness`, `readiness`, SIGUSR1, SIGTERM | signals, probes and requests in an order only time keeps; a rejection nobody awaits; restarts in between | what works has what it needs; a shutdown that is not killed cuts off no request; a container that cannot go on ends |
| `MessagingEntity` | the loops over schema files and topics | `registerSchemas`, `initializeTopics` | runs before anyone publishes; may be cut short and repeated | every schema and topic is there before the API listens |
| Azure Service Bus client | calls of the producer, receivers and their messages | `publish`, `cancelScheduledMessage`, `subscribe`, `processMessage`, `deleteMessage`, `abandonMessage`, `deadLetterMessage`, `disconnect` | locks that run out under a processor; settlement through a second receiver; schedules | a call that resolved did what it says; nothing is completed that nobody handled |
| Redis, Mongo, SQL, Elasticsearch, Axios clients | driver connections | connect, close, single calls | little of their own | the Mongo connection in the lifecycle, the others by what their callers see |

`PROJECT.json` lists every component with its files and status, and under
`hazards` each place in the code where something can go wrong that a test would
hardly reach, with the properties that cover it.

Interactions: the API and the consumers never call each other; they share the
request document and the topic. Within a pod, kafkajs calls `eachMessage`, which
calls the processor bound in `subscribe`, and looks only at whether it resolves.

## 2. Modules, and how they correspond to the code

| Module | Models | |
|---|---|---|
| `RequestLifecycle` | what a client may observe of its request | abstract |
| `ImageProcessor` | `image.processor.ts`, several workers | implements `RequestLifecycle` |
| `MessageQueue` | what either service of `packages/queue-service` promises | abstract |
| `KafkaConsumerService` | `eachMessage` and the consumer group on one partition | implements `MessageQueue` |
| `ImagePipeline` | the API side, composed with the two above | implements `RequestLifecycle` |
| `KafkaService` | connections: `connect`, `disconnect`, `subscribe` | checked through the two that extend it |
| `AsbService` | `ASBService`: producer, receivers, settlement | checked through `QueueProvider`; implements `MessageQueue` |
| `QueueProvider` | `QueueService` and its provider: one of the two services | extends `KafkaService`, instantiates `AsbService` |
| `AppLifecycle` | a container of either application, start to end | extends `KafkaService` |
| `CsvUpload` | `multipart.decorator.ts` and the loop of `processCsv` | |
| `CsvEntity` | `csv.entity.ts`, the streaming parser and `buildCSV` | |
| `MC_*` | instances for TLC: the constants' values, symmetry | |
| `FoldTheory` | lemmas about `FoldLeft` and `FlattenSeq` for any step | instantiated by `CsvEntityProofs` |
| `*Proofs` | theorems | |

`PROJECT.json` `map` names the lines behind every definition.

### ImageProcessor

`proc[w].pc` is the await worker `w` is blocked in: `setProcessing` (line 71),
then for each image `getImage`, `makeDir`, `saveImage`, `convert`, `dropInput`,
`upload`, `dropOutput` (`processImage`), then `cleanUp`, `setSucceeded`,
`webhook`; `cleanUpFailed` and `setFailed` are those of `handleError`. Each action
is what happens between two awaits. An awaited call either takes effect and
resolves, takes effect and loses its answer (`Await`), or is refused and changes
nothing (`CallRejects`); both of the latter lead to `handleError`.

- `rmdir` with `recursive` rejects with ENOENT when the directory is missing, and
  that is the only error of it that is modelled. It matters: a request without
  images has no directory, so its `cleanUp` rejects, the `rmdir` of `handleError`
  rejects as well, and `process` leaves without having written a status.
- The contents of images and files are left out. A `File` is named by request,
  image and attempt, since `getFileName` uses a fresh uuid. Of the temporary
  files, only the directory that holds them is kept.
- A crash empties `tmpdir()`: the container is replaced.
- All products of a request are one sequence of images, in the order of the
  loops at lines 76 to 97.

### KafkaConsumerService

One partition; partitions share no state, as the Redis key names the partition.
`con[c]` is a member: joined or not, its position, and the await `eachMessage`
is in. kafkajs and the broker are external, modelled from how the code uses them:
one message at a time (`eachMessage`), the offset resolved when it returns,
commits of resolved offsets only, an expelled member that notices between two
messages. `cache` is the last *consumed* offset (a plain `SET`), `committed` the
*next* one. `abandoned` and `recorded` are history: offsets passed over after an
error, offsets written to Redis.

### ImagePipeline

It extends `ImageProcessor` and instantiates `KafkaConsumerService` as `Q`, over the
same workers, documents and faults. `Processor` joins `RunProcessor` of the
consumer and `Begin` of the processor;
`ProcessorSettles` joins `Return` and the outcome the consumer sees; `PodCrash`
joins both crashes; everything else is a step of one of them alone. `api[r]` is
the POST of a request. `CreateRequest` and `PublishProcessingRequest` fail before
or after taking effect, and a lost acknowledgement lets the (non-idempotent)
producer append the message twice. As the app is wired (`kafka.config.ts`,
`image-processing.messaging.entity.ts:44`), there is a dead letter topic, no
`fromBeginning` and no Redis cache. `GetStatus` is what the status route answers,
404 included.

### KafkaService

`service` is the await `connect` or `disconnect` is in, `sub[s].pc` the one a
`subscribe` is in. `consumers` is `_consumers`, filled only after `run()`
resolved; `stopping` is what `disconnect` found in it. A message is kept only as
far as it needs the connections: its processor may fail, and then it needs the
producer for the dead letter.

### AsbService

`queue[m]` is the entry of a message in the service bus, `call[m]` the last call of
the producer about it, `receiver[r]` a call of `subscribe` and the message its
processor is at. The bus and its SDK are external: a message is delivered under
a lock, for which the number of the delivery stands; the lock may run out under its
holder, and the message is then delivered again, or dead-lettered after
`MaxDeliveries`. `deleteMessage` and its like create a receiver of their own
(`asb-consumer-service.ts:197`) and settle by lock, whoever holds it by then
(`Settle`, `Holds`); `AutoSettle` is the SDK's settlement after `processMessage`
resolved or rejected. `disconnect` closes the receivers and waits for no processor.

### QueueProvider

`type` is the type `QueueService` was constructed with; `GetInstance` is the switch
of its constructor. A type that is not supported makes the factory throw, and so does
`ASBService` of an invalid configuration; Kafka is connected by the factory, and the
service of ASB has no `connect`. The two services meet in
`service`, `consumers`, `stopping` and `faults`; the state of the other one stays as it is.

### AppLifecycle

`main` is where `bootstrap()` (`main.ts`) and then the application stand. `create`
waits for the factories of the queue (`ConnectAdmin`, `ConnectProducer` of
`KafkaService`) and of the database (`InitiateConnection`, `SetupModels`), in any
order; then the API goes through `RegisterSchema` and `CreateTopic` before it listens, and
the consumer calls `subscribe` without waiting for it (`StartConsuming`, `JoinTopics`,
`Joins`). `requests` is what became of
each request: one is answered, or it is an upload whose query is refused and whose body
flows on (`RefuseQuery`) until it ends (`BodyEnds`) or raises the error that nobody listens
for and that ends the process (`UncaughtError`, `multipart.decorator.ts:98` and 115). A
server that closes still handles what comes over the connections kept alive (`Receive`).
Further, `told`, `shutdownMode`, `ready` and `probed` follow SIGUSR1 to the
readiness probe, `check` and `file` are the liveness file of the consumer. Nest and
the kubelet are external: the kubelet restarts a container whose liveness probe fails
and ends one with preStop and then SIGTERM, which comes after a readiness probe has
followed the SIGUSR1 (the chart sleeps longer than the probes take). Three things
in it are as the code has them, and not as one may expect:

- only the API enables the shutdown hooks (`main.ts:31` declares the app of the
  consumer in an inner scope), so `Sigterm` ends a consumer at once;
- a SIGUSR1 that comes during `create` finds no handler (`told = "early"`);
- a consumer that joins first has the broker create its topic with the broker's
  own number of partitions, and `createTopic` then leaves it as it is.

Schemas, topics and the database outlive the container: `Restart` begins with what
is there, and `AppInit` with what other containers left.

### CsvEntity

A text is a sequence of tokens: the characters the parser distinguishes (quote,
comma, space, CR, LF), the two bytes of a wide character, and words whose letters
do not matter. `UrlTexts` are the texts without a comma that `isUrl` accepts:
`UrlAssumption` says that none is empty or holds a space, but a url may hold quotes.
`ReadChunk` takes any number of bytes, decodes them by themselves
(as `chunk.toString()` does), splits them after `partialRow` and runs the loop
over the rows; `End` is the flush after the stream. `Init` picks a file: up to
`MaxLines` lines of the given kinds with a terminator. What a line means to its author
(`kind`, `name`, `urls`) is stated beside its bytes. `LineAssumption` says that the line
alone, parsed by itself, means the same, which TLC evaluates for every line of an
instance; the properties then say that neither the other lines nor the chunks change that.

### CsvUpload

Two processes with buffers between them. busboy's side: `PartBegins` is the
`field` or `file` listener, `Chunk` pushes to the stream of the file or, over the
limit, calls the `limit` listener, `Finish` ends the stream of parts. The
controller's side: `NextPart`, `ReadChunk`, `FileEnds` (which breaks out of the
loop), `LoopEnds`. External, from the behaviour of Node's streams: the iterator
hands out what is buffered before it throws the first error it was sent, and
drops that error when the loop is left. How much busboy runs ahead is not
limited. The parser is reduced to the chunk at which it rejects the file, or the flush of
the open row after the last one; `CsvEntity` looks into it. `head` is what precedes the body: the kind of content type
and whether the query is valid. A query that is rejected is answered at once while the
body flows on, with nobody to listen for its errors: one of them then ends the process
(`error = "uncaught"`), as it does in the code.

### RequestLifecycle

Four actions on a status document: `Start`, `Succeed` (which stores the outputs),
`Fail`, `Notify`. `Exclusive` says whether attempts at a request may overlap. If
not, a final status is only written over Processing.

### MessageQueue

What both services of `packages/queue-service` promise: `published`, `handled`, `removed`,
and three actions. `Handle` is of a published message, `Remove` of handled ones. `Ordered`
says whether messages are handled in the order of their names. A partition of which a group
of `KafkaConsumerService` starts at the first message is such a queue, ordered by offsets:
`Produce` publishes, `ProcessorResolves`, `PublishToDlq` and an error of `checkOffset` handle,
`Commit` removes all below the offset. So is a queue of `AsbService`, without an order:
`SendMessage` publishes, `ProcessMessage` or the `deleteMessage` of a processor handles,
and the settlement that completes the message removes it. All else stutters: a redelivery,
a lock that ran out, a crash, a rebalance, the cache.

## 3. What the runs check

| Run | Instance | Shows |
|---|---|---|
| `image_processor_overlap` | 2 workers, requests of 2 and of 0 images, 3 attempts, 2 faults | no reader of the document, the webhook or `tmpdir()` sees a half-finished attempt; `RequestLifecycle` is implemented; every call settles |
| `kafka_consumer_safety` | 2 members, 3 messages, 3 faults of any kind, Redis; a new group at the end | no commit passes over, and no cached offset makes the owner skip, an unhandled message |
| `kafka_consumer_crash` | 2 members, no overlap, new group from the beginning | the group implements `MessageQueue`, in order; a recorded offset is not processed again; every message is handled |
| `image_pipeline_safety` | 2 pods, 1 request published up to three times, 3 faults of any kind | the client sees the lifecycle; no 404 for a worker or for a client that was answered |
| `image_pipeline_crash` | 1 pod, requests of 1 and of 0 images, 3 messages, 3 faults of any kind but rebalances | every message of what is accepted is processed, dead-lettered, or abandoned when the dead letter topic fails as well; no open status is left otherwise; final statuses only over Processing |
| `csv_entity_chunks` | every file of up to 3 lines of 9 forms, LF or CRLF, cut into chunks in every way | the result depends on the file alone; the output reads back |
| `csv_upload_order` | every content type and query, every body of up to 3 parts of 9 forms, limit of 1 file and 2 chunks | the answer depends on the first file alone, which is read to its end; every request is answered |
| `queue_provider_services` | either service, one of ASB that cannot be constructed, or an unsupported type; 2 subscriptions, 2 Kafka messages each, 1 ASB message delivered up to 2 times, 2 failures | disconnect drains what it found and ends; ASB implements `MessageQueue`, calls are true, messages are settled in the end |
| `app_lifecycle` | 1 container of either application, started twice, 2 schemas, 1 topic with its dead letter topic, 2 requests, 2 failures | nothing works before it is initialized; no request is cut off but by SIGKILL or the uncaught error of an upload; what starts comes to work or ends, and so does what has lost its database |

Bounds, and why they are enough for these questions. *Two* workers or members
are the fewest that overlap, and each pair of steps that touches the same
document is then interleaved. *Two images* distinguish first, middle and last turns of the
loop, *zero* is the edge. *Three attempts* are an overlap plus a redelivery.
*Three messages* let a stale member be behind, at and ahead of the cached
offset. *Two or three faults* let an error hit the handling of an error, and a crash
follow a lost answer. *Three lines* are a header, and two rows of the same
product that have to be merged. *Two deliveries* of one message are the fewest in which a
late processor settles under a lock that another receiver holds, and the last one
reaches the limit. *Two starts* let a container find what an interrupted one left. The proofs
remove the bounds where they exist.

Deadlock checking is off in every run, since every instance stops: the topic is
bounded, the attempts are bounded, a file ends, a process that disconnected is
done. Liveness properties state instead what must not stop early. Symmetry is
used only in runs without liveness properties.

What the properties are, beside one type invariant a module:

- `SucceededIsComplete`, `WebhookAfterOutputsStored`: a Succeeded document and an
  announced csv list one stored output for every image, in order, all of one attempt.
- `TempDirReleased`, `ResolvedIsFinal`, `SuccessNotRevoked`: on every error path
  the directory goes, an open status means a rejection (so that the message is
  dead-lettered), and the attempt that stored Succeeded never writes Failed when
  its webhook fails. The last one rests on the second `rmdir` failing.
- `ImplementsLifecycle`, `ImplementsExclusiveLifecycle`: the order of statuses a
  polling client sees.
- `ImplementsQueue`: what was published, handled and removed, of either service. Of Kafka
  it contains `HandledInOrder` and `CommittedAreHandled`, of ASB `CompletedIsProcessed`.
- `CommitsAreHandled`, `SkippedAreHandled`, `RecordedIsSkipped`:
  the two offsets against what was really handled. The first two are checked of the
  group with the least to hold on to: one that starts at the end, so that each new owner
  starts elsewhere until something is committed.
- `QueuedIsCreated`, `OpenRequestsAreDeadLettered`: document against message. A
  request that is queued has its document, for the worker that updates it and for
  the client that asks for it.
- `ChunksDoNotMatter`, `ResultIsOfTheFile`, `OutputReadsBack`: the parser, at every
  border of two chunks, against the file as its author means it.
- `AnswerIsOfFirstFile`: the answer against the request as it was sent.
- `FailingMessageHasProducer`, `DisconnectDrains`: connections against messages in flight.
- `CallsAreTrue`: what ASB was told against what happened to the message, also when
  the lock ran out before.
- `WorksInitialized`, `RequestsAreServed`, `DrainsUnrouted`: the container against
  its connections, its schemas and topics, the requests it took and the probes.
- `AttemptSettles`, `EveryMessageHandled`, `AcceptedIsHandled`, `DisconnectSettles`,
  `QueuedIsSettled`, `UploadIsAnswered`, `StartedComesToWork`,
  `LostDatabaseIsNoticed`: what must eventually happen. `StartedComesToWork` follows a
  container from the start of `create()` through every await, of `subscribe` too, to a
  server that serves, a consumer that fetches, or the end of the process.

Each of them has a mutant: a plausible bug in a definition (kept beside it and
commented as such) under which TLC finds the property violated in the same run.

Some limits are inherent in the code and worth knowing when reading the
properties; they are hazards in `PROJECT.json`:

- `OpenRequestsAreDeadLettered` is checked with one pod. With a rebalance *and* a
  crash, a worker that lost its partition may write Processing over a final
  status and die; the request then stays Processing.
- `AcceptedIsHandled` admits that a message is abandoned: a request whose processing
  failed, and whose dead letter could not be published, is lost, since `publishToDlq`
  swallows that error (`kafka-consumer-service.ts:297`) and the offset is committed. It says
  that accepted requests are lost in no other way. It is checked for a group that has committed an offset. A new
  group without `fromBeginning` skips what was accepted before it first joined, and,
  until its first commit, whatever a member that crashed or lost the partition had left:
  the next one starts at the end again. `CommitsAreHandled` says what still holds then.
- `CommitsAreHandled` counts a message as handled that was passed over after an
  error (`abandoned`): when Redis fails, `checkOffset` makes `eachMessage` return
  (`kafka-consumer-service.ts:119`), and when the dead letter topic fails the error is
  swallowed (line 297). `disconnect` closes the producer before the consumers
  (`kafka-service.ts:94`), so that a message failing in between is lost that way;
  `FailingMessageHasProducer` says that this is the only time.
- An upload with an invalid query and a faulty body ends the API
  (`multipart.decorator.ts:98` and 115, where no controller iterates), and every request in
  flight with it. `RequestsAreServed` admits this end and SIGKILL; what it says is that no
  rejection of `bootstrap`, no SIGTERM and no hook of the shutdown cuts off a request.
- The webhook is called once: when it fails the status stays Succeeded and nothing
  calls it again, though `readme.md:33` lists webhook retries.
- `QueuedIsSettled` says that a message of ASB is completed or dead-lettered, not that a
  processor was done with it: a processor that always outlives its lock ends in the
  dead letter queue.
- The liveness file of a consumer follows the database, not the consumer:
  `StartedComesToWork` says that a `subscribe` joins or the process ends, but a kafkajs
  consumer that stops later leaves the pod alive.
- A stale member may lower the cached offset, so that a processed message runs
  again; `SkippedAreHandled` says that it never hides one that did not run.

## 4. Where the code does something else than its texts say

Three runs end in the violation they are there to show. Each checks one statement
of a text of the repository; `PROJECT.json` `findings` quotes it.

| Run | Statement | Shortest story |
|---|---|---|
| `image_processor_failure` | a failed attempt sets the status to Failed | the first call rejects before any directory exists; the `rmdir` of `handleError` rejects before the status is written |
| `csv_entity_multibyte` | the result depends on the file alone | a two-byte character on the border of two chunks becomes replacement characters in the name of the product |
| `csv_upload_limit` | files over the limit are refused | the limit is reported on the stream of parts while the controller is inside its loop, parsing that file; the cut-off file ends normally, the loop breaks, the error is dropped |

## 5. Fairness

- `ImageProcessor`, `KafkaConsumerService`, `QueueProvider`: weak fairness of each
  worker's own steps. Node's event loop resumes a continuation whose promise has
  settled. That promises *do* settle is an assumption on the services called: the
  http client has no timeout, so a server that never answers blocks its worker.
- An unowned partition is eventually assigned: the group coordinator does that
  as long as a member is alive. Nothing is assumed of rebalances, which are faults.
- A member that was expelled finds out (its next heartbeat or commit is refused); in
  `ImagePipeline` resolved offsets are also committed (kafkajs does so at the end of
  each batch).
- `CsvUpload`: a request that is not aborted is sent to its end, and the controller
  goes on when it can.
- `QueueProvider`: the service bus delivers a message that some open receiver could take,
  enqueues a scheduled one when it is due, and ends a lock that nobody holds.
- `AppLifecycle`: the event loop runs and awaits settle, those of `subscribe` too, as
  above; a request is answered, and the body of a refused one ends, at the latest when Node
  closes a connection over which a request takes too long (its `requestTimeout`); timers fire
  (`CheckLiveness`); the kubelet probes, and ends a container whose liveness probe
  fails (`WF(~Alive /\ PreStop)`), as the chart configures it. That the database comes
  back or stays away is left open.
- Nothing is assumed of clients, of when `subscribe` or `Shutdown` is called, nor
  that any message arrives. Crashes and errors are bounded: an unbounded number of
  them may keep anything from happening.

## 6. What is proved

No theorem assumes a bound: workers, requests, images, messages, faults and attempts are
arbitrary, under the named assumptions of the modules (which TLC evaluates in
the runs).

**ImageProcessorProofs** — `TypeCorrect`, `DirectoryReleased`
(`TempDirReleased`), `ResolvedWroteFinal` (`ResolvedIsFinal`), `SuccessStays`
(`SuccessNotRevoked`). `TempDirReleased` is not inductive: a step to `resolved`
needs to know that no *other* request's directory is there. The invariant
`Private` says that a worker has at most the directory of its own request (`Directory`),
none before the first image and none after either clean-up; and that an attempt that
wrote Succeeded has no directory left (`LastWrite`), so that the second `rmdir`
can only reject, which `SuccessStays` needs. The lemmas are about `Step`: a step of
some worker, or one of its surroundings that leaves documents, workers, directories
and uploads alone (`Quiet`). `Next` of `ImageProcessor` is one, and so is every step of the
pipeline, which is how the proofs below reuse them.

The same module proves `AcceptedFirst` (no step takes a document from
Accepted to a final status), `SucceededComplete`, `WebhookComplete` and
`LifecycleImplemented`: `Spec` implements `RequestLifecycle` (without `Exclusive`).
The invariants: `Begun` (the document of an attempt past its first await is not Accepted),
`Outputs` (an attempt's outputs are the uploaded files of its first images, in
order), `Published` (documents and webhook calls hold complete outputs). Then each
action is a step or a stutter of the abstract specification; `SetSucceeded` is
`Succeed`, `SetFailed` is `Fail`, and an upload is a stutter because what is
complete stays complete.

**ImagePipelineProofs** — `PipelineTyped`, `QueuedCreated` (`QueuedIsCreated`),
`PipelineLifecycle` (`ImplementsLifecycle`), for any number of pods, requests,
messages, crashes and rebalances. `PipelineInv` adds to the invariant of the processor
(`IInv`) that a member is only ever at a message of the log (`Delivered`) and that
what is being published, accepted or in the log has been created (`Submitted`). A step of
the pipeline is then a `Step` of the processor, so the refinement carries over.

Of a single pod: `ExclusiveImplemented` (`ImplementsExclusiveLifecycle`) and
`OpenDeadLettered` (`OpenRequestsAreDeadLettered`), under `Alone` (one pod, which may
crash and be given anything twice) and, for the second, `NotNew` (the group has committed
before, so that it does not begin at the end of the topic). Both are false of two pods: a
late worker may write over a final status. The invariants: what the status is at
each stage of an attempt (`Attempting`); the member and `process()` are at the same
message (`Coupled`); a request left open whose deliveries were all processed is
at an offset not yet committed, so that it is delivered again (`Redelivered`).

**KafkaConsumerServiceProofs** — `TypeCorrect`; `CommitsHandled` (`CommitsAreHandled`) and
`SkippedHandled` (`SkippedAreHandled`) for every group, wherever it starts. The invariant
`NoneSkipped(b)`: from offset b on, everything below the position of any member, the
committed offset and the cached one has been handled. It holds for stale members too,
because they only move past what they handled themselves or found cached. `HasBase` says that
there is such a b that neither the owner nor any member that is given the partition
starts below. A group without a committed offset that does not subscribe
`fromBeginning` needs it: each new owner starts at the end, what
its predecessors left is never handled, and b moves to where it starts. Once something
is committed, or from the beginning, b stays (`NextNoneSkipped`, `NextBased`).

For a group that starts at the first offset (`StartsAtFirst`: it has committed, or
subscribes `fromBeginning`) b is 0, which gives `CommittedHandled`, `CachedHandled` and
`InOrder`: all below the committed or the cached offset was handled, without gaps.
`QueueImplemented` (`ImplementsQueue`) follows: a step of `eachMessage` handles the message at
its position or none, and `NoneSkipped(0)` says that all before it were handled.
Without `StartsAtFirst` these four are false. `RecordedSkipped` (`RecordedIsSkipped`): no
message is processed again once its offset was recorded, for any number of crashes,
under `WithoutRebalance`: with rebalances a late member may put back the cached offset, and
the statement is false. Then only the owner has joined (`Alone`), and the cached offset
is the highest recorded and below the message that passed `checkOffset` (`Rising`).

**QueueProviderProofs** — of `KafkaService`: `TypeCorrect`, `Drains` (`DisconnectDrains`),
`FailingHasProducer`. The invariant: the producer is open unless the service is
before `up` or past `stopProducer`, and nobody subscribed before `up` (`Opened`); a
consumer fetches only after `run()` and handles a message only while it is open, and
what is in `_consumers` has resolved (`Fetching`); what `disconnect` stopped fetches
no more, and all of it is closed when the service is down (`Drained`).

Of `ProviderSpec`, that is of whichever service is configured:
`ProviderTyped`, `ProviderDrains`, `ProviderHasProducer`, `CompletedProcessed`
(`CompletedIsProcessed`), `CallsTrue` (`CallsAreTrue`) and `AsbQueueImplemented`
(`ImplementsQueue`). For Kafka it is the
invariant just named. For ASB: a message is where its last call left it or beyond,
and is queued only as long as it may be delivered again (`Sent`); what a processor
settled, once that resolved, is final, and whoever asks for completion was done with the
message (`Settling`). The heart of it is `ReceiverMoves`: a receiver moves only
a message that is locked, and only to where a processor sent it. The refinement needs one
invariant more: what a receiver holds was published (`Held`).

**AppLifecycleProofs** — `AppTyped`, `Initialized` (`WorksInitialized`), `AllServed`
(`RequestsAreServed`), `NoneRouted` (`DrainsUnrouted`), for any number of schemas,
topics, requests, failures and restarts. The invariants: connections stay open from
`create` to the hooks (`Connected`); what the loops of `MessagingEntity` no longer have to
do is done (`Registered`); requests are in flight, and bodies of refused ones flow on, only
while the server is up, so that of all ends of the process only SIGKILL and the uncaught
error of an upload find one (`Served`); a probe after a SIGUSR1 that was heard fails (`Unrouted`).

**CsvUploadProofs** — `TypeCorrect` and `AnswerOfFirstFile` (`AnswerIsOfFirstFile`),
for every body, head, size limit and order of the two processes. The invariant `Taken`
says where the first file is: not yet there, waiting in the stream, refused for its
field or its size, or being parsed. It needs `FilesCountLimit = 1`, which is what the
route configures (`constants/config.ts:7`): with a limit of two, a first file of
another field is refused with an error, but the second is still written to the stream,
and the iterator hands it out before that error.

**CsvEntityProofs** — `TypeCorrect` for any lines; `ChunkIsText`; and, under `SingleByte`
(no line has a character of two bytes), `ChunksAreTheFile` (`ChunksDoNotMatter`) and
`ResultOfTheFile` (`ResultIsOfTheFile`): for any set of lines that satisfies
`LineAssumption`, any number of them, any terminators and any chunks. With such
characters the second is false, as the run of section 4 shows. `OutputIsReadBack`
(`OutputReadsBack`) needs no such condition: what an accepted file left can be read
back from the output, whatever its characters. The argument:

1. `ChunkIsText`: after any text, a chunk put behind the open row leaves what the whole
   text would. Of two ways to split a text (`Same`), one may have a row without a
   character more, where a boundary falls between CR and LF; the theorem holds because
   `parseCols` makes of it an empty row (`NothingParsed`), which is skipped once a row
   was read.
2. `FileSplit`: the rows of the file are its lines, whichever terminator it uses; the last
   is the open row if it has none.
3. `LinesRead`: having read k lines, the parser has met a faulty one or holds the products
   of those k (`ReadTo`); `Merged` is the step for a product, `DistinctIs` what the `Set`
   of `mergeProductsData` does.
4. The inductive invariant `IInv`: the variables are those of one reading of the text
   delivered so far (`AsWhole`), of which `ChunksDoNotMatter` states only what concerns the
   lines.
5. `ColumnsReadBack`: a row of `buildCSV` is parsed into its four columns. `ReadPlain`,
   `ReadQuoted` and `ReadComma` say what the loop of `parseCols` has gathered at the end of
   each part of the row (`GatheredAt`): a quote of the row is one at an edge, since it
   stands beside a comma or ends the row (`EdgeIs`), and none is doubled, since
   a list of urls is not empty and holds no quote.
6. `JoinedSplit`: urls without comma, joined by commas, are split into the same urls.
   `Kept`, the invariant, says that the names the parser keeps are trimmed and that each has at
   least one url, of `UrlTexts`; without it a row may differ from what is read back by
   its spaces.

The steps 1, 2, 3, 5 and 6 are inductions over texts and lines. The induction theorems of the library
take a predicate as a parameter, which the provers cannot instantiate. `FoldTheory`
states induction over a *set* instead (`InductionNat`, `InductionSeq`, from the least
element that a well-founded relation has), and proves of `FoldLeft`, with the step as a
constant operator, that it goes through a sequence element by element
(`FoldTrace`); the proofs instantiate it with the steps of the parser.

Only model-checked:

- liveness (`AttemptSettles`, `EveryMessageHandled`, `AcceptedIsHandled`,
  `DisconnectSettles`, `QueuedIsSettled`, `UploadIsAnswered`, `StartedComesToWork`,
  `LostDatabaseIsNoticed`): out of the prover's reach;
- that a line means what its author says (`LineAssumption`), which is what the instances
  give.

## 7. What is not modelled

- The `File` decorator, which no route uses, and `fileSizeLimitQueryField`, which no route sets.
- `AxiosClient`: one driver call a method, errors mapped to one class; its calls are the
  faults of `ImageProcessor`.
- SQL and Elasticsearch, which the app does not use: wrappers of the same shape as
  the one of Mongo, whose connection is in `AppLifecycle`. Of `RedisService`, the events
  of the connection, which only log, and `keys()`. `deleteTopics` and `listTopics`,
  which nothing calls.
- HTTP filters, pipes and interceptors beyond the answers of `CsvUpload`;
  configuration, logging, Swagger; of the charts, all but what `AppLifecycle` assumes of them:
  no state of their own.
- Of uploads, bodies that are not a complete multipart form: what busboy does with a
  truncated one is not in the repository.
- Of modelled parts: the contents of images; the mime type check of
  `parseData`; product names that are properties of `Object.prototype`; errors of
  `rmdir` other than ENOENT; topics that are deleted and created again; the contents
  of schemas and the number of partitions.

## 8. Plan

Done, in this order because each builds on the last: `RequestLifecycle` and
`ImageProcessor` with their proofs; `KafkaConsumerService` with its proofs;
`ImagePipeline`, which composes them, with its proofs; `CsvEntity`; `CsvUpload`;
`KafkaService`, `AsbService`, `QueueProvider` and `AppLifecycle` with their proofs;
the proofs about `CsvUpload`, `CsvEntity` and `RecordedIsSkipped`; `MessageQueue`, which
both services implement.

Left: to compose the processor with `MessageQueue`, so that what is proved of the
pipeline holds with either service. A run is added only with a question of its own; the runs of section 4 may be
merged into fewer when new ones need room.

## 9. Running the tools

    tlc -workers 2 -config ImageProcessor_overlap.cfg MC_ImageProcessor.tla
    tlapm ImageProcessorProofs.tla

Every run of section 3 ends without an error in under five minutes; every run
of section 4 ends in a counterexample within seconds.
