----------------------------- MODULE ImagePipeline -----------------------------
(***************************************************************************)
(* A request from its POST to its webhook: the API side                    *)
(* (SchedulingService, RequestRepository, ImageProcessingMessagingEntity)  *)
(* composed with KafkaConsumerService and ImageProcessor, as the app wires *)
(* them: the subscription asks for dead letters, not for fromBeginning     *)
(* (image-processing.messaging.entity.ts:44-59), and no caching service is *)
(* configured (kafka.config.ts).                                           *)
(***************************************************************************)
EXTENDS ImageProcessor, Integers

CONSTANTS
    NoWorker,         \* the owner of the partition when it has none
    InitialCommitted, \* 0, or -1 for a group that is new to the partition
    MaxMessages       \* bound: the length of the partition

ASSUME PipelineAssumption ==
    /\ NoWorker \notin Workers
    /\ InitialCommitted \in {-1, 0}
    /\ MaxMessages \in Nat

VARIABLES
    api,              \* [Requests -> ApiState]: the POST that submits a request
    created,          \* the requests that have a document
    \* of KafkaConsumerService
    log, committed, owner, con, processed, deadLetters, abandoned

apiVars == <<api, created>>
procVars == <<doc, proc, tmp, uploads, hooks, attempts>>
queueVars == <<log, committed, owner, con, processed, deadLetters, abandoned>>
pipelineVars == <<vars, apiVars, queueVars>>

Q == INSTANCE KafkaConsumerService WITH
    Consumers <- Workers, NoConsumer <- NoWorker, Messages <- Requests,
    FromBeginning <- FALSE, DlqRequired <- TRUE, Cached <- FALSE,
    cache <- -1, recorded <- {}

(* accepted and refused are the answers 202 and 500.                        *)
ApiState == {"new", "creating", "publishing", "accepted", "refused"}

PipelineTypeOK ==
    /\ api \in [Requests -> ApiState]
    /\ created \subseteq Requests
    /\ TypeOK
    /\ Q!TypeOK

PipelineInit ==
    /\ api = [r \in Requests |-> "new"]
    /\ created = {}
    /\ Init
    /\ Q!Init

-------------------------------------------------------------------------------
(* scheduleImageProcessing *)

Answer(r, state) == api' = [api EXCEPT ![r] = state]

(* The controller parsed a csv and calls the scheduling service.            *)
Submit(r) ==
    /\ api[r] = "new"
    /\ Answer(r, "creating")
    /\ UNCHANGED <<created, procVars, queueVars, faults>>

(* Mutant: the message is published before the document is created.         *)
PublishedFirst(r) ==
    /\ api[r] = "creating"
    /\ Q!Produce(r)
    /\ Answer(r, "publishing")
    /\ UNCHANGED <<created, procVars>>

(* createRequest; when it rejects, the document may or may not be there.    *)
CreateRequest(r) ==
    /\ api[r] = "creating"
    /\ \/ created' = created \cup {r} /\ Answer(r, "publishing") /\ UNCHANGED faults
       \/ created' \in {created, created \cup {r}} /\ Answer(r, "refused")
          /\ Fault("create")
    /\ UNCHANGED <<procVars, queueVars>>

(* Mutant: the publish is not awaited and its failure goes unnoticed.       *)
PublishNotAwaited(r) ==
    /\ api[r] = "publishing"
    /\ Answer(r, "accepted")
    /\ \/ Q!Produce(r)
       \/ UNCHANGED <<queueVars, faults>>
    /\ UNCHANGED <<created, procVars>>

(* publishProcessingRequest.  The producer is not idempotent: when an       *)
(* acknowledgement is lost, it appends the message again (the first         *)
(* disjunct with a fault) or gives up after the message was, or was not,    *)
(* appended.  The document is not taken back.                               *)
PublishProcessingRequest(r) ==
    /\ api[r] = "publishing"
    /\ \/ Q!AppendMessage(r) /\ Answer(r, "accepted") /\ UNCHANGED faults
       \/ Q!AppendMessage(r) /\ UNCHANGED api /\ Fault("publish")
       \/ Q!AppendMessage(r) /\ Answer(r, "refused") /\ Fault("publish")
       \/ UNCHANGED queueVars /\ Answer(r, "refused") /\ Fault("publish")
    /\ UNCHANGED <<created, procVars>>

(* The API process dies between the two calls.                              *)
ApiCrash(r) ==
    /\ api[r] \in {"creating", "publishing"}
    /\ Fault("apiCrash")
    /\ Answer(r, "refused")
    /\ UNCHANGED <<created, procVars, queueVars>>

-------------------------------------------------------------------------------
(* A consumer pod *)

(* The processor bound in subscribe() hands the message to process().       *)
Processor(c) ==
    /\ Q!RunProcessor(c)
    /\ Begin(c, log[Q!Pos(c) + 1])
    /\ UNCHANGED apiVars

Process(c) ==
    /\ ProcessStep(c)
    /\ UNCHANGED <<apiVars, queueVars>>

(* Mutant: an error of process() is swallowed by the processor.             *)
ProcessorSwallows(c) ==
    /\ Return(c)
    /\ Q!ProcessorResolves(c)
    /\ UNCHANGED apiVars

ProcessorSettles(c) ==
    /\ Return(c)
    /\ IF At(c, "resolved") THEN Q!ProcessorResolves(c) ELSE Q!ProcessorRejects(c)
    /\ UNCHANGED apiVars

(* The steps of eachMessage that do not touch the processor.                *)
ConsumerStep(c) ==
    /\ Q!Take(c) \/ Q!DecodeMsg(c) \/ Q!CheckOffset(c) \/ Q!PublishOffset(c)
          \/ Q!PublishToDlq(c)
    /\ UNCHANGED <<apiVars, procVars>>

Assign(c) == Q!Assign(c) /\ UNCHANGED <<apiVars, procVars>>

GroupStep(c) ==
    /\ Q!Expelled(c) \/ Q!Commit(c)
    /\ UNCHANGED <<apiVars, procVars>>

PodCrash(c) ==
    /\ Crash(c)
    /\ Q!Crash(c)
    /\ UNCHANGED apiVars

-------------------------------------------------------------------------------
PodStep(c) == Processor(c) \/ Process(c) \/ ProcessorSettles(c) \/ ConsumerStep(c)

PipelineNext ==
    \/ \E r \in Requests :
          \/ Submit(r)
          \/ CreateRequest(r)
          \/ PublishProcessingRequest(r)
          \/ ApiCrash(r)
    \/ \E c \in Workers : PodStep(c) \/ Assign(c) \/ GroupStep(c) \/ PodCrash(c)

PipelineSpec == PipelineInit /\ [][PipelineNext]_pipelineVars

(* A pod goes on with the message it has and a partition without an owner   *)
(* is assigned.  Nothing is assumed of the clients of the API.              *)
FairPipelineSpec ==
    /\ PipelineSpec
    /\ \A c \in Workers : WF_pipelineVars(PodStep(c)) /\ WF_pipelineVars(GroupStep(c))
    /\ WF_pipelineVars(owner = NoWorker /\ \E c \in Workers : Assign(c))

-------------------------------------------------------------------------------
(* Properties *)

(* GET status/:requestId: the document, or 404.                             *)
GetStatus(r) == IF r \in created THEN doc[r].status ELSE "NotFound"

OffsetsOf(r) == {o \in Q!Offsets : log[o + 1] = r}
Queued(r) == OffsetsOf(r) # {}
Final(r) == GetStatus(r) \in {"Succeeded", "Failed"}

(* Whoever knows a request finds its document: the worker whose attempt     *)
(* updates it, and the client that was answered with its id.  The document  *)
(* is created before the message is published.                              *)
QueuedIsCreated ==
    \A r \in Requests : Queued(r) \/ api[r] = "accepted" => GetStatus(r) # "NotFound"

(* Once all deliveries of a request were processed and committed, and no    *)
(* worker is at it, the client reads a final status; an attempt that leaves *)
(* the status open rejects, and its message is dead-lettered, or abandoned  *)
(* if that fails too.                                                       *)
OpenRequestsAreDeadLettered ==
    \A r \in Requests :
        /\ Queued(r)
        /\ OffsetsOf(r) \subseteq (0..(committed - 1)) \cap processed
        /\ OffsetsOf(r) \cap (deadLetters \cup abandoned) = {}
        /\ \A c \in Workers : proc[c].req # r
        => Final(r)

(* The lifecycle promised to clients (ImplementsLifecycle) and, with a      *)
(* single pod, the one of attempts that do not overlap, whatever is         *)
(* redelivered (ImplementsExclusiveLifecycle), are those of ImageProcessor. *)

(* Every message of a request answered with 202 is processed, dead-lettered *)
(* or abandoned.  It is abandoned when its processing failed and so did its *)
(* publication to the dead letter topic, whose error publishToDlq swallows  *)
(* (kafka-consumer-service.ts:297): such a request is lost, and nothing     *)
(* else loses one.  This is of a group that has committed before: a new one *)
(* without fromBeginning skips what came before it joined.                  *)
AcceptedIsHandled ==
    \A r \in Requests :
        api[r] = "accepted" ~> Queued(r) /\ OffsetsOf(r) \subseteq Q!Handled
===============================================================================
