---------------------------- MODULE QueueProvider ----------------------------
(***************************************************************************)
(* QueueService of packages/queue-service and its provider in              *)
(* packages/nestjs-queue-service: one service, of the type that is         *)
(* configured, which the factory connects if it has a connect() and        *)
(* disconnects when the application shuts down.  KafkaService.tla and      *)
(* AsbService.tla are the two; they meet in service, consumers, stopping   *)
(* and faults, and the state of the one that is not configured stays as it *)
(* is.                                                                     *)
(***************************************************************************)
EXTENDS KafkaService

CONSTANTS
    Messages,        \* the messages that are published through ASBService
    NoMessage,       \* a receiver without a message
    MaxDeliveries    \* the limit of a queue of Azure Service Bus

ASSUME AsbAssumption == NoMessage \notin Messages /\ MaxDeliveries \in Nat \ {0}

VARIABLES
    type,            \* the type QueueService was constructed with
    queue, call, receiver, processed

ASB == INSTANCE AsbService WITH Receivers <- Subscriptions

kafkaVars == <<admin, producer, sub, abandoned>>
asbVars == <<queue, call, receiver, processed>>
allVars == <<vars, type, asbVars>>

KAFKA == "kafka"
AzureServiceBus == "asb"
SupportedQueues == {KAFKA, AzureServiceBus}

(* The switch of the constructor, and whether the instance has a connect(): *)
(* ASBService has none and is ready, if its constructor does not throw.  A  *)
(* type that is not supported makes the factory throw too.                  *)
GetInstance ==
    service \in CASE type = KAFKA           -> {"connectAdmin"}
                  [] type = AzureServiceBus -> {"up", "failed"}
                  [] OTHER                  -> {"failed"}

ProviderInit ==
    /\ type \in SupportedQueues \cup {"other"}
    /\ GetInstance
    /\ admin = FALSE /\ producer = FALSE /\ abandoned = {}
    /\ sub = [s \in Subscriptions |-> [pc |-> "none", open |-> FALSE, fetching |-> FALSE,
                                       msg |-> "none", taken |-> 0]]
    /\ queue = [m \in Messages |-> [state |-> "absent", deliveries |-> 0]]
    /\ call = [m \in Messages |-> ASB!NoCall]
    /\ receiver = [s \in Subscriptions |-> ASB!Idle]
    /\ consumers = {} /\ stopping = {} /\ processed = {} /\ faults = 0

-------------------------------------------------------------------------------
OfKafka(A) == type = KAFKA /\ A /\ UNCHANGED <<type, asbVars>>
OfAsb(A) == type = AzureServiceBus /\ A /\ UNCHANGED <<type, kafkaVars>>

(* onApplicationShutdown, which the factory adds to the instance.           *)
OnApplicationShutdown == OfKafka(Shutdown) \/ OfAsb(ASB!Disconnect)

ProviderNext ==
    \/ OnApplicationShutdown
    \/ OfKafka(ServiceStep)
    \/ OfAsb(ASB!BusStep \/ ASB!DisconnectStep)
    \/ \E s \in Subscriptions :
          \/ OfKafka(Subscribe(s) \/ SubscribeStep(s) \/ Take(s) \/ HandleStep(s)
                     \/ CloseConsumer(s))
          \/ OfAsb(ASB!Subscribe(s) \/ ASB!DeleteMessage(s) \/ ASB!AbandonMessage(s)
                   \/ ASB!DeadLetterMessage(s) \/ ASB!HandlerStep(s))
    \/ \E m \in Messages :
          OfAsb(ASB!Publish(m) \/ ASB!CancelScheduledMessage(m) \/ ASB!ProducerStep(m))

ProviderSpec == ProviderInit /\ [][ProviderNext]_allVars

(* Every await of the service settles, a message that was taken is handled  *)
(* to its end, and the service bus delivers, and ends a lock, in the end.   *)
FairProviderSpec ==
    /\ ProviderSpec
    /\ WF_allVars(OfKafka(ServiceStep))
    /\ WF_allVars(OfAsb(ASB!BusStep)) /\ WF_allVars(OfAsb(ASB!DisconnectStep))
    /\ \A s \in Subscriptions :
          /\ WF_allVars(OfKafka(SubscribeStep(s))) /\ WF_allVars(OfKafka(HandleStep(s)))
          /\ WF_allVars(OfKafka(CloseConsumer(s)))
          /\ WF_allVars(OfAsb(ASB!HandlerStep(s)))

-------------------------------------------------------------------------------
(* Properties, beside those of KafkaService *)

(* The types of the two services.  Either stops only subscriptions that     *)
(* were pushed, and a receiver of ASB holds a message exactly while its     *)
(* processor is at work.                                                    *)
ProviderTypeOK ==
    /\ type \in SupportedQueues \cup {"other"}
    /\ TypeOK
    /\ type = AzureServiceBus => ASB!AsbTypeOK

(* A message of ASB is completed only after a processor was done with it.   *)
CompletedIsProcessed == ASB!CompletedIsProcessed

(* ASBService is a queue: a message of it is handled only when it was       *)
(* published, and removed, as the SDK completes it, only when it was        *)
(* handled, however often it is delivered and its lock runs out.            *)
Queue == INSTANCE MessageQueue WITH
    Names <- Messages, Ordered <- FALSE,
    published <- {m \in Messages : queue[m].state # "absent"}, handled <- processed,
    removed <- {m \in Messages : queue[m].state = "completed"}
ImplementsQueue == Queue!Spec

(* A call of ASBService that resolves has done what it says, and closes     *)
(* the sender or receiver it opened.                                        *)
CallsAreTrue == type = AzureServiceBus => ASB!CallsAreTrue

(* A message of ASB is settled in the end, unless the service disconnects.  *)
QueuedIsSettled ==
    type = AzureServiceBus => ASB!QueuedIsSettled
===============================================================================
