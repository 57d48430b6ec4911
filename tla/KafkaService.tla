----------------------------- MODULE KafkaService -----------------------------
(***************************************************************************)
(* The connections a process has through KafkaService of                   *)
(* packages/queue-service: connect() and disconnect(), which the provider  *)
(* of packages/nestjs-queue-service calls when the application starts and  *)
(* shuts down, and the calls of subscribe() made in between, each of which *)
(* opens a consumer of its own.  KafkaConsumerService.tla looks into the   *)
(* handling of a message; here a message matters only while it is in       *)
(* flight when a connection closes.                                        *)
(*                                                                         *)
(* kafkajs is external: a consumer that is told to disconnect takes no new *)
(* message, waits for the one it handles, commits and closes; a producer   *)
(* that is disconnected refuses to send.                                   *)
(***************************************************************************)
EXTENDS Naturals

CONSTANTS
    Subscriptions,   \* the calls of subscribe()
    FaultKinds,      \* what may go wrong in this instance
    MaxFaults,       \* bound: how often something goes wrong
    MaxMessages      \* bound: the messages of each subscription

ASSUME ServiceAssumption == MaxFaults \in Nat /\ MaxMessages \in Nat

VARIABLES
    service,         \* where connect() or disconnect() stands
    admin, producer, \* whether their connection is open
    sub,             \* [Subscriptions -> Consumer]
    consumers,       \* _consumers: the subscriptions that were pushed
    stopping,        \* those of them disconnect() found there
    abandoned,       \* the messages neither processed nor dead-lettered
    faults           \* bounded by MaxFaults: the faults so far

vars == <<service, admin, producer, sub, consumers, stopping, abandoned, faults>>

(* The await subscribe() is blocked in, or its outcome; the connection; the *)
(* message eachMessage is busy with, and how many it was given.             *)
Consumer == [pc : {"none", "connect", "subscribeTopics", "run", "push", "resolved", "rejected"},
             open : BOOLEAN, fetching : BOOLEAN,
             msg : {"none", "running", "deadLetter"}, taken : 0..MaxMessages]

ServicePC == {"connectAdmin", "connectProducer", "up", "failed", "stopAdmin",
              "stopProducer", "stopConsumers", "awaitConsumers", "down", "stopFailed"}

TypeOK ==
    /\ service \in ServicePC
    /\ admin \in BOOLEAN /\ producer \in BOOLEAN
    /\ sub \in [Subscriptions -> Consumer]
    /\ stopping \subseteq consumers /\ consumers \subseteq Subscriptions
    /\ abandoned \subseteq Subscriptions \X (0..MaxMessages)
    /\ faults \in 0..MaxFaults

Init ==
    /\ service = "connectAdmin"
    /\ admin = FALSE /\ producer = FALSE
    /\ sub = [s \in Subscriptions |-> [pc |-> "none", open |-> FALSE, fetching |-> FALSE,
                                       msg |-> "none", taken |-> 0]]
    /\ consumers = {} /\ stopping = {} /\ abandoned = {}
    /\ faults = 0

-------------------------------------------------------------------------------
Fault(kind) ==
    /\ kind \in FaultKinds
    /\ faults < MaxFaults
    /\ faults' = faults + 1

At(s, pc) == sub[s].pc = pc

(* An awaited call of connect() or disconnect(): it resolves and the method *)
(* goes on, or it rejects and so does the method.                           *)
Await(from, to, failed) ==
    /\ service = from
    /\ \/ service' = to /\ UNCHANGED faults
       \/ service' = failed /\ Fault("call")

Succeeds(to) == service' = to

-------------------------------------------------------------------------------
(* connect() *)

ConnectAdmin ==
    /\ Await("connectAdmin", "connectProducer", "failed")
    /\ admin' = Succeeds("connectProducer")
    /\ UNCHANGED <<producer, sub, consumers, stopping, abandoned>>

(* Mutant: the connection of the producer is not awaited.                   *)
ConnectProducerNotAwaited ==
    /\ service = "connectProducer"
    /\ service' = "up"
    /\ producer' \in BOOLEAN
    /\ UNCHANGED <<admin, sub, consumers, stopping, abandoned, faults>>

(* The service is handed to the application when this resolves.             *)
ConnectProducer ==
    /\ Await("connectProducer", "up", "failed")
    /\ producer' = Succeeds("up")
    /\ UNCHANGED <<admin, sub, consumers, stopping, abandoned>>

-------------------------------------------------------------------------------
(* KafkaConsumerService.subscribe() and consume() *)

(* Whoever has the service may call subscribe(), also while it disconnects. *)
Subscribe(s) ==
    /\ service \notin {"connectAdmin", "connectProducer", "failed"}
    /\ At(s, "none")
    /\ sub' = [sub EXCEPT ![s].pc = "connect"]
    /\ UNCHANGED <<service, admin, producer, consumers, stopping, abandoned, faults>>

(* An await of consume(): it resolves with the effect c on the consumer, or *)
(* rejects, and subscribe() with it; nothing opened before is closed then.  *)
Consume(s, from, c) ==
    /\ At(s, from)
    /\ \/ sub' = [sub EXCEPT ![s] = c] /\ UNCHANGED faults
       \/ sub' = [sub EXCEPT ![s].pc = "rejected"] /\ Fault("call")
    /\ UNCHANGED <<service, admin, producer, consumers, stopping, abandoned>>

Connect(s) == Consume(s, "connect", [sub[s] EXCEPT !.pc = "subscribeTopics", !.open = TRUE])
SubscribeTopics(s) == Consume(s, "subscribeTopics", [sub[s] EXCEPT !.pc = "run"])
Run(s) == Consume(s, "run", [sub[s] EXCEPT !.pc = "push", !.fetching = TRUE])

(* this._consumers.push(consumer), after the await of run().                *)
Push(s) ==
    /\ At(s, "push")
    /\ consumers' = consumers \cup {s}
    /\ sub' = [sub EXCEPT ![s].pc = "resolved"]
    /\ UNCHANGED <<service, admin, producer, stopping, abandoned, faults>>

-------------------------------------------------------------------------------
(* eachMessage, as far as it needs the connections *)

Take(s) ==
    /\ sub[s].fetching /\ sub[s].msg = "none" /\ sub[s].taken < MaxMessages
    /\ sub' = [sub EXCEPT ![s].msg = "running", ![s].taken = @ + 1]
    /\ UNCHANGED <<service, admin, producer, consumers, stopping, abandoned, faults>>

RunProcessor(s) ==
    /\ sub[s].msg = "running"
    /\ \/ sub' = [sub EXCEPT ![s].msg = "none"] /\ UNCHANGED faults
       \/ sub' = [sub EXCEPT ![s].msg = "deadLetter"] /\ Fault("processor")
    /\ UNCHANGED <<service, admin, producer, consumers, stopping, abandoned>>

(* publishToDlq: an error of the producer is swallowed and the message is   *)
(* committed with the others.                                               *)
PublishToDlq(s) ==
    /\ sub[s].msg = "deadLetter"
    /\ sub' = [sub EXCEPT ![s].msg = "none"]
    /\ abandoned' = IF producer THEN abandoned ELSE abandoned \cup {<<s, sub[s].taken>>}
    /\ UNCHANGED <<service, admin, producer, consumers, stopping, faults>>

-------------------------------------------------------------------------------
(* disconnect() *)

(* onApplicationShutdown of the provider.                                   *)
Shutdown ==
    /\ service = "up"
    /\ service' = "stopAdmin"
    /\ UNCHANGED <<admin, producer, sub, consumers, stopping, abandoned, faults>>

DisconnectAdmin ==
    /\ Await("stopAdmin", "stopProducer", "stopFailed")
    /\ admin' = ~Succeeds("stopProducer")
    /\ UNCHANGED <<producer, sub, consumers, stopping, abandoned>>

DisconnectProducer ==
    /\ Await("stopProducer", "stopConsumers", "stopFailed")
    /\ producer' = ~Succeeds("stopConsumers")
    /\ UNCHANGED <<admin, sub, consumers, stopping, abandoned>>

(* Mutant: every consumer that was ever asked for, pushed or not.           *)
DisconnectEverySubscription ==
    /\ service = "stopConsumers"
    /\ service' = "awaitConsumers"
    /\ stopping' = Subscriptions
    /\ sub' = [s \in Subscriptions |-> [sub[s] EXCEPT !.fetching = FALSE]]
    /\ UNCHANGED <<admin, producer, consumers, abandoned, faults>>

(* Promise.all over _consumers as it is at this moment: each of its         *)
(* consumers stops taking messages.                                         *)
DisconnectConsumers ==
    /\ service = "stopConsumers"
    /\ service' = "awaitConsumers"
    /\ stopping' = consumers
    /\ sub' = [s \in Subscriptions |->
                  IF s \in consumers THEN [sub[s] EXCEPT !.fetching = FALSE] ELSE sub[s]]
    /\ UNCHANGED <<admin, producer, consumers, abandoned, faults>>

(* One of them has finished its message and closes; or its disconnect       *)
(* rejects and it stays open: disconnect() rejects while the others go on.  *)
CloseConsumer(s) ==
    /\ s \in stopping /\ sub[s].open /\ sub[s].msg = "none"
    /\ \/ sub' = [sub EXCEPT ![s].open = FALSE] /\ UNCHANGED <<service, stopping, faults>>
       \/ /\ service' = "stopFailed" /\ Fault("call")
          /\ stopping' = stopping \ {s}
          /\ UNCHANGED sub
    /\ UNCHANGED <<admin, producer, consumers, abandoned>>

(* Mutants: it waits for consumers it did not stop; Promise.race, the first *)
(* one that closes is enough.                                               *)
EveryoneDisconnected ==
    /\ service = "awaitConsumers"
    /\ \A s \in Subscriptions : ~sub[s].open
    /\ service' = "down"
    /\ UNCHANGED <<admin, producer, sub, consumers, stopping, abandoned, faults>>
FirstDisconnected ==
    /\ service = "awaitConsumers"
    /\ stopping = {} \/ \E s \in stopping : ~sub[s].open
    /\ service' = "down"
    /\ UNCHANGED <<admin, producer, sub, consumers, stopping, abandoned, faults>>

(* All have closed; the cache that is disconnected last never rejects.      *)
Disconnected ==
    /\ service = "awaitConsumers"
    /\ \A s \in stopping : ~sub[s].open
    /\ service' = "down"
    /\ UNCHANGED <<admin, producer, sub, consumers, stopping, abandoned, faults>>

-------------------------------------------------------------------------------
ServiceStep ==
    \/ ConnectAdmin \/ ConnectProducer
    \/ DisconnectAdmin \/ DisconnectProducer \/ DisconnectConsumers \/ Disconnected

SubscribeStep(s) == Connect(s) \/ SubscribeTopics(s) \/ Run(s) \/ Push(s)
HandleStep(s) == RunProcessor(s) \/ PublishToDlq(s)

Next ==
    \/ ServiceStep
    \/ Shutdown
    \/ \E s \in Subscriptions :
          Subscribe(s) \/ SubscribeStep(s) \/ Take(s) \/ HandleStep(s) \/ CloseConsumer(s)

Spec == Init /\ [][Next]_vars

(* Every await settles, and a message that was taken is handled to its end. *)
FairSpec ==
    /\ Spec
    /\ WF_vars(ServiceStep)
    /\ \A s \in Subscriptions :
          WF_vars(SubscribeStep(s)) /\ WF_vars(HandleStep(s)) /\ WF_vars(CloseConsumer(s))

-------------------------------------------------------------------------------
(* Properties *)

(* A message that fails finds the producer disconnected only when           *)
(* disconnect() closed it: no consumer runs before connect() has resolved.  *)
FailingMessageHasProducer ==
    \A s \in Subscriptions :
        sub[s].msg = "deadLetter" /\ ~producer
            => service \in {"stopConsumers", "awaitConsumers", "down", "stopFailed"}

(* disconnect() resolves only after the consumers it stopped have finished  *)
(* the message each was handling and have closed.                           *)
DisconnectDrains ==
    service = "down" =>
        \A s \in stopping : ~sub[s].open /\ ~sub[s].fetching /\ sub[s].msg = "none"

(* disconnect() ends, whatever its consumers were doing and whatever fails. *)
DisconnectSettles ==
    service = "stopAdmin" ~> service \in {"down", "stopFailed"}
===============================================================================
