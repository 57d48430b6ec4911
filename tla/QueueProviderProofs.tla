-------------------------- MODULE QueueProviderProofs --------------------------
(***************************************************************************)
(* Proofs about KafkaService for any number of subscriptions, messages and *)
(* failures: that disconnect() drains the consumers it stops, and that a   *)
(* consumer never runs without the producer unless disconnect() closed it. *)
(*                                                                         *)
(* They hold of QueueProvider with either service; and what a call of      *)
(* ASBService or the end of a message of it says is true, for any number   *)
(* of messages, deliveries and failures.                                   *)
(***************************************************************************)
EXTENDS QueueProvider, TLAPS

-------------------------------------------------------------------------------
(* KafkaService *)

Connecting == {"connectAdmin", "connectProducer", "failed"}
Closing == {"stopConsumers", "awaitConsumers", "down", "stopFailed"}
Stopping == {"awaitConsumers", "down", "stopFailed"}

(* The producer is open from the moment connect() resolves until            *)
(* disconnect() closes it, and before it nobody could subscribe.            *)
Opened ==
    /\ service \in Connecting => \A s \in Subscriptions : sub[s].pc = "none"
    /\ service \notin Connecting \cup Closing => producer

(* A consumer is open from connect() on, fetches only when subscribe() is   *)
(* past run(), and handles a message only while it is open.                 *)
Fetching ==
    \A s \in Subscriptions :
        /\ sub[s].pc \in {"none", "connect", "subscribeTopics", "run"}
              => ~sub[s].fetching
        /\ sub[s].pc \in {"none", "connect"} => ~sub[s].open
        /\ sub[s].pc \in {"subscribeTopics", "run", "push"} => sub[s].open
        /\ sub[s].fetching => sub[s].open
        /\ ~sub[s].open => sub[s].msg = "none"
        /\ s \in consumers => sub[s].pc = "resolved"

(* What disconnect() stopped takes no message again, and closes only when   *)
(* it handles none.                                                         *)
Drained ==
    /\ stopping # {} => service \in Stopping
    /\ \A s \in stopping :
          /\ ~sub[s].fetching
          /\ service = "down" => ~sub[s].open

Inv == TypeOK /\ Opened /\ Fetching /\ Drained

-------------------------------------------------------------------------------
(* The first state.                                                         *)
LEMMA InitInv == Init => Inv
  <1> SUFFICES ASSUME Init PROVE Inv
      OBVIOUS
  <1>1. ASSUME NEW s \in Subscriptions
        PROVE  [pc |-> "none", open |-> FALSE, fetching |-> FALSE, msg |-> "none", taken |-> 0]
                  \in Consumer
      BY ServiceAssumption DEF Consumer
  <1>2. TypeOK
    <2>1. sub \in [Subscriptions -> Consumer]
        BY <1>1 DEF Init
    <2>2. /\ service \in ServicePC /\ admin \in BOOLEAN /\ producer \in BOOLEAN
          /\ stopping \subseteq consumers /\ consumers \subseteq Subscriptions
          /\ abandoned \subseteq Subscriptions \X (0..MaxMessages)
        BY DEF Init, ServicePC
    <2>3. faults \in 0..MaxFaults
        BY ServiceAssumption DEF Init
    <2> QED
        BY <2>1, <2>2, <2>3 DEF TypeOK
  <1>3. Opened /\ Fetching /\ Drained
      BY DEF Init, Opened, Fetching, Drained, Connecting, Closing
  <1> QED
      BY <1>2, <1>3 DEF Inv

(* The types of one step.                                                   *)
LEMMA StepTypes == TypeOK /\ [Next]_vars => TypeOK'
  <1> SUFFICES ASSUME TypeOK, [Next]_vars PROVE TypeOK'
      OBVIOUS
  <1> USE ServiceAssumption
  <1>1. CASE UNCHANGED vars
      BY <1>1 DEF vars, TypeOK
  <1>2. CASE ServiceStep \/ Shutdown
    <2>1. faults' \in 0..MaxFaults
        BY <1>2 DEF ServiceStep, Shutdown, ConnectAdmin, ConnectProducer, DisconnectAdmin,
           DisconnectProducer, DisconnectConsumers, Disconnected, Await, Fault, TypeOK
    <2>2. CASE DisconnectConsumers
      <3>1. \A s \in Subscriptions : [sub[s] EXCEPT !.fetching = FALSE] \in Consumer
          BY DEF TypeOK, Consumer
      <3>2. sub' \in [Subscriptions -> Consumer]
          BY <2>2, <3>1 DEF DisconnectConsumers, TypeOK
      <3> QED
          BY <2>1, <2>2, <3>2 DEF DisconnectConsumers, TypeOK, ServicePC
    <2>3. CASE ~DisconnectConsumers
        BY <1>2, <2>1, <2>3 DEF ServiceStep, Shutdown, ConnectAdmin, ConnectProducer,
           DisconnectAdmin, DisconnectProducer, Disconnected, Await, Succeeds, TypeOK, ServicePC
    <2> QED
        BY <2>2, <2>3
  <1>3. ASSUME NEW s \in Subscriptions, NEW c \in Consumer,
               sub' = [sub EXCEPT ![s] = c] \/ sub' = sub
        PROVE  sub' \in [Subscriptions -> Consumer]
      BY <1>3 DEF TypeOK
  <1>4. ASSUME NEW s \in Subscriptions, Subscribe(s) PROVE TypeOK'
    <2>1. [sub[s] EXCEPT !.pc = "connect"] \in Consumer
        BY DEF TypeOK, Consumer
    <2> QED
        BY <1>4, <1>3, <2>1 DEF Subscribe, TypeOK
  <1>5. ASSUME NEW s \in Subscriptions, SubscribeStep(s) PROVE TypeOK'
    <2>1. ASSUME NEW c \in Consumer, NEW from, Consume(s, from, c) PROVE TypeOK'
      <3>1. [sub[s] EXCEPT !.pc = "rejected"] \in Consumer
          BY DEF TypeOK, Consumer
      <3>2. sub' \in [Subscriptions -> Consumer]
          BY <2>1, <1>3, <3>1 DEF Consume
      <3> QED
          BY <2>1, <3>2 DEF Consume, Fault, TypeOK
    <2>2. CASE Connect(s)
      <3>1. [sub[s] EXCEPT !.pc = "subscribeTopics", !.open = TRUE] \in Consumer
          BY DEF TypeOK, Consumer
      <3> QED
          BY <2>1, <2>2, <3>1 DEF Connect
    <2>3. CASE SubscribeTopics(s)
      <3>1. [sub[s] EXCEPT !.pc = "run"] \in Consumer
          BY DEF TypeOK, Consumer
      <3> QED
          BY <2>1, <2>3, <3>1 DEF SubscribeTopics
    <2>4. CASE Run(s)
      <3>1. [sub[s] EXCEPT !.pc = "push", !.fetching = TRUE] \in Consumer
          BY DEF TypeOK, Consumer
      <3> QED
          BY <2>1, <2>4, <3>1 DEF Run
    <2>5. CASE Push(s)
      <3>1. [sub[s] EXCEPT !.pc = "resolved"] \in Consumer
          BY DEF TypeOK, Consumer
      <3> QED
          BY <2>5, <1>3, <3>1 DEF Push, TypeOK
    <2> QED
        BY <1>5, <2>2, <2>3, <2>4, <2>5 DEF SubscribeStep
  <1>6. ASSUME NEW s \in Subscriptions, Take(s) PROVE TypeOK'
    <2>1. [sub[s] EXCEPT !.msg = "running", !.taken = @ + 1] \in Consumer
        BY <1>6 DEF Take, TypeOK, Consumer
    <2>2. sub' = [sub EXCEPT ![s] = [sub[s] EXCEPT !.msg = "running", !.taken = @ + 1]]
        BY <1>6 DEF Take, TypeOK, Consumer
    <2> QED
        BY <1>6, <1>3, <2>1, <2>2 DEF Take, TypeOK
  <1>7. ASSUME NEW s \in Subscriptions, HandleStep(s) PROVE TypeOK'
    <2>1. \A m \in {"none", "deadLetter"} : [sub[s] EXCEPT !.msg = m] \in Consumer
        BY DEF TypeOK, Consumer
    <2>2. sub[s].taken \in 0..MaxMessages
        BY DEF TypeOK, Consumer
    <2>3. sub' \in [Subscriptions -> Consumer]
        BY <1>7, <1>3, <2>1 DEF HandleStep, RunProcessor, PublishToDlq
    <2> QED
        BY <1>7, <2>2, <2>3 DEF HandleStep, RunProcessor, PublishToDlq, Fault, TypeOK
  <1>8. ASSUME NEW s \in Subscriptions, CloseConsumer(s) PROVE TypeOK'
    <2>1. [sub[s] EXCEPT !.open = FALSE] \in Consumer
        BY DEF TypeOK, Consumer
    <2>2. sub' \in [Subscriptions -> Consumer]
        BY <1>8, <2>1 DEF CloseConsumer, TypeOK
    <2> QED
        BY <1>8, <2>2 DEF CloseConsumer, Fault, TypeOK, ServicePC
  <1> QED
      BY <1>1, <1>2, <1>4, <1>5, <1>6, <1>7, <1>8 DEF Next

(* What the awaits of connect() and disconnect() do to the parts.           *)
LEMMA StepOpened ==
  ASSUME TypeOK, Opened, Fetching, [Next]_vars
  PROVE  Opened'
  <1>1. CASE UNCHANGED vars
      BY <1>1 DEF vars, Opened
  <1>2. CASE ServiceStep \/ Shutdown
    <2>1. \A s \in Subscriptions : sub'[s].pc = sub[s].pc
      <3>1. CASE DisconnectConsumers
          BY <3>1 DEF DisconnectConsumers, TypeOK, Consumer
      <3>2. CASE ~DisconnectConsumers
          BY <1>2, <3>2 DEF ServiceStep, Shutdown, ConnectAdmin, ConnectProducer,
             DisconnectAdmin, DisconnectProducer, Disconnected
      <3> QED
          BY <3>1, <3>2
    <2> QED
        BY <1>2, <2>1 DEF ServiceStep, Shutdown, ConnectAdmin, ConnectProducer, DisconnectAdmin,
           DisconnectProducer, DisconnectConsumers, Disconnected, Await, Succeeds,
           Opened, Connecting, Closing
  <1>3. ASSUME NEW s \in Subscriptions,
               Subscribe(s) \/ SubscribeStep(s) \/ Take(s) \/ HandleStep(s) \/ CloseConsumer(s)
        PROVE  Opened'
    <2>1. service \notin Connecting
        BY <1>3 DEF Subscribe, SubscribeStep, Connect, SubscribeTopics, Run, Push, Consume, At,
           Take, HandleStep, RunProcessor, PublishToDlq, CloseConsumer, Opened, Fetching,
           Connecting, TypeOK, Consumer
    <2>2. producer' = producer /\ service' \in {service, "stopFailed"}
        BY <1>3 DEF Subscribe, SubscribeStep, Connect, SubscribeTopics, Run, Push, Consume,
           Take, HandleStep, RunProcessor, PublishToDlq, CloseConsumer
    <2> QED
        BY <2>1, <2>2 DEF Opened, Connecting, Closing
  <1> QED
      BY <1>1, <1>2, <1>3 DEF Next

(* Only consume() and disconnect() touch what Fetching and Drained are      *)
(* about, each in the order the invariants need.                            *)
LEMMA StepDrained ==
  ASSUME TypeOK, Fetching, Drained, [Next]_vars
  PROVE  Fetching' /\ Drained'
  <1> USE DEF Fetching, Drained
  <1>1. CASE UNCHANGED vars
      BY <1>1 DEF vars
  <1>2. CASE DisconnectConsumers
      BY <1>2 DEF DisconnectConsumers, Stopping, TypeOK, Consumer
  <1>3. CASE Disconnected
      BY <1>3 DEF Disconnected, Stopping, TypeOK
  <1>4. CASE (ServiceStep \/ Shutdown) /\ ~DisconnectConsumers /\ ~Disconnected
    <2>1. UNCHANGED <<sub, consumers, stopping>>
        BY <1>4 DEF ServiceStep, Shutdown, ConnectAdmin, ConnectProducer, DisconnectAdmin,
           DisconnectProducer
    <2>2. service' # "down" /\ service \notin Stopping
        BY <1>4 DEF ServiceStep, Shutdown, ConnectAdmin, ConnectProducer, DisconnectAdmin,
           DisconnectProducer, Await, Stopping
    <2> QED
        BY <2>1, <2>2
  <1>5. ASSUME NEW s \in Subscriptions, Subscribe(s) PROVE Fetching' /\ Drained'
      BY <1>5 DEF Subscribe, At, TypeOK, Consumer
  <1>6. ASSUME NEW s \in Subscriptions, SubscribeStep(s) PROVE Fetching' /\ Drained'
    <2>1. s \notin stopping
        BY <1>6 DEF SubscribeStep, Connect, SubscribeTopics, Run, Push, Consume, At, TypeOK
    <2>2. CASE sub' = [sub EXCEPT ![s].pc = "rejected"] /\ UNCHANGED <<service, consumers, stopping>>
        BY <2>1, <2>2, <1>6 DEF SubscribeStep, Connect, SubscribeTopics, Run, Push, Consume, At,
           TypeOK, Consumer
    <2>3. CASE Connect(s)
      <3> DEFINE c == [sub[s] EXCEPT !.pc = "subscribeTopics", !.open = TRUE]
      <3>1. CASE sub' = [sub EXCEPT ![s] = c] /\ UNCHANGED <<service, consumers, stopping>>
        <4>1. /\ c.pc = "subscribeTopics" /\ c.open
              /\ c.fetching = sub[s].fetching /\ c.msg = sub[s].msg
            BY DEF TypeOK, Consumer
        <4>2. ~sub[s].fetching /\ s \notin consumers
            BY <2>3 DEF Connect, Consume, At
        <4>3. sub'[s] = c /\ \A t \in Subscriptions \ {s} : sub'[t] = sub[t]
            BY <3>1 DEF TypeOK
        <4> HIDE DEF c
        <4> QED
            BY <3>1, <4>1, <4>2, <4>3, <2>1 DEF TypeOK
      <3> QED
          BY <2>3, <2>2, <3>1 DEF Connect, Consume
    <2>4. CASE SubscribeTopics(s)
        BY <2>1, <2>4, <2>2 DEF SubscribeTopics, Consume, At, TypeOK, Consumer
    <2>5. CASE Run(s)
      <3> DEFINE c == [sub[s] EXCEPT !.pc = "push", !.fetching = TRUE]
      <3>1. CASE sub' = [sub EXCEPT ![s] = c] /\ UNCHANGED <<service, consumers, stopping>>
        <4>1. c.pc = "push" /\ c.fetching /\ c.open = sub[s].open /\ c.msg = sub[s].msg
            BY DEF TypeOK, Consumer
        <4>2. s \notin consumers
            BY <2>5 DEF Run, Consume, At
        <4>3. sub[s].pc = "run"
            BY <2>5 DEF Run, Consume, At
        <4>4. sub[s].open
            BY <4>3
        <4>5. sub'[s] = c /\ \A t \in Subscriptions \ {s} : sub'[t] = sub[t]
            BY <3>1 DEF TypeOK
        <4> HIDE DEF c
        <4> QED
            BY <3>1, <4>1, <4>2, <4>5, <4>4, <2>1 DEF TypeOK
      <3> QED
          BY <2>5, <2>2, <3>1 DEF Run, Consume
    <2>6. CASE Push(s)
        BY <2>1, <2>6 DEF Push, At, TypeOK, Consumer
    <2> QED
        BY <1>6, <2>3, <2>4, <2>5, <2>6 DEF SubscribeStep
  <1>7. ASSUME NEW s \in Subscriptions, Take(s) PROVE Fetching' /\ Drained'
      BY <1>7 DEF Take, TypeOK, Consumer
  <1>8. ASSUME NEW s \in Subscriptions, HandleStep(s) PROVE Fetching' /\ Drained'
    <2>1. CASE RunProcessor(s)
        BY <2>1 DEF RunProcessor, TypeOK, Consumer
    <2>2. CASE PublishToDlq(s)
        BY <2>2 DEF PublishToDlq, TypeOK, Consumer
    <2> QED
        BY <1>8, <2>1, <2>2 DEF HandleStep
  <1>9. ASSUME NEW s \in Subscriptions, CloseConsumer(s) PROVE Fetching' /\ Drained'
      BY <1>9 DEF CloseConsumer, Stopping, TypeOK, Consumer
  <1> QED
      BY <1>1, <1>2, <1>3, <1>4, <1>5, <1>6, <1>7, <1>8, <1>9 DEF Next

-------------------------------------------------------------------------------
LEMMA Invariance == Spec => []Inv
  <1>1. Inv /\ [Next]_vars => Inv'
      BY StepTypes, StepOpened, StepDrained DEF Inv
  <1> QED
      BY InitInv, <1>1, PTL DEF Spec

(* The types of all variables (kafka-service.ts).                           *)
THEOREM TypeCorrect == Spec => []TypeOK
  <1>1. Inv => TypeOK
      BY DEF Inv
  <1> QED
      BY Invariance, <1>1, PTL

(* disconnect() (kafka-service.ts:84-96) resolves only when every consumer  *)
(* it stopped has finished its message, takes no other, and has closed.     *)
THEOREM Drains == Spec => []DisconnectDrains
  <1>1. Inv => DisconnectDrains
      BY DEF Inv, TypeOK, Fetching, Drained, DisconnectDrains
  <1> QED
      BY Invariance, <1>1, PTL

(* A consumer never runs before connect() (kafka-service.ts:71-82) resolved *)
(* with a producer for its dead letters.                                    *)
THEOREM FailingHasProducer == Spec => []FailingMessageHasProducer
  <1>1. Inv => FailingMessageHasProducer
      BY DEF Inv, TypeOK, Opened, Fetching, Connecting, Closing, FailingMessageHasProducer
  <1> QED
      BY Invariance, <1>1, PTL

-------------------------------------------------------------------------------
(* QueueProvider *)

(* The service that is not configured keeps its first state.                *)
KafkaUnused ==
    /\ admin = FALSE /\ producer = FALSE /\ abandoned = {}
    /\ sub = [s \in Subscriptions |-> [pc |-> "none", open |-> FALSE, fetching |-> FALSE,
                                       msg |-> "none", taken |-> 0]]
AsbUnused == \A m \in Messages : queue[m].state = "absent"

(* A message of ASB and the last call about it: it is not there before it   *)
(* was sent, was never delivered before it is queued, and is queued only    *)
(* as long as it may be delivered again; and a call that resolved was true  *)
(* then and stays so.                                                       *)
Sent(m) ==
    /\ queue[m].state \in {"absent", "scheduled", "cancelled"} => queue[m].deliveries = 0
    /\ queue[m].state = "queued" => queue[m].deliveries < MaxDeliveries
    /\ queue[m].state = "completed" => m \in processed
    /\ call[m].op = "none" => call[m].time = "none" /\ call[m].pc = "idle"
    /\ call[m].op = "none" \/ (call[m].op = "publish" /\ call[m].pc = "send")
          => queue[m].state = "absent"
    /\ call[m].pc \in {"idle", "send"} => call[m].outcome = "none"
    /\ call[m].time = "missing" =>
          queue[m].state = "absent" /\ call[m].op = "publish" /\ call[m].outcome # "resolved"
    /\ call[m].outcome = "resolved" =>
          IF call[m].op = "cancel" THEN queue[m].state = "cancelled" ELSE queue[m].state # "absent"
    /\ call[m].pc = "returned" => call[m].link # "open"

(* A receiver and its processor: which call settles the message, and that   *)
(* what it did, once it has resolved, is final.                             *)
Settling(r) ==
    LET c == receiver[r]
    IN  /\ c.pc \in {"idle", "process", "settle"} => c.outcome = "none"
        /\ c.pc \in {"idle", "process"} => c.op = "none" /\ c.link = "none"
        /\ c.pc = "settle" => c.op # "none"
        /\ c.op = "complete" \/ c.pc = "resolved" => c.msg \in processed
        /\ c.op = "none" => c.outcome = "none"
        /\ c.outcome = "resolved" /\ c.op = "complete" => queue[c.msg].state = "completed"
        /\ c.outcome = "resolved" /\ c.op = "deadLetter" => queue[c.msg].state = "deadLettered"
        /\ c.pc \in {"settled", "resolved", "rejected"} => c.link # "open"

Closed == service = "down" => \A r \in stopping : receiver[r].open = "closed"

AsbInv ==
    /\ ASB!AsbTypeOK
    /\ \A m \in Messages : Sent(m)
    /\ \A r \in Subscriptions : Settling(r)
    /\ Closed

ProviderInv ==
    /\ type \in SupportedQueues \cup {"other"}
    /\ type # AzureServiceBus => Inv /\ AsbUnused
    /\ type = AzureServiceBus => KafkaUnused /\ AsbInv

AsbStep ==
    \/ ASB!Disconnect \/ ASB!BusStep \/ ASB!DisconnectStep
    \/ \E r \in Subscriptions :
          ASB!Subscribe(r) \/ ASB!DeleteMessage(r) \/ ASB!AbandonMessage(r)
          \/ ASB!DeadLetterMessage(r) \/ ASB!HandlerStep(r)
    \/ \E m \in Messages :
          ASB!Publish(m) \/ ASB!CancelScheduledMessage(m) \/ ASB!ProducerStep(m)

-------------------------------------------------------------------------------
(* The first state of either service, and of a type that is not supported.  *)
LEMMA InitProviderInv == ProviderInit => ProviderInv
  <1> SUFFICES ASSUME ProviderInit PROVE ProviderInv
      OBVIOUS
  <1>1. type \in SupportedQueues \cup {"other"}
      BY DEF ProviderInit
  <1>2. service \in {"connectAdmin", "up", "failed"} /\ (service = "up" => type = AzureServiceBus)
      BY DEF ProviderInit, GetInstance, SupportedQueues, KAFKA, AzureServiceBus
  <1>3. type # AzureServiceBus => Inv
    <2> SUFFICES ASSUME type # AzureServiceBus PROVE Inv
        OBVIOUS
    <2>1. \A s \in Subscriptions : sub[s] = [pc |-> "none", open |-> FALSE, fetching |-> FALSE,
                                             msg |-> "none", taken |-> 0]
        BY DEF ProviderInit
    <2>2. sub \in [Subscriptions -> Consumer]
        BY ServiceAssumption DEF ProviderInit, Consumer
    <2>3. admin \in BOOLEAN /\ producer \in BOOLEAN
        BY DEF ProviderInit
    <2>4. TypeOK
        BY <1>2, <2>2, <2>3, ServiceAssumption DEF ProviderInit, TypeOK, ServicePC
    <2>5. Opened /\ Fetching /\ Drained
        BY <1>2, <2>1 DEF ProviderInit, Opened, Fetching, Drained, Connecting, Closing
    <2> QED
        BY <2>4, <2>5 DEF Inv
  <1>4. type = AzureServiceBus => KafkaUnused /\ AsbInv
    <2> SUFFICES ASSUME type = AzureServiceBus PROVE KafkaUnused /\ AsbInv
        OBVIOUS
    <2>1. service \in {"up", "failed"}
        BY DEF ProviderInit, GetInstance, KAFKA, AzureServiceBus
    <2>2. queue \in [Messages -> ASB!Entry]
        BY AsbAssumption DEF ProviderInit, ASB!Entry
    <2>3. call \in [Messages -> ASB!Call]
        BY DEF ProviderInit, ASB!Call, ASB!NoCall, ASB!Outcome, ASB!Link
    <2>4. receiver \in [Subscriptions -> ASB!Receiver]
        BY AsbAssumption DEF ProviderInit, ASB!Receiver, ASB!Idle, ASB!Outcome, ASB!Link
    <2>5. ASB!AsbTypeOK
      <3>1. faults \in 0..MaxFaults
          BY ServiceAssumption DEF ProviderInit
      <3>2. \A r \in Subscriptions : receiver[r].pc = "idle" /\ receiver[r].msg = NoMessage
          BY DEF ProviderInit, ASB!Idle
      <3>3. stopping = {} /\ consumers = {} /\ processed = {}
          BY DEF ProviderInit
      <3> QED
          BY <2>1, <2>2, <2>3, <2>4, <3>1, <3>2, <3>3 DEF ASB!AsbTypeOK
    <2>6. ASSUME NEW m \in Messages PROVE Sent(m)
        BY AsbAssumption DEF ProviderInit, Sent, ASB!NoCall
    <2>7. ASSUME NEW r \in Subscriptions PROVE Settling(r)
        BY DEF ProviderInit, Settling, ASB!Idle
    <2>8. KafkaUnused /\ Closed
        BY <2>1 DEF ProviderInit, KafkaUnused, Closed
    <2> QED
        BY <2>5, <2>6, <2>7, <2>8 DEF AsbInv
  <1>5. AsbUnused
      BY DEF ProviderInit, AsbUnused
  <1> QED
      BY <1>1, <1>3, <1>4, <1>5 DEF ProviderInv

(* A step of the provider is one of the service that is configured.         *)
LEMMA EitherSteps ==
  ASSUME [ProviderNext]_allVars
  PROVE  /\ type' = type
         /\ type = KAFKA => [Next]_vars
         /\ type # AzureServiceBus => UNCHANGED asbVars
         /\ type = AzureServiceBus =>
               UNCHANGED kafkaVars /\ (AsbStep \/ UNCHANGED <<service, consumers, stopping, faults, asbVars>>)
         /\ type \notin SupportedQueues => UNCHANGED vars
  <1>1. CASE UNCHANGED allVars
      BY <1>1 DEF allVars, vars, kafkaVars
  <1>2. CASE ProviderNext
    <2>1. CASE type = KAFKA
      <3>1. Next /\ UNCHANGED <<type, asbVars>>
          BY <1>2, <2>1 DEF ProviderNext, OnApplicationShutdown, OfKafka, OfAsb, Next,
             KAFKA, AzureServiceBus
      <3> QED
          BY <2>1, <3>1 DEF KAFKA, AzureServiceBus, SupportedQueues
    <2>2. CASE type = AzureServiceBus
      <3>1. AsbStep /\ UNCHANGED <<type, kafkaVars>>
          BY <1>2, <2>2 DEF ProviderNext, OnApplicationShutdown, OfKafka, OfAsb, AsbStep,
             KAFKA, AzureServiceBus
      <3> QED
          BY <2>2, <3>1 DEF KAFKA, AzureServiceBus, SupportedQueues
    <2> QED
        BY <1>2, <2>1, <2>2 DEF ProviderNext, OnApplicationShutdown, OfKafka, OfAsb
  <1> QED
      BY <1>1, <1>2

-------------------------------------------------------------------------------
(* The types of ASBService *)

(* What the service bus makes of an entry is an entry, and one that is      *)
(* queued again may be delivered again.                                     *)
LEMMA EntryTypes ==
  ASSUME NEW e \in ASB!Entry
  PROVE  /\ ASB!Released(e) \in ASB!Entry
         /\ \A op \in {"complete", "abandon", "deadLetter"} : ASB!SettledBy(op, e) \in ASB!Entry
         /\ \A st \in {"absent", "scheduled", "queued", "locked", "cancelled"} :
               [e EXCEPT !.state = st] \in ASB!Entry
  BY DEF ASB!Entry, ASB!Released, ASB!SettledBy

LEMMA CallTypes ==
  ASSUME ASB!AsbTypeOK,
         NEW m \in Messages,
         ASB!Publish(m) \/ ASB!CancelScheduledMessage(m) \/ ASB!ProducerStep(m)
  PROVE  ASB!AsbTypeOK'
  <1> USE DEF ASB!Call, ASB!Link, ASB!Outcome
  <1>1. queue[m] \in ASB!Entry /\ call[m] \in ASB!Call
      BY DEF ASB!AsbTypeOK
  <1>2. call' \in [Messages -> ASB!Call]
    <2>1. ASSUME NEW outcome \in {"resolved", "rejected"}, ASB!Answered(m, outcome)
          PROVE  call' \in [Messages -> ASB!Call]
      <3>1. call' = [call EXCEPT ![m] = [@ EXCEPT !.outcome = outcome, !.pc = "close"]]
          BY <1>1, <2>1 DEF ASB!Answered, ASB!AsbTypeOK
      <3> QED
          BY <1>1, <3>1 DEF ASB!AsbTypeOK
    <2>2. CASE ASB!Publish(m)
        BY <2>2 DEF ASB!Publish, ASB!AsbTypeOK
    <2>3. CASE ASB!CancelScheduledMessage(m)
        BY <1>1, <2>3 DEF ASB!CancelScheduledMessage, ASB!AsbTypeOK
    <2>4. CASE ASB!SendMessage(m) \/ ASB!CancelSend(m)
        BY <2>1, <2>4 DEF ASB!SendMessage, ASB!CancelSend
    <2>5. CASE ASB!CloseSender(m)
      <3>1. call' = [call EXCEPT ![m] = [@ EXCEPT !.pc = "returned", !.link = "closed"]]
          BY <1>1, <2>5 DEF ASB!CloseSender, ASB!AsbTypeOK
      <3> QED
          BY <1>1, <3>1 DEF ASB!AsbTypeOK
    <2> QED
        BY <2>2, <2>3, <2>4, <2>5 DEF ASB!ProducerStep
  <1>3. queue' \in [Messages -> ASB!Entry]
    <2>1. ASSUME NEW st \in {"scheduled", "queued", "cancelled"},
                 queue' = [queue EXCEPT ![m].state = st]
          PROVE  queue' \in [Messages -> ASB!Entry]
        BY <1>1, <2>1, EntryTypes DEF ASB!AsbTypeOK
    <2> QED
        BY <2>1 DEF ASB!Publish, ASB!CancelScheduledMessage, ASB!ProducerStep, ASB!SendMessage,
           ASB!CancelSend, ASB!CloseSender, ASB!AsbTypeOK
  <1>4. UNCHANGED <<receiver, service, consumers, stopping, processed>>
      BY DEF ASB!Publish, ASB!CancelScheduledMessage, ASB!ProducerStep, ASB!SendMessage,
         ASB!CancelSend, ASB!CloseSender, ASB!connections
  <1>5. faults' \in 0..MaxFaults
      BY ServiceAssumption DEF ASB!Publish, ASB!CancelScheduledMessage, ASB!ProducerStep,
         ASB!SendMessage, ASB!CancelSend, ASB!CloseSender, ASB!Fault, ASB!AsbTypeOK
  <1> QED
      BY <1>2, <1>3, <1>4, <1>5 DEF ASB!AsbTypeOK

(* A step of the service bus.                                               *)
LEMMA BusTypes ==
  ASSUME ASB!AsbTypeOK, \A m \in Messages : Sent(m), ASB!BusStep
  PROVE  ASB!AsbTypeOK'
  <1>1. ASSUME NEW m \in Messages, ASB!EnqueueScheduled(m) \/ ASB!LockExpires(m)
        PROVE  ASB!AsbTypeOK'
    <2>1. queue[m] \in ASB!Entry
        BY DEF ASB!AsbTypeOK
    <2>2. queue' \in [Messages -> ASB!Entry]
      <3>1. CASE ASB!EnqueueScheduled(m)
          BY <2>1, <3>1, EntryTypes DEF ASB!EnqueueScheduled, ASB!AsbTypeOK
      <3>2. CASE ASB!LockExpires(m)
          BY <2>1, <3>2, EntryTypes DEF ASB!LockExpires, ASB!AsbTypeOK
      <3> QED
          BY <1>1, <3>1, <3>2
    <2>3. faults' \in 0..MaxFaults
        BY <1>1, ServiceAssumption DEF ASB!EnqueueScheduled, ASB!LockExpires, ASB!Fault,
           ASB!AsbTypeOK
    <2> QED
        BY <1>1, <2>2, <2>3 DEF ASB!EnqueueScheduled, ASB!LockExpires, ASB!connections, ASB!AsbTypeOK
  <1>2. ASSUME NEW m \in Messages, NEW r \in Subscriptions, ASB!Deliver(r, m)
        PROVE  ASB!AsbTypeOK'
    <2>1. queue[m] \in ASB!Entry /\ receiver[r] \in ASB!Receiver
        BY DEF ASB!AsbTypeOK
    <2>2. queue[m].deliveries + 1 \in 0..MaxDeliveries
        BY <1>2, <2>1, AsbAssumption DEF ASB!Deliver, Sent, ASB!Entry
    <2>3. queue' \in [Messages -> ASB!Entry]
      <3> DEFINE e == [queue[m] EXCEPT !.state = "locked", !.deliveries = @ + 1]
      <3>1. e \in ASB!Entry
          BY <2>1, <2>2 DEF ASB!Entry
      <3>2. queue' = [queue EXCEPT ![m] = e]
          BY <1>2, <2>1 DEF ASB!Deliver, ASB!AsbTypeOK, ASB!Entry
      <3> QED
          BY <3>1, <3>2 DEF ASB!AsbTypeOK
    <2>4. receiver' \in [Subscriptions -> ASB!Receiver]
      <3> DEFINE c == [receiver[r] EXCEPT !.msg = m, !.pc = "process", !.lock = queue[m].deliveries + 1]
      <3>1. c \in ASB!Receiver
          BY <2>1, <2>2 DEF ASB!Receiver
      <3>2. receiver' = [receiver EXCEPT ![r] = c]
          BY <1>2 DEF ASB!Deliver
      <3> QED
          BY <3>1, <3>2 DEF ASB!AsbTypeOK
    <2>5. \A q \in Subscriptions : receiver'[q].pc = "idle" <=> receiver'[q].msg = NoMessage
        BY <1>2, <2>1, AsbAssumption DEF ASB!Deliver, ASB!AsbTypeOK, ASB!Receiver
    <2> QED
        BY <1>2, <2>3, <2>4, <2>5 DEF ASB!Deliver, ASB!connections, ASB!AsbTypeOK
  <1> QED
      BY <1>1, <1>2 DEF ASB!BusStep

(* A step of a receiver, or of the processor it runs.                       *)
LEMMA ReceiverTypes ==
  ASSUME ASB!AsbTypeOK, \A q \in Subscriptions : Settling(q),
         NEW r \in Subscriptions,
         \/ ASB!Subscribe(r) \/ ASB!DeleteMessage(r) \/ ASB!AbandonMessage(r)
         \/ ASB!DeadLetterMessage(r) \/ ASB!HandlerStep(r)
  PROVE  ASB!AsbTypeOK'
  <1> USE DEF ASB!Link, ASB!Outcome
  <1> DEFINE c == receiver[r]
  <1>1. c \in ASB!Receiver
      BY DEF ASB!AsbTypeOK
  <1>2. ASSUME NEW d \in ASB!Receiver, receiver' = [receiver EXCEPT ![r] = d],
               d.pc = "idle" <=> d.msg = NoMessage
        PROVE  /\ receiver' \in [Subscriptions -> ASB!Receiver]
               /\ \A q \in Subscriptions : receiver'[q].pc = "idle" <=> receiver'[q].msg = NoMessage
      BY <1>2 DEF ASB!AsbTypeOK
  <1>3. /\ receiver' \in [Subscriptions -> ASB!Receiver]
        /\ \A q \in Subscriptions : receiver'[q].pc = "idle" <=> receiver'[q].msg = NoMessage
    <2>1. c.pc # "idle" => c.msg # NoMessage
        BY DEF ASB!AsbTypeOK
    <2>2. CASE ASB!Subscribe(r)
      <3>1. receiver' = [receiver EXCEPT ![r] = [c EXCEPT !.open = "yes"]]
          BY <2>2 DEF ASB!Subscribe
      <3>2. [c EXCEPT !.open = "yes"] \in ASB!Receiver
          BY <1>1 DEF ASB!Receiver
      <3>3. c.pc = "idle" <=> c.msg = NoMessage
          BY DEF ASB!AsbTypeOK
      <3> QED
          BY <1>1, <1>2, <3>1, <3>2, <3>3 DEF ASB!Receiver
    <2>3. ASSUME NEW op \in {"complete", "abandon", "deadLetter"}, ASB!CallSettle(r, op)
          PROVE  /\ receiver' \in [Subscriptions -> ASB!Receiver]
                 /\ \A q \in Subscriptions : receiver'[q].pc = "idle" <=> receiver'[q].msg = NoMessage
      <3> DEFINE d == [c EXCEPT !.pc = "settle", !.op = op, !.link = "open"]
      <3>1. d \in ASB!Receiver /\ d.pc # "idle" /\ d.msg = c.msg
          BY <1>1 DEF ASB!Receiver
      <3>2. receiver' = [receiver EXCEPT ![r] = d] /\ c.pc = "process"
          BY <2>3 DEF ASB!CallSettle
      <3> QED
          BY <1>2, <2>1, <3>1, <3>2
    <2>4. CASE ASB!ProcessMessage(r)
      <3>1. PICK pc \in {"resolved", "rejected"} : receiver' = [receiver EXCEPT ![r] = [c EXCEPT !.pc = pc]]
          BY <2>4 DEF ASB!ProcessMessage
      <3>2. [c EXCEPT !.pc = pc] \in ASB!Receiver
          BY <1>1 DEF ASB!Receiver
      <3>3. c.pc # "idle"
          BY <2>4 DEF ASB!ProcessMessage
      <3> QED
          BY <1>1, <1>2, <2>1, <3>1, <3>2, <3>3 DEF ASB!Receiver
    <2>5. CASE ASB!Settle(r)
      <3>1. PICK outcome \in {"resolved", "rejected"} : ASB!SettleAnswered(r, outcome)
          BY <2>5 DEF ASB!Settle
      <3> DEFINE d == [c EXCEPT !.pc = "close", !.outcome = outcome]
      <3>2. receiver' = [receiver EXCEPT ![r] = d]
        <4>1. receiver' = [receiver EXCEPT ![r].pc = "close", ![r].outcome = outcome]
            BY <3>1 DEF ASB!SettleAnswered
        <4>2. receiver \in [Subscriptions -> ASB!Receiver]
            BY DEF ASB!AsbTypeOK
        <4> QED
            BY <4>1, <4>2
      <3>3. d \in ASB!Receiver /\ d.pc # "idle" /\ d.msg = c.msg
          BY <1>1 DEF ASB!Receiver
      <3>4. c.pc # "idle"
          BY <2>5 DEF ASB!Settle
      <3> QED
          BY <1>2, <2>1, <3>2, <3>3, <3>4
    <2>6. CASE ASB!CloseSettler(r)
      <3> DEFINE d == [c EXCEPT !.pc = "settled", !.link = "closed"]
      <3>1. receiver' = [receiver EXCEPT ![r] = d]
        <4>1. receiver' = [receiver EXCEPT ![r].pc = "settled", ![r].link = "closed"]
            BY <2>6 DEF ASB!CloseSettler
        <4>2. receiver \in [Subscriptions -> ASB!Receiver]
            BY DEF ASB!AsbTypeOK
        <4> QED
            BY <4>1, <4>2
      <3>2. d \in ASB!Receiver /\ d.pc # "idle" /\ d.msg = c.msg
          BY <1>1 DEF ASB!Receiver
      <3>3. c.pc # "idle"
          BY <2>6 DEF ASB!CloseSettler
      <3> QED
          BY <1>2, <2>1, <3>1, <3>2, <3>3
    <2>7. CASE ASB!AutoSettle(r)
      <3> DEFINE d == [ASB!Idle EXCEPT !.open = c.open]
      <3>1. receiver' = [receiver EXCEPT ![r] = d]
          BY <2>7 DEF ASB!AutoSettle
      <3>2. d \in ASB!Receiver /\ d.pc = "idle" /\ d.msg = NoMessage
          BY <1>1, AsbAssumption DEF ASB!Receiver, ASB!Idle
      <3> QED
          BY <1>2, <3>1, <3>2
    <2> QED
        BY <2>2, <2>3, <2>4, <2>5, <2>6, <2>7 DEF ASB!DeleteMessage, ASB!AbandonMessage,
           ASB!DeadLetterMessage, ASB!HandlerStep
  <1>4. queue' \in [Messages -> ASB!Entry]
    <2>1. ASSUME c.msg \in Messages, NEW op \in {"complete", "abandon", "deadLetter"},
                 queue' = [queue EXCEPT ![c.msg] = ASB!SettledBy(op, @)]
          PROVE  queue' \in [Messages -> ASB!Entry]
      <3>1. ASB!SettledBy(op, queue[c.msg]) \in ASB!Entry
          BY <2>1, EntryTypes DEF ASB!AsbTypeOK
      <3> QED
          BY <2>1, <3>1 DEF ASB!AsbTypeOK
    <2>2. CASE ASB!Settle(r)
      <3>1. c.msg \in Messages /\ c.op \in {"complete", "abandon", "deadLetter"}
          BY <1>1, <2>2 DEF ASB!Settle, ASB!AsbTypeOK, ASB!Receiver, Settling
      <3> QED
          BY <2>1, <2>2, <3>1 DEF ASB!Settle, ASB!AsbTypeOK
    <2>3. CASE ASB!AutoSettle(r)
      <3>1. c.msg \in Messages
          BY <1>1, <2>3 DEF ASB!AutoSettle, ASB!AsbTypeOK, ASB!Receiver
      <3> QED
          BY <2>1, <2>3, <3>1 DEF ASB!AutoSettle, ASB!AsbTypeOK
    <2>4. CASE ~ASB!Settle(r) /\ ~ASB!AutoSettle(r)
        BY <2>4 DEF ASB!Subscribe, ASB!DeleteMessage, ASB!AbandonMessage, ASB!DeadLetterMessage,
           ASB!CallSettle, ASB!HandlerStep, ASB!ProcessMessage, ASB!CloseSettler, ASB!AsbTypeOK
    <2> QED
        BY <2>2, <2>3, <2>4
  <1>5. processed' \subseteq Messages
    <2>1. CASE ASB!ProcessMessage(r)
      <3>1. c.msg \in Messages
          BY <1>1, <2>1 DEF ASB!ProcessMessage, ASB!AsbTypeOK, ASB!Receiver
      <3> QED
          BY <2>1, <3>1 DEF ASB!ProcessMessage, ASB!AsbTypeOK
    <2>2. ASSUME NEW op, ASB!CallSettle(r, op) PROVE processed' \subseteq Messages
      <3>1. c.msg \in Messages
          BY <1>1, <2>2 DEF ASB!CallSettle, ASB!AsbTypeOK, ASB!Receiver
      <3> QED
          BY <2>2, <3>1 DEF ASB!CallSettle, ASB!AsbTypeOK
    <2> QED
        BY <2>1, <2>2 DEF ASB!Subscribe, ASB!DeleteMessage, ASB!AbandonMessage,
           ASB!DeadLetterMessage, ASB!HandlerStep, ASB!Settle, ASB!CloseSettler, ASB!AutoSettle,
           ASB!AsbTypeOK
  <1>6. faults' \in 0..MaxFaults
      BY ServiceAssumption DEF ASB!Subscribe, ASB!DeleteMessage, ASB!AbandonMessage,
         ASB!DeadLetterMessage, ASB!CallSettle, ASB!HandlerStep, ASB!ProcessMessage, ASB!Settle,
         ASB!CloseSettler, ASB!AutoSettle, ASB!Fault, ASB!AsbTypeOK
  <1>7. /\ service' = service /\ stopping' = stopping /\ call' = call
        /\ consumers' \in {consumers, consumers \cup {r}}
      BY DEF ASB!Subscribe, ASB!DeleteMessage, ASB!AbandonMessage, ASB!DeadLetterMessage,
         ASB!CallSettle, ASB!HandlerStep, ASB!ProcessMessage, ASB!Settle, ASB!CloseSettler,
         ASB!AutoSettle, ASB!connections
  <1> QED
      BY <1>3, <1>4, <1>5, <1>6, <1>7 DEF ASB!AsbTypeOK

(* A step of disconnect().                                                  *)
LEMMA DisconnectTypes ==
  ASSUME ASB!AsbTypeOK, ASB!Disconnect \/ ASB!DisconnectStep
  PROVE  ASB!AsbTypeOK'
  <1>1. CASE ASB!Disconnect \/ ASB!Disconnected
      BY <1>1 DEF ASB!Disconnect, ASB!Disconnected, ASB!AsbTypeOK
  <1>2. ASSUME NEW r \in Subscriptions, ASB!CloseReceiver(r) PROVE ASB!AsbTypeOK'
    <2>1. receiver[r] \in ASB!Receiver
        BY DEF ASB!AsbTypeOK
    <2>2. [receiver[r] EXCEPT !.open = "closed"] \in ASB!Receiver
        BY <2>1 DEF ASB!Receiver
    <2>3. receiver' \in {receiver, [receiver EXCEPT ![r] = [receiver[r] EXCEPT !.open = "closed"]]}
        BY <1>2 DEF ASB!CloseReceiver
    <2>4. /\ receiver' \in [Subscriptions -> ASB!Receiver]
          /\ \A q \in Subscriptions : receiver'[q].pc = "idle" <=> receiver'[q].msg = NoMessage
        BY <2>1, <2>2, <2>3 DEF ASB!AsbTypeOK, ASB!Receiver
    <2>5. faults' \in 0..MaxFaults
        BY <1>2, ServiceAssumption DEF ASB!CloseReceiver, ASB!Fault, ASB!AsbTypeOK
    <2> QED
        BY <1>2, <2>4, <2>5 DEF ASB!CloseReceiver, ASB!AsbTypeOK
  <1> QED
      BY <1>1, <1>2 DEF ASB!DisconnectStep

-------------------------------------------------------------------------------
(* The producer *)

(* A call moves its own message only, and out of no final state.            *)
LEMMA StepCall ==
  ASSUME AsbInv,
         NEW m \in Messages,
         ASB!Publish(m) \/ ASB!CancelScheduledMessage(m) \/ ASB!ProducerStep(m)
  PROVE  /\ \A n \in Messages : Sent(n)'
         /\ \A r \in Subscriptions : Settling(r)'
  <1> USE DEF AsbInv
  <1>1. queue[m] \in ASB!Entry /\ call[m] \in ASB!Call /\ Sent(m)
      BY DEF ASB!AsbTypeOK
  <1>2. UNCHANGED <<receiver, processed>>
      BY DEF ASB!Publish, ASB!CancelScheduledMessage, ASB!ProducerStep, ASB!SendMessage,
         ASB!CancelSend, ASB!CloseSender
  <1>3. \A n \in Messages \ {m} : queue'[n] = queue[n] /\ call'[n] = call[n]
      BY DEF ASB!Publish, ASB!CancelScheduledMessage, ASB!ProducerStep, ASB!SendMessage,
         ASB!CancelSend, ASB!CloseSender, ASB!Answered, ASB!AsbTypeOK
  <1>4. Sent(m)'
    <2>1. CASE ASB!Publish(m)
        BY <1>1, <2>1 DEF ASB!Publish, ASB!AsbTypeOK, Sent
    <2>2. CASE ASB!SendMessage(m)
        BY <1>1, <2>2, AsbAssumption DEF ASB!SendMessage, ASB!Answered, ASB!AsbTypeOK, ASB!Entry,
           ASB!Call, Sent
    <2>3. CASE ASB!CancelScheduledMessage(m)
        BY <1>1, <2>3 DEF ASB!CancelScheduledMessage, ASB!AsbTypeOK, ASB!Call, Sent
    <2>4. CASE ASB!CancelSend(m)
        BY <1>1, <2>4 DEF ASB!CancelSend, ASB!Answered, ASB!AsbTypeOK, ASB!Entry, ASB!Call, Sent
    <2>5. CASE ASB!CloseSender(m)
        BY <1>1, <2>5 DEF ASB!CloseSender, ASB!AsbTypeOK, ASB!Call, Sent
    <2> QED
        BY <2>1, <2>2, <2>3, <2>4, <2>5 DEF ASB!ProducerStep
  <1>5. ASSUME NEW n \in Messages PROVE Sent(n)'
      BY <1>2, <1>3, <1>4 DEF Sent
  <1>6. queue[m].state \in {"completed", "deadLettered"} => queue'[m] = queue[m]
      BY <1>1 DEF ASB!Publish, ASB!CancelScheduledMessage, ASB!ProducerStep, ASB!SendMessage,
         ASB!CancelSend, ASB!CloseSender, Sent
  <1>7. ASSUME NEW r \in Subscriptions PROVE Settling(r)'
    <2>1. Settling(r) /\ (receiver[r].msg \in Messages \/ receiver[r].outcome = "none")
        BY DEF ASB!AsbTypeOK, ASB!Receiver, Settling
    <2> QED
        BY <1>2, <1>3, <1>6, <2>1 DEF Settling
  <1> QED
      BY <1>5, <1>7

(* The service bus moves no message out of a final state, and none that was *)
(* not sent.                                                                *)
LEMMA StepBus ==
  ASSUME AsbInv, ASB!BusStep
  PROVE  /\ \A n \in Messages : Sent(n)'
         /\ \A r \in Subscriptions : Settling(r)'
  <1> USE DEF AsbInv
  <1>1. PICK m \in Messages :
           ASB!EnqueueScheduled(m) \/ ASB!LockExpires(m) \/ \E r \in Subscriptions : ASB!Deliver(r, m)
      BY DEF ASB!BusStep
  <1>2. queue[m] \in ASB!Entry /\ call[m] \in ASB!Call /\ Sent(m)
      BY DEF ASB!AsbTypeOK
  <1>3. UNCHANGED <<call, processed>> /\ \A n \in Messages \ {m} : queue'[n] = queue[n]
      BY <1>1 DEF ASB!EnqueueScheduled, ASB!LockExpires, ASB!Deliver, ASB!AsbTypeOK
  <1>4. queue[m].state \in {"scheduled", "queued", "locked"}
      BY <1>1 DEF ASB!EnqueueScheduled, ASB!LockExpires, ASB!Deliver
  <1>5. /\ queue'[m].state \in {"queued", "locked", "deadLettered"}
        /\ queue'[m].state = "queued" => queue'[m].deliveries < MaxDeliveries
    <2>1. CASE ASB!EnqueueScheduled(m)
        BY <1>2, <2>1, AsbAssumption DEF ASB!EnqueueScheduled, ASB!AsbTypeOK, ASB!Entry, Sent
    <2>2. CASE ASB!LockExpires(m)
      <3>1. queue'[m] = ASB!Released(queue[m])
          BY <2>2 DEF ASB!LockExpires, ASB!AsbTypeOK
      <3> QED
          BY <1>2, <3>1, AsbAssumption DEF ASB!Released, ASB!Entry
    <2>3. CASE \E r \in Subscriptions : ASB!Deliver(r, m)
        BY <1>2, <2>3 DEF ASB!Deliver, ASB!AsbTypeOK, ASB!Entry
    <2> QED
        BY <1>1, <2>1, <2>2, <2>3
  <1>6. ASSUME NEW n \in Messages PROVE Sent(n)'
    <2>1. CASE n = m
        BY <1>2, <1>3, <1>4, <1>5, <2>1 DEF Sent, ASB!Call
    <2>2. CASE n # m
        BY <1>3, <2>2 DEF Sent
    <2> QED
        BY <2>1, <2>2
  <1>7. ASSUME NEW r \in Subscriptions PROVE Settling(r)'
    <2>1. Settling(r) /\ receiver[r] \in ASB!Receiver
        BY DEF ASB!AsbTypeOK
    <2>2. receiver[r].msg \in Messages \/ receiver[r].outcome = "none"
        BY <2>1 DEF ASB!AsbTypeOK, ASB!Receiver, Settling
    <2>3. CASE receiver'[r] = receiver[r]
        BY <1>3, <1>4, <2>1, <2>2, <2>3 DEF Settling
    <2>4. CASE receiver'[r] # receiver[r]
      <3>1. ASB!Deliver(r, m)
          BY <1>1, <2>4 DEF ASB!EnqueueScheduled, ASB!LockExpires, ASB!Deliver, ASB!AsbTypeOK
      <3> QED
          BY <2>1, <3>1 DEF ASB!Deliver, ASB!AsbTypeOK, ASB!Receiver, Settling
    <2> QED
        BY <2>3, <2>4
  <1> QED
      BY <1>6, <1>7

-------------------------------------------------------------------------------
(* The consumer *)

(* What a settlement makes of a message that was locked.                    *)
LEMMA SettledEntry ==
  ASSUME NEW e \in ASB!Entry, e.state = "locked",
         NEW op \in {"complete", "abandon", "deadLetter"}
  PROVE  LET d == ASB!SettledBy(op, e)
         IN  /\ d.state \in {"completed", "queued", "deadLettered"}
             /\ d.state = "queued" => d.deliveries < MaxDeliveries
             /\ d.state = "completed" <=> op = "complete"
             /\ op = "deadLetter" => d.state = "deadLettered"
  BY AsbAssumption DEF ASB!SettledBy, ASB!Released, ASB!Entry

(* A receiver moves the message it holds under its lock, and completes it   *)
(* only if its processor was done with it.                                  *)
LEMMA ReceiverMoves ==
  ASSUME AsbInv,
         NEW r \in Subscriptions,
         ASB!DeleteMessage(r) \/ ASB!AbandonMessage(r) \/ ASB!DeadLetterMessage(r)
         \/ ASB!HandlerStep(r) \/ ASB!Subscribe(r)
  PROVE  /\ call' = call /\ processed \subseteq processed'
         /\ \A q \in Subscriptions \ {r} : receiver'[q] = receiver[q]
         /\ \A n \in Messages :
               \/ queue'[n] = queue[n]
               \/ /\ queue[n].state = "locked"
                  /\ queue'[n].state \in {"completed", "queued", "deadLettered"}
                  /\ queue'[n].state = "queued" => queue'[n].deliveries < MaxDeliveries
                  /\ queue'[n].state = "completed" => n \in processed
  <1> DEFINE c == receiver[r]
  <1>1. c \in ASB!Receiver /\ Settling(r)
      BY DEF AsbInv, ASB!AsbTypeOK
  <1>2. call' = call /\ processed \subseteq processed'
      BY DEF ASB!Subscribe, ASB!DeleteMessage, ASB!AbandonMessage, ASB!DeadLetterMessage,
         ASB!CallSettle, ASB!HandlerStep, ASB!ProcessMessage, ASB!Settle, ASB!CloseSettler,
         ASB!AutoSettle
  <1>3. \A q \in Subscriptions \ {r} : receiver'[q] = receiver[q]
      BY DEF AsbInv, ASB!AsbTypeOK, ASB!Subscribe, ASB!DeleteMessage, ASB!AbandonMessage,
         ASB!DeadLetterMessage, ASB!CallSettle, ASB!HandlerStep, ASB!ProcessMessage, ASB!Settle,
         ASB!SettleAnswered, ASB!CloseSettler, ASB!AutoSettle
  <1>4. ASSUME c.msg \in Messages, queue[c.msg].state = "locked",
               NEW op \in {"complete", "abandon", "deadLetter"},
               op = "complete" => c.msg \in processed,
               queue' = [queue EXCEPT ![c.msg] = ASB!SettledBy(op, @)],
               NEW n \in Messages
        PROVE  \/ queue'[n] = queue[n]
               \/ /\ queue[n].state = "locked"
                  /\ queue'[n].state \in {"completed", "queued", "deadLettered"}
                  /\ queue'[n].state = "queued" => queue'[n].deliveries < MaxDeliveries
                  /\ queue'[n].state = "completed" => n \in processed
    <2>1. queue[c.msg] \in ASB!Entry
        BY <1>4 DEF AsbInv, ASB!AsbTypeOK
    <2>2. queue'[n] = IF n = c.msg THEN ASB!SettledBy(op, queue[c.msg]) ELSE queue[n]
        BY <1>4 DEF AsbInv, ASB!AsbTypeOK
    <2> QED
        BY <1>4, <2>1, <2>2, SettledEntry
  <1>5. CASE ASB!Settle(r)
    <2>1. c.msg \in Messages /\ c.op \in {"complete", "abandon", "deadLetter"}
        BY <1>1, <1>5 DEF ASB!Settle, AsbInv, ASB!AsbTypeOK, ASB!Receiver, Settling
    <2>2. c.op = "complete" => c.msg \in processed
        BY <1>1 DEF Settling
    <2>3. \/ queue' = queue
          \/ queue[c.msg].state = "locked" /\ queue' = [queue EXCEPT ![c.msg] = ASB!SettledBy(c.op, @)]
        BY <1>5 DEF ASB!Settle, ASB!Holds
    <2> QED
        BY <1>2, <1>3, <1>4, <2>1, <2>2, <2>3
  <1>6. CASE ASB!AutoSettle(r)
    <2> DEFINE op == IF c.pc = "resolved" THEN "complete" ELSE "abandon"
    <2>1. c.msg \in Messages
        BY <1>1, <1>6 DEF ASB!AutoSettle, AsbInv, ASB!AsbTypeOK, ASB!Receiver
    <2>2. op \in {"complete", "abandon", "deadLetter"} /\ (op = "complete" => c.msg \in processed)
        BY <1>1 DEF Settling
    <2>3. \/ queue' = queue
          \/ queue[c.msg].state = "locked" /\ queue' = [queue EXCEPT ![c.msg] = ASB!SettledBy(op, @)]
        BY <1>6 DEF ASB!AutoSettle, ASB!Holds
    <2> HIDE DEF op
    <2> QED
        BY <1>2, <1>3, <1>4, <2>1, <2>2, <2>3
  <1>7. CASE ~ASB!Settle(r) /\ ~ASB!AutoSettle(r)
    <2>1. queue' = queue
        BY <1>7 DEF ASB!Subscribe, ASB!DeleteMessage, ASB!AbandonMessage, ASB!DeadLetterMessage,
           ASB!CallSettle, ASB!HandlerStep, ASB!ProcessMessage, ASB!CloseSettler
    <2> QED
        BY <1>2, <1>3, <2>1
  <1> QED
      BY <1>5, <1>6, <1>7

LEMMA StepReceiver ==
  ASSUME AsbInv,
         NEW r \in Subscriptions,
         ASB!DeleteMessage(r) \/ ASB!AbandonMessage(r) \/ ASB!DeadLetterMessage(r)
         \/ ASB!HandlerStep(r) \/ ASB!Subscribe(r)
  PROVE  /\ \A n \in Messages : Sent(n)'
         /\ \A q \in Subscriptions : Settling(q)'
  <1> DEFINE c == receiver[r]
  <1>1. c \in ASB!Receiver /\ Settling(r)
      BY DEF AsbInv, ASB!AsbTypeOK
  <1>2. ASSUME NEW n \in Messages PROVE Sent(n)'
    <2>1. Sent(n) /\ call' = call /\ processed \subseteq processed'
        BY ReceiverMoves DEF AsbInv
    <2>2. CASE queue'[n] = queue[n]
        BY <2>1, <2>2 DEF Sent
    <2>3. CASE queue'[n] # queue[n]
      <3>1. /\ queue[n].state = "locked"
            /\ queue'[n].state \in {"completed", "queued", "deadLettered"}
            /\ queue'[n].state = "queued" => queue'[n].deliveries < MaxDeliveries
            /\ queue'[n].state = "completed" => n \in processed
          BY <2>3, ReceiverMoves
      <3> QED
          BY <2>1, <3>1 DEF Sent
    <2> QED
        BY <2>2, <2>3
  <1>3. ASSUME NEW q \in Subscriptions \ {r} PROVE Settling(q)'
    <2>1. Settling(q) /\ receiver[q] \in ASB!Receiver /\ receiver'[q] = receiver[q]
        BY ReceiverMoves DEF AsbInv, ASB!AsbTypeOK
    <2>2. receiver[q].msg \in Messages \/ receiver[q].outcome = "none"
        BY <2>1 DEF AsbInv, ASB!AsbTypeOK, ASB!Receiver, Settling
    <2>3. processed \subseteq processed'
        BY ReceiverMoves
    <2>4. receiver[q].msg \in Messages /\ queue[receiver[q].msg].state # "locked"
             => queue'[receiver[q].msg] = queue[receiver[q].msg]
        BY ReceiverMoves
    <2> QED
        BY <2>1, <2>2, <2>3, <2>4 DEF Settling
  <1>4. Settling(r)'
    <2>1. c.pc # "idle" => c.msg \in Messages
        BY <1>1 DEF AsbInv, ASB!AsbTypeOK, ASB!Receiver
    <2>2. c.msg \in Messages /\ queue[c.msg].state # "locked" => queue'[c.msg] = queue[c.msg]
        BY ReceiverMoves
    <2>3. processed \subseteq processed'
        BY ReceiverMoves
    <2>4. CASE ASB!Subscribe(r)
        BY <1>1, <2>4, <2>3 DEF ASB!Subscribe, AsbInv, ASB!AsbTypeOK, ASB!Receiver, Settling
    <2>5. ASSUME NEW op \in {"complete", "abandon", "deadLetter"}, ASB!CallSettle(r, op)
          PROVE  Settling(r)'
        BY <1>1, <2>5 DEF ASB!CallSettle, AsbInv, ASB!AsbTypeOK, ASB!Receiver, Settling
    <2>6. CASE ASB!ProcessMessage(r)
        BY <1>1, <2>6 DEF ASB!ProcessMessage, AsbInv, ASB!AsbTypeOK, ASB!Receiver, Settling
    <2>7. CASE ASB!CloseSettler(r)
        BY <1>1, <2>7 DEF ASB!CloseSettler, AsbInv, ASB!AsbTypeOK, ASB!Receiver, Settling
    <2>8. CASE ASB!AutoSettle(r)
      <3>1. receiver'[r] = [ASB!Idle EXCEPT !.open = c.open]
          BY <2>8 DEF ASB!AutoSettle, AsbInv, ASB!AsbTypeOK
      <3> QED
          BY <3>1 DEF ASB!Idle, Settling
    <2>9. CASE ASB!Settle(r)
      <3>1. c.msg \in Messages /\ c.op \in {"complete", "abandon", "deadLetter"}
          BY <1>1, <2>1, <2>9 DEF ASB!Settle, ASB!Receiver, Settling
      <3>2. queue[c.msg] \in ASB!Entry
          BY <3>1 DEF AsbInv, ASB!AsbTypeOK
      <3>3. PICK outcome \in {"resolved", "rejected"} :
               /\ ASB!SettleAnswered(r, outcome)
               /\ outcome = "resolved" =>
                     /\ queue[c.msg].state = "locked"
                     /\ queue' = [queue EXCEPT ![c.msg] = ASB!SettledBy(c.op, @)]
          BY <2>9 DEF ASB!Settle, ASB!Holds
      <3>4. outcome = "resolved" =>
               /\ c.op = "complete" => queue'[c.msg].state = "completed"
               /\ c.op = "deadLetter" => queue'[c.msg].state = "deadLettered"
        <4>1. outcome = "resolved" => queue'[c.msg] = ASB!SettledBy(c.op, queue[c.msg])
            BY <3>1, <3>3 DEF AsbInv, ASB!AsbTypeOK
        <4> QED
            BY <3>1, <3>2, <3>3, <4>1, SettledEntry
      <3>5. receiver'[r] = [c EXCEPT !.pc = "close", !.outcome = outcome]
          BY <1>1, <3>3 DEF ASB!SettleAnswered, AsbInv, ASB!AsbTypeOK, ASB!Receiver
      <3>6. /\ receiver'[r].pc = "close" /\ receiver'[r].outcome = outcome
            /\ receiver'[r].op = c.op /\ receiver'[r].msg = c.msg
          BY <1>1, <3>5 DEF ASB!Receiver
      <3> QED
          BY <1>1, <2>3, <3>1, <3>4, <3>6 DEF Settling
    <2> QED
        BY <2>4, <2>5, <2>6, <2>7, <2>8, <2>9 DEF ASB!DeleteMessage, ASB!AbandonMessage,
           ASB!DeadLetterMessage, ASB!HandlerStep
  <1> QED
      BY <1>2, <1>3, <1>4

(* disconnect() closes receivers, and nothing opens one again.              *)
LEMMA StepDisconnect ==
  ASSUME AsbInv, ASB!Disconnect \/ ASB!DisconnectStep
  PROVE  /\ \A n \in Messages : Sent(n)'
         /\ \A r \in Subscriptions : Settling(r)'
  <1>1. UNCHANGED <<queue, call, processed>>
      BY DEF ASB!Disconnect, ASB!DisconnectStep, ASB!CloseReceiver, ASB!Disconnected
  <1>2. ASSUME NEW r \in Subscriptions
        PROVE  receiver'[r] = receiver[r] \/ receiver'[r] = [receiver[r] EXCEPT !.open = "closed"]
      BY DEF ASB!Disconnect, ASB!DisconnectStep, ASB!CloseReceiver, ASB!Disconnected, AsbInv,
         ASB!AsbTypeOK
  <1>3. ASSUME NEW r \in Subscriptions PROVE Settling(r)'
    <2>1. receiver[r] \in ASB!Receiver /\ Settling(r)
        BY DEF AsbInv, ASB!AsbTypeOK
    <2>2. /\ receiver'[r].pc = receiver[r].pc /\ receiver'[r].op = receiver[r].op
          /\ receiver'[r].outcome = receiver[r].outcome /\ receiver'[r].link = receiver[r].link
          /\ receiver'[r].msg = receiver[r].msg
        BY <1>2, <2>1 DEF ASB!Receiver
    <2> QED
        BY <1>1, <2>1, <2>2 DEF Settling
  <1>4. ASSUME NEW n \in Messages PROVE Sent(n)'
      BY <1>1 DEF AsbInv, Sent
  <1> QED
      BY <1>3, <1>4

LEMMA StepClosed ==
  ASSUME AsbInv, AsbStep
  PROVE  Closed'
  <1> USE DEF Closed
  <1>1. CASE ASB!Disconnect \/ ASB!Disconnected
      BY <1>1 DEF ASB!Disconnect, ASB!Disconnected
  <1>2. ASSUME NEW r \in Subscriptions, ASB!CloseReceiver(r) PROVE Closed'
      BY <1>2 DEF ASB!CloseReceiver, AsbInv, ASB!AsbTypeOK
  <1>3. ASSUME UNCHANGED <<service, stopping>>,
               \A r \in Subscriptions : receiver[r].open = "closed" => receiver'[r].open = "closed"
        PROVE  Closed'
      BY <1>3 DEF AsbInv, ASB!AsbTypeOK
  <1>4. CASE ASB!BusStep
    <2>1. UNCHANGED <<service, stopping>>
        BY <1>4 DEF ASB!BusStep, ASB!EnqueueScheduled, ASB!LockExpires, ASB!Deliver, ASB!connections
    <2>2. \A r \in Subscriptions : receiver'[r].open = receiver[r].open
      <3>1. CASE receiver' = receiver
          BY <3>1
      <3>2. ASSUME NEW m \in Messages, NEW q \in Subscriptions, ASB!Deliver(q, m),
                   NEW r \in Subscriptions
            PROVE  receiver'[r].open = receiver[r].open
        <4>1. receiver \in [Subscriptions -> ASB!Receiver]
            BY DEF AsbInv, ASB!AsbTypeOK
        <4>2. receiver' = [receiver EXCEPT ![q] =
                  [receiver[q] EXCEPT !.msg = m, !.pc = "process", !.lock = queue[m].deliveries + 1]]
            BY <3>2 DEF ASB!Deliver
        <4> QED
            BY <4>1, <4>2 DEF ASB!Receiver
      <3> QED
          BY <1>4, <3>1, <3>2 DEF ASB!BusStep, ASB!EnqueueScheduled, ASB!LockExpires
    <2> QED
        BY <1>3, <2>1, <2>2
  <1>5. ASSUME NEW m \in Messages,
               ASB!Publish(m) \/ ASB!CancelScheduledMessage(m) \/ ASB!ProducerStep(m)
        PROVE  Closed'
      BY <1>5, <1>3 DEF ASB!Publish, ASB!CancelScheduledMessage, ASB!ProducerStep, ASB!SendMessage,
         ASB!CancelSend, ASB!CloseSender, ASB!connections
  <1>6. ASSUME NEW r \in Subscriptions,
               ASB!DeleteMessage(r) \/ ASB!AbandonMessage(r) \/ ASB!DeadLetterMessage(r)
               \/ ASB!HandlerStep(r) \/ ASB!Subscribe(r)
        PROVE  Closed'
    <2>1. UNCHANGED <<service, stopping>>
        BY <1>6 DEF ASB!Subscribe, ASB!DeleteMessage, ASB!AbandonMessage, ASB!DeadLetterMessage,
           ASB!CallSettle, ASB!HandlerStep, ASB!ProcessMessage, ASB!Settle, ASB!CloseSettler,
           ASB!AutoSettle, ASB!connections
    <2>2. receiver[r] \in ASB!Receiver
        BY DEF AsbInv, ASB!AsbTypeOK
    <2>3. receiver[r].open = "closed" => receiver'[r].open = "closed"
      <3>1. CASE ASB!Subscribe(r)
          BY <3>1 DEF ASB!Subscribe
      <3>2. CASE ASB!AutoSettle(r)
          BY <3>2 DEF ASB!AutoSettle, ASB!Idle, AsbInv, ASB!AsbTypeOK
      <3>3. CASE ~ASB!Subscribe(r) /\ ~ASB!AutoSettle(r)
        <4>1. ASSUME NEW d, receiver' = [receiver EXCEPT ![r] = d], d.open = receiver[r].open
              PROVE  receiver'[r].open = receiver[r].open
            BY <4>1 DEF AsbInv, ASB!AsbTypeOK
        <4>2. ASSUME NEW op, ASB!CallSettle(r, op) PROVE receiver'[r].open = receiver[r].open
            BY <2>2, <4>1, <4>2 DEF ASB!CallSettle, ASB!Receiver
        <4>3. CASE ASB!ProcessMessage(r) \/ ASB!Settle(r) \/ ASB!CloseSettler(r)
            BY <2>2, <4>3 DEF ASB!ProcessMessage, ASB!Settle, ASB!SettleAnswered, ASB!CloseSettler,
               AsbInv, ASB!AsbTypeOK, ASB!Receiver
        <4> QED
            BY <1>6, <3>3, <4>2, <4>3 DEF ASB!DeleteMessage, ASB!AbandonMessage,
               ASB!DeadLetterMessage, ASB!HandlerStep
      <3> QED
          BY <3>1, <3>2, <3>3
    <2>4. \A q \in Subscriptions \ {r} : receiver'[q] = receiver[q]
        BY <1>6, ReceiverMoves
    <2> QED
        BY <1>3, <2>1, <2>3, <2>4
  <1> QED
      BY <1>1, <1>2, <1>4, <1>5, <1>6 DEF AsbStep, ASB!DisconnectStep

LEMMA StepAsb ==
  ASSUME AsbInv, AsbStep
  PROVE  AsbInv'
  <1>1. ASB!AsbTypeOK'
      BY CallTypes, BusTypes, ReceiverTypes, DisconnectTypes DEF AsbInv, AsbStep
  <1>2. (\A n \in Messages : Sent(n)') /\ (\A r \in Subscriptions : Settling(r)')
      BY StepCall, StepBus, StepReceiver, StepDisconnect DEF AsbStep
  <1>3. Closed'
      BY StepClosed
  <1> QED
      BY <1>1, <1>2, <1>3 DEF AsbInv

-------------------------------------------------------------------------------
LEMMA StepProvider == ProviderInv /\ [ProviderNext]_allVars => ProviderInv'
  <1> SUFFICES ASSUME ProviderInv, [ProviderNext]_allVars PROVE ProviderInv'
      OBVIOUS
  <1>1. type' = type /\ type \in SupportedQueues \cup {"other"}
      BY EitherSteps DEF ProviderInv
  <1>2. CASE type # AzureServiceBus
    <2>1. [Next]_vars
        BY <1>1, <1>2, EitherSteps DEF SupportedQueues, vars
    <2>2. Inv'
        BY <1>2, <2>1, StepTypes, StepOpened, StepDrained DEF ProviderInv, Inv
    <2>3. AsbUnused'
        BY <1>2, EitherSteps DEF ProviderInv, AsbUnused, asbVars
    <2> QED
        BY <1>1, <1>2, <2>2, <2>3 DEF ProviderInv
  <1>3. CASE type = AzureServiceBus
    <2>1. KafkaUnused'
        BY <1>3, EitherSteps DEF ProviderInv, KafkaUnused, kafkaVars
    <2>2. AsbInv'
      <3>1. AsbInv
          BY <1>3 DEF ProviderInv
      <3>2. CASE AsbStep
          BY <3>1, <3>2, StepAsb
      <3>3. CASE UNCHANGED <<service, consumers, stopping, faults, asbVars>>
          BY <3>1, <3>3 DEF AsbInv, ASB!AsbTypeOK, Sent, Settling, Closed, asbVars
      <3> QED
          BY <1>3, <3>2, <3>3, EitherSteps
    <2> QED
        BY <1>1, <1>3, <2>1, <2>2 DEF ProviderInv
  <1> QED
      BY <1>2, <1>3

LEMMA ProviderInvariance == ProviderSpec => []ProviderInv
  BY InitProviderInv, StepProvider, PTL DEF ProviderSpec

(* The service of ASB knows no connection of Kafka.                         *)
LEMMA UnusedTypes ==
  ASSUME ProviderInv, type = AzureServiceBus
  PROVE  /\ TypeOK
         /\ \A s \in Subscriptions : sub[s].msg = "none" /\ ~sub[s].open /\ ~sub[s].fetching
  <1>1. KafkaUnused /\ ASB!AsbTypeOK
      BY DEF ProviderInv, AsbInv
  <1>2. sub \in [Subscriptions -> Consumer]
      BY <1>1, ServiceAssumption DEF KafkaUnused, Consumer
  <1>3. admin \in BOOLEAN /\ producer \in BOOLEAN
      BY <1>1 DEF KafkaUnused
  <1>4. TypeOK
      BY <1>1, <1>2, <1>3 DEF TypeOK, KafkaUnused, ServicePC, ASB!AsbTypeOK
  <1> QED
      BY <1>1, <1>4 DEF KafkaUnused

-------------------------------------------------------------------------------
(* The types of either service (queue-service.ts).                          *)
THEOREM ProviderTyped == ProviderSpec => []ProviderTypeOK
  <1>1. ProviderInv => ProviderTypeOK
      BY UnusedTypes DEF ProviderInv, ProviderTypeOK, AsbInv, Inv
  <1> QED
      BY ProviderInvariance, <1>1, PTL

(* disconnect() of the service the provider holds (kafka-service.ts:84)     *)
(* resolves only when the consumers it stopped are through.                 *)
THEOREM ProviderDrains == ProviderSpec => []DisconnectDrains
  <1>1. ProviderInv => DisconnectDrains
    <2>1. Inv => DisconnectDrains
        BY DEF Inv, TypeOK, Fetching, Drained, DisconnectDrains
    <2> QED
        BY <2>1, UnusedTypes DEF ProviderInv, DisconnectDrains, TypeOK
  <1> QED
      BY ProviderInvariance, <1>1, PTL

(* A failing message finds the producer gone only after disconnect() closed *)
(* it: nobody gets the service before the factory has connected it          *)
(* (queue-service.provider.ts:26).                                          *)
THEOREM ProviderHasProducer == ProviderSpec => []FailingMessageHasProducer
  <1>1. ProviderInv => FailingMessageHasProducer
    <2>1. Inv => FailingMessageHasProducer
        BY DEF Inv, TypeOK, Opened, Fetching, Connecting, Closing, FailingMessageHasProducer
    <2> QED
        BY <2>1, UnusedTypes DEF ProviderInv, FailingMessageHasProducer
  <1> QED
      BY ProviderInvariance, <1>1, PTL

(* processMessage() throws what the processor threw                         *)
(* (asb-consumer-service.ts:130): no message is completed that no processor *)
(* was done with, however often it was delivered and its lock ran out.      *)
THEOREM CompletedProcessed == ProviderSpec => []CompletedIsProcessed
  <1>1. ProviderInv => CompletedIsProcessed
      BY DEF ProviderInv, AsbUnused, AsbInv, Sent, CompletedIsProcessed, ASB!CompletedIsProcessed
  <1> QED
      BY ProviderInvariance, <1>1, PTL

(* What a call of ASBService that resolved says is true, and stays true     *)
(* (asb-producer-service.ts, asb-consumer-service.ts).                      *)
THEOREM CallsTrue == ProviderSpec => []CallsAreTrue
  <1>1. ProviderInv => CallsAreTrue
    <2> SUFFICES ASSUME AsbInv PROVE ASB!CallsAreTrue
        BY DEF ProviderInv, CallsAreTrue
    <2>1. ASSUME NEW m \in Messages
          PROVE  /\ call[m].pc \in {"close", "returned"} /\ call[m].outcome = "resolved" =>
                       IF call[m].op = "cancel"
                       THEN queue[m] = [state |-> "cancelled", deliveries |-> 0]
                       ELSE queue[m].state # "absent"
                 /\ call[m].pc = "returned" => call[m].link # "open"
                 /\ call[m].time = "missing" => queue[m].state = "absent"
      <3>1. queue[m] \in ASB!Entry /\ Sent(m)
          BY DEF AsbInv, ASB!AsbTypeOK
      <3>2. queue[m].state = "cancelled" => queue[m] = [state |-> "cancelled", deliveries |-> 0]
          BY <3>1 DEF ASB!Entry, Sent
      <3> QED
          BY <3>1, <3>2 DEF Sent
    <2>2. ASSUME NEW r \in Subscriptions
          PROVE  /\ receiver[r].outcome = "resolved" /\ receiver[r].op # "abandon" =>
                       queue[receiver[r].msg].state =
                           IF receiver[r].op = "complete" THEN "completed" ELSE "deadLettered"
                 /\ receiver[r].pc \in {"settled", "resolved", "rejected"} =>
                       receiver[r].link # "open"
      <3>1. receiver[r] \in ASB!Receiver /\ Settling(r)
          BY DEF AsbInv, ASB!AsbTypeOK
      <3> QED
          BY <3>1 DEF ASB!Receiver, Settling
    <2>3. Closed
        BY DEF AsbInv
    <2> QED
        BY <2>1, <2>2, <2>3 DEF ASB!CallsAreTrue, Closed
  <1> QED
      BY ProviderInvariance, <1>1, PTL

-------------------------------------------------------------------------------
(* ASBService is a queue *)

(* What a processor was given was published.                                *)
Held == \A r \in Subscriptions :
            receiver[r].msg \in Messages => queue[receiver[r].msg].state # "absent"

Same(state) == \A n \in Messages : queue'[n].state = state <=> queue[n].state = state

LEMMA SameQueue ==
  ASSUME Same("absent"), Same("completed"), processed' = processed
  PROVE  [Queue!Next]_(Queue!vars)
  BY DEF Same, Queue!vars

(* The producer publishes one message, or changes nothing of the queue.     *)
LEMMA CallQueues ==
  ASSUME AsbInv,
         NEW m \in Messages,
         ASB!Publish(m) \/ ASB!CancelScheduledMessage(m) \/ ASB!ProducerStep(m)
  PROVE  /\ [Queue!Next]_(Queue!vars)
         /\ receiver' = receiver
         /\ \A n \in Messages : queue[n].state # "absent" => queue'[n].state # "absent"
  <1>1. queue \in [Messages -> ASB!Entry] /\ Sent(m)
      BY DEF AsbInv, ASB!AsbTypeOK
  <1>2. processed' = processed /\ receiver' = receiver
      BY DEF ASB!Publish, ASB!CancelScheduledMessage, ASB!ProducerStep, ASB!SendMessage,
         ASB!CancelSend, ASB!CloseSender
  <1>3. CASE queue' = queue
      BY <1>2, <1>3, SameQueue DEF Same
  <1>4. ASSUME NEW s \in {"scheduled", "queued", "cancelled"},
               queue' = [queue EXCEPT ![m].state = s]
        PROVE  /\ queue'[m].state = s
               /\ \A n \in Messages \ {m} : queue'[n] = queue[n]
      BY <1>1, <1>4 DEF ASB!Entry
  <1>5. CASE ASB!SendMessage(m) /\ queue' # queue
    <2>1. queue[m].state = "absent"
        BY <1>1, <1>5 DEF ASB!SendMessage, Sent
    <2>2. PICK s \in {"scheduled", "queued"} : queue' = [queue EXCEPT ![m].state = s]
        BY <1>5 DEF ASB!SendMessage
    <2>3. queue'[m].state = s /\ \A n \in Messages \ {m} : queue'[n] = queue[n]
        BY <1>4, <2>2
    <2>4. {n \in Messages : queue'[n].state # "absent"}
             = {n \in Messages : queue[n].state # "absent"} \cup {m}
        BY <2>3
    <2>5. {n \in Messages : queue'[n].state = "completed"}
             = {n \in Messages : queue[n].state = "completed"}
        BY <2>1, <2>3
    <2>6. Queue!Publish(m)
        BY <1>2, <2>1, <2>4, <2>5 DEF Queue!Publish, Queue!Before
    <2> QED
        BY <1>2, <2>3, <2>6 DEF Queue!Next
  <1>6. CASE ASB!CancelSend(m) /\ queue' # queue
    <2>1. queue[m].state = "scheduled" /\ queue' = [queue EXCEPT ![m].state = "cancelled"]
        BY <1>6 DEF ASB!CancelSend
    <2>2. queue'[m].state = "cancelled" /\ \A n \in Messages \ {m} : queue'[n] = queue[n]
        BY <1>4, <2>1
    <2>3. Same("absent") /\ Same("completed")
        BY <2>1, <2>2 DEF Same
    <2> QED
        BY <1>2, <2>3, SameQueue DEF Same
  <1>7. ASB!Publish(m) \/ ASB!CancelScheduledMessage(m) \/ ASB!CloseSender(m) => queue' = queue
      BY DEF ASB!Publish, ASB!CancelScheduledMessage, ASB!CloseSender
  <1> QED
      BY <1>2, <1>3, <1>5, <1>6, <1>7 DEF ASB!ProducerStep

(* The service bus delivers what is queued, and neither publishes nor       *)
(* completes.                                                               *)
LEMMA BusQueues ==
  ASSUME AsbInv, Held, ASB!BusStep
  PROVE  [Queue!Next]_(Queue!vars) /\ Held'
  <1>1. PICK m \in Messages :
           ASB!EnqueueScheduled(m) \/ ASB!LockExpires(m) \/ \E r \in Subscriptions : ASB!Deliver(r, m)
      BY DEF ASB!BusStep
  <1>2. queue \in [Messages -> ASB!Entry] /\ receiver \in [Subscriptions -> ASB!Receiver]
      BY DEF AsbInv, ASB!AsbTypeOK
  <1>3. processed' = processed /\ \A n \in Messages \ {m} : queue'[n] = queue[n]
      BY <1>1, <1>2 DEF ASB!EnqueueScheduled, ASB!LockExpires, ASB!Deliver
  <1>4. queue[m].state \in {"scheduled", "queued", "locked"}
      BY <1>1 DEF ASB!EnqueueScheduled, ASB!LockExpires, ASB!Deliver
  <1>5. queue'[m].state \in {"queued", "locked", "deadLettered"}
    <2>1. CASE ASB!EnqueueScheduled(m)
        BY <1>2, <2>1 DEF ASB!EnqueueScheduled, ASB!Entry
    <2>2. CASE ASB!LockExpires(m)
      <3>1. queue'[m] = ASB!Released(queue[m])
          BY <1>2, <2>2 DEF ASB!LockExpires
      <3> QED
          BY <1>2, <3>1 DEF ASB!Released, ASB!Entry
    <2>3. CASE \E r \in Subscriptions : ASB!Deliver(r, m)
        BY <1>2, <2>3 DEF ASB!Deliver, ASB!Entry
    <2> QED
        BY <1>1, <2>1, <2>2, <2>3
  <1>6. Same("absent") /\ Same("completed")
      BY <1>3, <1>4, <1>5 DEF Same
  <1>7. ASSUME NEW r \in Subscriptions
        PROVE  receiver'[r].msg = receiver[r].msg \/ receiver'[r].msg = m
    <2>1. CASE receiver' = receiver
        BY <2>1
    <2>2. ASSUME NEW q \in Subscriptions, ASB!Deliver(q, m)
          PROVE  receiver'[r].msg = receiver[r].msg \/ receiver'[r].msg = m
        BY <1>2, <2>2 DEF ASB!Deliver, ASB!Receiver
    <2> QED
        BY <1>1, <2>1, <2>2 DEF ASB!EnqueueScheduled, ASB!LockExpires
  <1>8. Held'
      BY <1>4, <1>6, <1>7 DEF Held, Same
  <1> QED
      BY <1>3, <1>6, <1>8, SameQueue

(* A receiver handles the message it holds, or completes one that was       *)
(* handled.                                                                 *)
LEMMA ReceiverQueues ==
  ASSUME AsbInv, Held,
         NEW r \in Subscriptions,
         ASB!DeleteMessage(r) \/ ASB!AbandonMessage(r) \/ ASB!DeadLetterMessage(r)
         \/ ASB!HandlerStep(r) \/ ASB!Subscribe(r)
  PROVE  [Queue!Next]_(Queue!vars) /\ Held'
  <1>1. receiver \in [Subscriptions -> ASB!Receiver] /\ receiver[r] \in ASB!Receiver
      BY DEF AsbInv, ASB!AsbTypeOK
  <1>2. \A n \in Messages :
           \/ queue'[n] = queue[n]
           \/ /\ queue[n].state = "locked"
              /\ queue'[n].state \in {"completed", "queued", "deadLettered"}
              /\ queue'[n].state = "completed" => n \in processed
      BY ReceiverMoves
  <1>3. Same("absent")
      BY <1>2 DEF Same
  <1>4. ASSUME processed' # processed
        PROVE  /\ queue' = queue /\ receiver[r].msg \in Messages
               /\ processed' = processed \cup {receiver[r].msg}
    <2>1. \/ ASB!ProcessMessage(r)
          \/ \E op \in {"complete", "abandon", "deadLetter"} : ASB!CallSettle(r, op)
        BY <1>4 DEF ASB!Subscribe, ASB!DeleteMessage, ASB!AbandonMessage, ASB!DeadLetterMessage,
           ASB!HandlerStep, ASB!Settle, ASB!CloseSettler, ASB!AutoSettle
    <2>2. receiver[r].pc # "idle" => receiver[r].msg \in Messages
        BY <1>1 DEF AsbInv, ASB!AsbTypeOK, ASB!Receiver
    <2> QED
        BY <1>4, <2>1, <2>2 DEF ASB!ProcessMessage, ASB!CallSettle
  <1>5. ASSUME processed' # processed PROVE [Queue!Next]_(Queue!vars)
    <2> DEFINE m == receiver[r].msg
    <2>1. m \in Messages /\ queue[m].state # "absent" /\ queue' = queue
        BY <1>4, <1>5 DEF Held
    <2>2. Queue!Handle(m)
        BY <1>4, <1>5, <2>1 DEF Queue!Handle, Queue!Before
    <2> QED
        BY <2>1, <2>2 DEF Queue!Next
  <1>6. ASSUME processed' = processed PROVE [Queue!Next]_(Queue!vars)
    <2>1. PICK M : M = {n \in Messages :
                           queue'[n].state = "completed" /\ queue[n].state # "completed"}
        OBVIOUS
    <2>2. M \in SUBSET processed
        BY <1>2, <2>1
    <2>3. {n \in Messages : queue'[n].state = "completed"}
             = {n \in Messages : queue[n].state = "completed"} \cup M
        BY <1>2, <2>1
    <2>4. {n \in Messages : queue'[n].state # "absent"}
             = {n \in Messages : queue[n].state # "absent"}
        BY <1>3 DEF Same
    <2>5. Queue!Remove(M)
        BY <1>6, <2>3, <2>4 DEF Queue!Remove, Queue!Before
    <2> QED
        BY <2>2, <2>5 DEF Queue!Next
  <1>7. receiver'[r].msg \in {receiver[r].msg, NoMessage}
    <2>1. CASE ASB!AutoSettle(r)
      <3>1. receiver'[r] = [ASB!Idle EXCEPT !.open = receiver[r].open]
          BY <1>1, <2>1 DEF ASB!AutoSettle
      <3> QED
          BY <3>1 DEF ASB!Idle
    <2>2. ASSUME NEW op, ASB!CallSettle(r, op) PROVE receiver'[r].msg = receiver[r].msg
        BY <1>1, <2>2 DEF ASB!CallSettle, ASB!Receiver
    <2>3. CASE ASB!ProcessMessage(r) \/ ASB!CloseSettler(r) \/ ASB!Subscribe(r)
        BY <1>1, <2>3 DEF ASB!ProcessMessage, ASB!CloseSettler, ASB!Subscribe, ASB!Receiver
    <2>4. CASE ASB!Settle(r)
        BY <1>1, <2>4 DEF ASB!Settle, ASB!SettleAnswered, ASB!Receiver
    <2> QED
        BY <2>1, <2>2, <2>3, <2>4 DEF ASB!DeleteMessage, ASB!AbandonMessage,
           ASB!DeadLetterMessage, ASB!HandlerStep
  <1>8. \A q \in Subscriptions \ {r} : receiver'[q] = receiver[q]
      BY ReceiverMoves
  <1>9. Held'
      BY <1>3, <1>7, <1>8, AsbAssumption DEF Held, Same
  <1> QED
      BY <1>5, <1>6, <1>9

(* disconnect() changes nothing of the queue.                               *)
LEMMA DisconnectQueues ==
  ASSUME AsbInv, Held, ASB!Disconnect \/ ASB!DisconnectStep
  PROVE  [Queue!Next]_(Queue!vars) /\ Held'
  <1>1. queue' = queue /\ processed' = processed
      BY DEF ASB!Disconnect, ASB!DisconnectStep, ASB!CloseReceiver, ASB!Disconnected
  <1>2. \A r \in Subscriptions : receiver'[r].msg = receiver[r].msg
    <2>1. receiver \in [Subscriptions -> ASB!Receiver]
        BY DEF AsbInv, ASB!AsbTypeOK
    <2> QED
        BY <2>1 DEF ASB!Disconnect, ASB!DisconnectStep, ASB!CloseReceiver, ASB!Disconnected,
           ASB!Receiver
  <1> QED
      BY <1>1, <1>2, SameQueue DEF Same, Held

QueueInv == ProviderInv /\ (type = AzureServiceBus => Held)

LEMMA InitQueues == ProviderInit => QueueInv /\ Queue!Init
  <1> SUFFICES ASSUME ProviderInit PROVE QueueInv /\ Queue!Init
      OBVIOUS
  <1>1. processed = {} /\ \A m \in Messages : queue[m].state = "absent"
      BY DEF ProviderInit
  <1>2. \A r \in Subscriptions : receiver[r].msg \notin Messages
      BY AsbAssumption DEF ProviderInit, ASB!Idle
  <1> QED
      BY <1>1, <1>2, InitProviderInv DEF QueueInv, Held, Queue!Init

LEMMA StepQueues ==
  ASSUME QueueInv, [ProviderNext]_allVars
  PROVE  QueueInv' /\ [Queue!Next]_(Queue!vars)
  <1>1. ProviderInv' /\ type' = type
      BY StepProvider, EitherSteps DEF QueueInv
  <1>2. CASE type # AzureServiceBus
    <2>1. queue' = queue /\ processed' = processed
        BY <1>2, EitherSteps DEF asbVars
    <2> QED
        BY <1>1, <1>2, <2>1 DEF QueueInv, Queue!vars
  <1>3. CASE type = AzureServiceBus
    <2>1. AsbInv /\ Held
        BY <1>3 DEF QueueInv, ProviderInv
    <2>2. Held' /\ [Queue!Next]_(Queue!vars)
      <3>1. ASSUME NEW m \in Messages,
                   ASB!Publish(m) \/ ASB!CancelScheduledMessage(m) \/ ASB!ProducerStep(m)
            PROVE  Held' /\ [Queue!Next]_(Queue!vars)
          BY <2>1, <3>1, CallQueues DEF Held
      <3>2. CASE UNCHANGED <<service, consumers, stopping, faults, asbVars>>
          BY <2>1, <3>2 DEF Held, asbVars, Queue!vars
      <3> QED
          BY <1>3, <2>1, <3>1, <3>2, EitherSteps, BusQueues, ReceiverQueues, DisconnectQueues
          DEF AsbStep
    <2> QED
        BY <1>1, <2>2 DEF QueueInv
  <1> QED
      BY <1>2, <1>3

(* A message of ASB is handled only when it was published and completed     *)
(* only when it was handled, whatever calls, locks and processors do        *)
(* (asb-consumer-service.ts:130).                                           *)
THEOREM AsbQueueImplemented == ProviderSpec => ImplementsQueue
  BY InitQueues, StepQueues, PTL DEF ProviderSpec, ImplementsQueue, Queue!Spec
=================================================================================
