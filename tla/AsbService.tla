------------------------------ MODULE AsbService ------------------------------
(***************************************************************************)
(* ASBService of packages/queue-service: messages that are published, at   *)
(* once or for later, and handled by subscriptions to one queue of Azure   *)
(* Service Bus, whose processors may themselves delete, abandon or dead    *)
(* letter the message they were given.                                     *)
(*                                                                         *)
(* The service bus and its SDK are external.  A message is delivered under *)
(* a lock, which the number of the delivery stands for; the lock may run   *)
(* out while its holder is at work, and the message is then delivered      *)
(* again, or is dead-lettered after MaxDeliveries.  A message is settled   *)
(* by lock, whichever receiver is asked to.  The SDK completes a message   *)
(* whose processor resolves and abandons one whose processor rejects.      *)
(* Every call of it can reject, whether or not it took effect.             *)
(***************************************************************************)
EXTENDS Naturals

CONSTANTS
    Messages,        \* the messages that are published
    Receivers,       \* the calls of subscribe()
    NoMessage,       \* a receiver without a message
    MaxDeliveries,   \* the limit of the queue
    FaultKinds,      \* what may go wrong in this instance
    MaxFaults        \* bound: how often something goes wrong

VARIABLES
    queue,           \* [Messages -> Entry], in the service bus
    call,            \* [Messages -> Call], the last call of the producer about it
    receiver,        \* [Receivers -> Receiver]
    service,         \* whether there is one, and where disconnect() stands
    consumers,       \* _consumers: the receivers that were pushed
    stopping,        \* those of them disconnect() found there
    processed,       \* the messages some processor was done with
    faults           \* bounded by MaxFaults: the faults so far

vars == <<queue, call, receiver, service, consumers, stopping, processed, faults>>

connections == <<service, consumers, stopping>>

(* The sender or receiver a call created.                                   *)
Link == {"none", "open", "closed"}
Outcome == {"none", "resolved", "rejected"}

Entry == [state : {"absent", "scheduled", "queued", "locked", "completed", "deadLettered",
                   "cancelled"},
          deliveries : 0..MaxDeliveries]

(* A call of publish() or cancelScheduledMessage(): its time argument, what *)
(* it awaits, and how the SDK answered.                                     *)
Call == [op : {"none", "publish", "cancel"}, time : {"none", "later", "missing"},
         pc : {"idle", "send", "close", "returned"}, outcome : Outcome, link : Link]

(* A receiver and the message its processor was given, with the call by     *)
(* which the processor settles it.                                          *)
Receiver == [open : {"no", "yes", "closed"}, msg : Messages \cup {NoMessage},
             lock : 0..MaxDeliveries,
             pc : {"idle", "process", "settle", "close", "settled", "resolved", "rejected"},
             op : {"none", "complete", "abandon", "deadLetter"},
             outcome : Outcome, link : Link]

AsbTypeOK ==
    /\ queue \in [Messages -> Entry]
    /\ call \in [Messages -> Call]
    /\ receiver \in [Receivers -> Receiver]
    /\ service \in {"up", "failed", "awaitConsumers", "down", "stopFailed"}
    /\ stopping \subseteq consumers /\ consumers \subseteq Receivers /\ processed \subseteq Messages
    /\ faults \in 0..MaxFaults
    /\ \A r \in Receivers : receiver[r].pc = "idle" <=> receiver[r].msg = NoMessage

NoCall == [op |-> "none", time |-> "none", pc |-> "idle", outcome |-> "none", link |-> "none"]
Idle == [open |-> "no", msg |-> NoMessage, lock |-> 0, pc |-> "idle", op |-> "none",
         outcome |-> "none", link |-> "none"]

(* The constructor throws when it finds no connection in its configuration; *)
(* then there is nothing to call.                                           *)
AsbInit ==
    /\ queue = [m \in Messages |-> [state |-> "absent", deliveries |-> 0]]
    /\ call = [m \in Messages |-> NoCall]
    /\ receiver = [r \in Receivers |-> Idle]
    /\ service \in {"up", "failed"} /\ consumers = {} /\ stopping = {}
    /\ processed = {} /\ faults = 0

-------------------------------------------------------------------------------
Fault(kind) ==
    /\ kind \in FaultKinds
    /\ faults < MaxFaults
    /\ faults' = faults + 1

(* The calls of the SDK that take effect on the entry of a message.         *)
Holds(r) ==
    LET m == receiver[r].msg
    IN  queue[m].state = "locked" /\ queue[m].deliveries = receiver[r].lock

(* A message whose lock is gone goes back, unless it came too often.        *)
Released(entry) ==
    [entry EXCEPT !.state = IF entry.deliveries = MaxDeliveries THEN "deadLettered" ELSE "queued"]

SettledBy(op, entry) ==
    CASE op = "complete"   -> [entry EXCEPT !.state = "completed"]
      [] op = "abandon"    -> Released(entry)
      [] op = "deadLetter" -> [entry EXCEPT !.state = "deadLettered"]

-------------------------------------------------------------------------------
(* ASBProducerService *)

(* publish(), to be delivered at once, or later: with a scheduleTimeUtc     *)
(* that may be there without a value.                                       *)
Publish(m) ==
    /\ service # "failed" /\ call[m].op = "none"
    /\ \E time \in {"none", "later", "missing"} :
          call' = [call EXCEPT ![m] = [op |-> "publish", time |-> time, pc |-> "send",
                                       outcome |-> "none", link |-> "open"]]
    /\ UNCHANGED <<queue, receiver, connections, processed, faults>>

Answered(m, outcome) == call' = [call EXCEPT ![m].outcome = outcome, ![m].pc = "close"]

(* sendMessage(): a schedule without a time is an error before anything is  *)
(* sent.                                                                    *)
SendMessage(m) ==
    /\ call[m].op = "publish" /\ call[m].pc = "send"
    /\ \/ /\ call[m].time # "missing"
          /\ queue' = [queue EXCEPT ![m].state =
                           IF call[m].time = "later" THEN "scheduled" ELSE "queued"]
          /\ \/ Answered(m, "resolved") /\ UNCHANGED faults
             \/ Answered(m, "rejected") /\ Fault("send")
       \/ /\ Answered(m, "rejected")
          /\ IF call[m].time = "missing" THEN UNCHANGED faults ELSE Fault("send")
          /\ UNCHANGED queue
    /\ UNCHANGED <<receiver, connections, processed>>

(* cancelScheduledMessage(), with the sequence number publish() resolved to.*)
CancelScheduledMessage(m) ==
    /\ call[m].op = "publish" /\ call[m].pc = "returned"
    /\ call[m].time = "later" /\ call[m].outcome = "resolved"
    /\ call' = [call EXCEPT ![m] = [@ EXCEPT !.op = "cancel", !.pc = "send",
                                             !.outcome = "none", !.link = "open"]]
    /\ UNCHANGED <<queue, receiver, connections, processed, faults>>

(* Only a message that is still scheduled is cancelled.                     *)
CancelSend(m) ==
    /\ call[m].op = "cancel" /\ call[m].pc = "send"
    /\ \/ /\ queue[m].state = "scheduled"
          /\ queue' = [queue EXCEPT ![m].state = "cancelled"]
          /\ \/ Answered(m, "resolved") /\ UNCHANGED faults
             \/ Answered(m, "rejected") /\ Fault("send")
       \/ /\ Answered(m, "rejected")
          /\ IF queue[m].state = "scheduled" THEN Fault("send") ELSE UNCHANGED faults
          /\ UNCHANGED queue
    /\ UNCHANGED <<receiver, connections, processed>>

(* Mutant: the sender is closed on success only.                            *)
CloseSenderOnSuccess(m) ==
    /\ call[m].pc = "close"
    /\ call' = [call EXCEPT ![m].pc = "returned",
                            ![m].link = IF call[m].outcome = "resolved" THEN "closed" ELSE @]
    /\ UNCHANGED <<queue, receiver, connections, processed, faults>>

(* The finally: close(), whose own error is swallowed and changes nothing.  *)
CloseSender(m) ==
    /\ call[m].pc = "close"
    /\ call' = [call EXCEPT ![m].pc = "returned", ![m].link = "closed"]
    /\ UNCHANGED <<queue, receiver, connections, processed, faults>>

-------------------------------------------------------------------------------
(* The service bus *)

EnqueueScheduled(m) ==
    /\ queue[m].state = "scheduled"
    /\ queue' = [queue EXCEPT ![m].state = "queued"]
    /\ UNCHANGED <<call, receiver, connections, processed, faults>>

(* The lock was not renewed in time: a processor that takes longer than the *)
(* renewal lasts, or a lost link.                                           *)
LockExpires(m) ==
    /\ queue[m].state = "locked"
    /\ queue' = [queue EXCEPT ![m] = Released(@)]
    /\ \/ Fault("lock")
       \/ ~(\E r \in Receivers : receiver[r].msg = m /\ Holds(r)) /\ UNCHANGED faults
    /\ UNCHANGED <<call, receiver, connections, processed>>

-------------------------------------------------------------------------------
(* ASBConsumerService *)

(* subscribe() creates the receiver, starts it and pushes it in one turn.   *)
Subscribe(r) ==
    /\ service # "failed" /\ receiver[r].open = "no"
    /\ receiver' = [receiver EXCEPT ![r].open = "yes"]
    /\ consumers' = consumers \cup {r}
    /\ UNCHANGED <<queue, call, service, stopping, processed, faults>>

Deliver(r, m) ==
    /\ receiver[r].open = "yes" /\ receiver[r].pc = "idle"
    /\ queue[m].state = "queued"
    /\ queue' = [queue EXCEPT ![m].state = "locked", ![m].deliveries = @ + 1]
    /\ receiver' = [receiver EXCEPT ![r] = [@ EXCEPT !.msg = m, !.pc = "process",
                                                     !.lock = queue[m].deliveries + 1]]
    /\ UNCHANGED <<call, connections, processed, faults>>

(* Mutant: processMessage() logs the error and does not throw it again.     *)
ProcessMessageSwallowing(r) ==
    /\ receiver[r].pc \in {"process", "settled"}
    /\ receiver' = [receiver EXCEPT ![r].pc = "resolved"]
    /\ \/ processed' = processed \cup {receiver[r].msg} /\ UNCHANGED faults
       \/ UNCHANGED processed /\ Fault("processor")
    /\ UNCHANGED <<queue, call, connections>>

(* processMessage(): the processor resolves or rejects, and so does it.     *)
ProcessMessage(r) ==
    /\ receiver[r].pc \in {"process", "settled"}
    /\ \/ /\ receiver' = [receiver EXCEPT ![r].pc = "resolved"]
          /\ processed' = processed \cup {receiver[r].msg} /\ UNCHANGED faults
       \/ /\ receiver' = [receiver EXCEPT ![r].pc = "rejected"]
          /\ UNCHANGED processed
          /\ IF receiver[r].outcome = "rejected" THEN UNCHANGED faults ELSE Fault("processor")
    /\ UNCHANGED <<queue, call, connections>>

(* deleteMessage(), abandonMessage() and deadLetterMessage(), called by the *)
(* processor: each creates a receiver of its own.  A processor that asks    *)
(* for the deletion of its message is done with it, whatever comes of that: *)
(* a deletion whose answer is lost takes effect too.                        *)
CallSettle(r, op) ==
    /\ receiver[r].pc = "process"
    /\ receiver' = [receiver EXCEPT ![r] = [@ EXCEPT !.pc = "settle", !.op = op, !.link = "open"]]
    /\ processed' = IF op = "complete" THEN processed \cup {receiver[r].msg} ELSE processed
    /\ UNCHANGED <<queue, call, connections, faults>>
DeleteMessage(r) == CallSettle(r, "complete")
AbandonMessage(r) == CallSettle(r, "abandon")
DeadLetterMessage(r) == CallSettle(r, "deadLetter")

SettleAnswered(r, outcome) ==
    receiver' = [receiver EXCEPT ![r].pc = "close", ![r].outcome = outcome]

(* Mutant: the error of the settlement is not thrown again.                 *)
SettleSwallowing(r) ==
    /\ receiver[r].pc = "settle"
    /\ SettleAnswered(r, "resolved")
    /\ LET m == receiver[r].msg
       IN  queue' = [queue EXCEPT ![m] = IF Holds(r) THEN SettledBy(receiver[r].op, @) ELSE @]
    /\ UNCHANGED <<call, connections, processed, faults>>

(* The await of the three: it rejects when the lock has run out.            *)
Settle(r) ==
    /\ receiver[r].pc = "settle"
    /\ LET m == receiver[r].msg
       IN  \/ /\ Holds(r)
              /\ queue' = [queue EXCEPT ![m] = SettledBy(receiver[r].op, @)]
              /\ \/ SettleAnswered(r, "resolved") /\ UNCHANGED faults
                 \/ SettleAnswered(r, "rejected") /\ Fault("settle")
           \/ /\ SettleAnswered(r, "rejected")
              /\ IF Holds(r) THEN Fault("settle") ELSE UNCHANGED faults
              /\ UNCHANGED queue
    /\ UNCHANGED <<call, connections, processed>>

(* Mutants: the receiver takes the next message when the settlement is      *)
(* over, its processor is not awaited; the receiver that delivers the       *)
(* message is used, and closed.                                             *)
CloseSettlerFrees(r) ==
    /\ receiver[r].pc = "close"
    /\ receiver' = [receiver EXCEPT ![r].pc = "idle", ![r].link = "closed"]
    /\ UNCHANGED <<queue, call, connections, processed, faults>>
CloseSettlerShared(r) ==
    /\ receiver[r].pc = "close"
    /\ receiver' = [receiver EXCEPT ![r].pc = "settled", ![r].link = "closed", ![r].open = "closed"]
    /\ UNCHANGED <<queue, call, connections, processed, faults>>

(* The finally of the three.                                                *)
CloseSettler(r) ==
    /\ receiver[r].pc = "close"
    /\ receiver' = [receiver EXCEPT ![r].pc = "settled", ![r].link = "closed"]
    /\ UNCHANGED <<queue, call, connections, processed, faults>>

(* What the SDK does once processMessage() is through, if the message is    *)
(* not settled yet; an error goes to processError(), which only reports it. *)
AutoSettle(r) ==
    /\ receiver[r].pc \in {"resolved", "rejected"}
    /\ LET m == receiver[r].msg
           op == IF receiver[r].pc = "resolved" THEN "complete" ELSE "abandon"
       IN  \/ /\ Holds(r) /\ (op = "complete" \/ receiver[r].open = "yes")
              /\ queue' = [queue EXCEPT ![m] = SettledBy(op, @)] /\ UNCHANGED faults
           \/ ~Holds(r) /\ UNCHANGED <<queue, faults>>
           \/ op = "abandon" /\ receiver[r].open = "closed" /\ UNCHANGED <<queue, faults>>
           \/ Holds(r) /\ Fault("settle") /\ UNCHANGED queue
    /\ receiver' = [receiver EXCEPT ![r] = [Idle EXCEPT !.open = receiver[r].open]]
    /\ UNCHANGED <<call, connections, processed>>

-------------------------------------------------------------------------------
(* disconnect(): the receivers that were pushed; the client stays open *)

(* Promise.all over _consumers as it is at this moment.                     *)
Disconnect ==
    /\ service = "up" /\ service' = "awaitConsumers"
    /\ stopping' = consumers
    /\ UNCHANGED <<queue, call, receiver, consumers, processed, faults>>

(* A processor at work is not waited for.  A close() that rejects makes     *)
(* disconnect() reject while the others go on.                              *)
CloseReceiver(r) ==
    /\ r \in stopping /\ receiver[r].open = "yes"
    /\ \/ receiver' = [receiver EXCEPT ![r].open = "closed"] /\ UNCHANGED <<service, stopping, faults>>
       \/ /\ service' = "stopFailed" /\ Fault("close")
          /\ stopping' = stopping \ {r}
          /\ UNCHANGED receiver
    /\ UNCHANGED <<queue, call, consumers, processed>>

Disconnected ==
    /\ service = "awaitConsumers" /\ \A r \in stopping : receiver[r].open = "closed"
    /\ service' = "down"
    /\ UNCHANGED <<queue, call, receiver, consumers, stopping, processed, faults>>

-------------------------------------------------------------------------------
ProducerStep(m) == SendMessage(m) \/ CancelSend(m) \/ CloseSender(m)
HandlerStep(r) == ProcessMessage(r) \/ Settle(r) \/ CloseSettler(r) \/ AutoSettle(r)
BusStep == \E m \in Messages :
    EnqueueScheduled(m) \/ LockExpires(m) \/ \E r \in Receivers : Deliver(r, m)
DisconnectStep == Disconnected \/ \E r \in Receivers : CloseReceiver(r)

AsbNext ==
    \/ \E m \in Messages : Publish(m) \/ CancelScheduledMessage(m) \/ ProducerStep(m)
    \/ \E r \in Receivers :
          Subscribe(r) \/ DeleteMessage(r) \/ AbandonMessage(r) \/ DeadLetterMessage(r)
    \/ \E r \in Receivers : HandlerStep(r)
    \/ BusStep \/ Disconnect \/ DisconnectStep

AsbSpec == AsbInit /\ [][AsbNext]_vars

-------------------------------------------------------------------------------
(* Properties *)

(* A message leaves the queue as completed only if a processor was done     *)
(* with it: one whose processor rejected is never completed for it.         *)
CompletedIsProcessed ==
    \A m \in Messages : queue[m].state = "completed" => m \in processed

(* A call that resolves has done what it says, whatever happened to the     *)
(* message meanwhile: what was published is in the queue or beyond, what    *)
(* was cancelled is never delivered, what a processor deleted or dead       *)
(* lettered is settled so for good, and a disconnect() has closed what it   *)
(* found.  A call that is over, however it ended, has closed its link.      *)
CallsAreTrue ==
    /\ \A m \in Messages :
          /\ call[m].pc \in {"close", "returned"} /\ call[m].outcome = "resolved" =>
                IF call[m].op = "cancel"
                THEN queue[m] = [state |-> "cancelled", deliveries |-> 0]
                ELSE queue[m].state # "absent"
          /\ call[m].pc = "returned" => call[m].link # "open"
          /\ call[m].time = "missing" => queue[m].state = "absent"
    /\ \A r \in Receivers :
          /\ receiver[r].outcome = "resolved" /\ receiver[r].op # "abandon" =>
                queue[receiver[r].msg].state =
                    IF receiver[r].op = "complete" THEN "completed" ELSE "deadLettered"
          /\ receiver[r].pc \in {"settled", "resolved", "rejected"} => receiver[r].link # "open"
    /\ service = "down" => \A r \in stopping : receiver[r].open = "closed"

(* A message that some receiver could take is completed or dead-lettered in *)
(* the end, however often its processor fails or its lock runs out, unless  *)
(* disconnect() is called: no other step closes a receiver.                 *)
QueuedIsSettled ==
    \A m \in Messages :
        queue[m].state = "queued" /\ consumers # {} ~>
            queue[m].state \in {"completed", "deadLettered"} \/ service # "up"
===============================================================================
