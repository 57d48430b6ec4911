------------------------- MODULE KafkaConsumerService -------------------------
(***************************************************************************)
(* KafkaConsumerService.subscribe of packages/queue-service                *)
(* (src/kafka/kafka-consumer-service.ts): the eachMessage handler, run by  *)
(* the members of one consumer group on one partition, with the optional   *)
(* Redis cache of the last consumed offset and the dead letter topic.      *)
(* Partitions share nothing here: the cached key names the partition.      *)
(*                                                                         *)
(* kafkajs and the broker are external.  kafkajs hands a member one        *)
(* message at a time, resolves its offset when eachMessage returns (which  *)
(* it always does: every error is caught) and commits the resolved offset  *)
(* at the end of a batch.  A member whose partition moved, because its     *)
(* processor ran past the session timeout, works on until it finds out.    *)
(***************************************************************************)
EXTENDS Integers, Sequences

CONSTANTS
    Consumers,        \* the members of the group
    NoConsumer,       \* the owner of a partition that has none
    Messages,         \* what producers publish
    FromBeginning,    \* subscription.fromBeginning
    DlqRequired,      \* subscription.dlqRequired
    Cached,           \* a caching service was passed to the constructor
    InitialCommitted, \* -1: a group that never committed on the partition
    FaultKinds,       \* what may go wrong in this instance
    MaxFaults,        \* bound: how often something goes wrong
    MaxMessages       \* bound: the length of the partition

ASSUME ConsumerAssumption ==
    /\ NoConsumer \notin Consumers
    /\ FromBeginning \in BOOLEAN /\ DlqRequired \in BOOLEAN /\ Cached \in BOOLEAN
    /\ InitialCommitted \in {-1, 0}
    /\ MaxFaults \in Nat /\ MaxMessages \in Nat

VARIABLES
    log,          \* the messages of the partition; offset o is log[o + 1]
    committed,    \* the committed offset of the group, -1 for none
    owner,        \* the member the partition is assigned to
    con,          \* what each member is doing
    cache,        \* the value of the Redis key, -1 for none
    processed,    \* the offsets whose processor resolved
    deadLetters,  \* the offsets published to `${topic}.DLQ`
    abandoned,    \* history: the offsets passed over after an error
    recorded,     \* history: the offsets publishOffset wrote to Redis
    faults        \* bounded by MaxFaults: the faults so far

vars == <<log, committed, owner, con, cache, processed, deadLetters, abandoned,
          recorded, faults>>

Offsets == 0..(Len(log) - 1)
Handled == processed \cup deadLetters \cup abandoned

PC == {"idle", "decode", "check", "run", "running", "record", "deadLetter"}

(* A member that joined was given the position start and is at pos.         *)
Member == [pc : PC, joined : BOOLEAN, start : Nat, pos : Nat]
Outside == [pc |-> "idle", joined |-> FALSE, start |-> 0, pos |-> 0]

TypeOK ==
    /\ log \in Seq(Messages)
    /\ committed \in {-1} \cup (0..Len(log))
    /\ owner \in Consumers \cup {NoConsumer}
    /\ con \in [Consumers -> Member]
    /\ \A c \in Consumers : con[c].pos \in 0..Len(log)
    /\ cache \in {-1} \cup Offsets
    /\ Handled \subseteq Offsets
    /\ recorded \subseteq Offsets
    /\ faults \in Nat

Init ==
    /\ log = << >>
    /\ committed = InitialCommitted
    /\ owner = NoConsumer
    /\ con = [c \in Consumers |-> Outside]
    /\ cache = -1
    /\ processed = {} /\ deadLetters = {} /\ abandoned = {} /\ recorded = {}
    /\ faults = 0

-------------------------------------------------------------------------------
At(c, pc) == con[c].pc = pc
Pos(c) == con[c].pos
Goto(c, pc) == con' = [con EXCEPT ![c].pc = pc]

Fault(kind) ==
    /\ kind \in FaultKinds
    /\ faults < MaxFaults
    /\ faults' = faults + 1

(* eachMessage returns: kafkajs resolves the offset.                        *)
Resolve(c) == con' = [con EXCEPT ![c].pc = "idle", ![c].pos = @ + 1]

-------------------------------------------------------------------------------
(* The broker and kafkajs *)

AppendMessage(m) ==
    /\ Len(log) < MaxMessages
    /\ log' = Append(log, m)
    /\ UNCHANGED <<committed, owner, con, cache, processed, deadLetters,
                   abandoned, recorded>>

Produce(m) == AppendMessage(m) /\ UNCHANGED faults

(* Mutant: the committed offset is taken for the last one consumed.         *)
StartOffsetAfterCommitted ==
    CASE committed >= 0 -> IF committed < Len(log) THEN committed + 1 ELSE committed
      [] committed < 0 /\ FromBeginning -> 0
      [] OTHER -> Len(log)

(* Where a member starts that is given the partition.                       *)
StartOffset ==
    CASE committed >= 0 -> committed
      [] committed < 0 /\ FromBeginning -> 0
      [] OTHER -> Len(log)

(* The partition is assigned to c, which is between two messages: when it   *)
(* has no owner, or in a rebalance that takes it from its owner.            *)
Assign(c) ==
    /\ At(c, "idle")
    /\ IF owner = NoConsumer THEN UNCHANGED faults ELSE Fault("rebalance")
    /\ owner' = c
    /\ con' = [con EXCEPT ![c] = [pc |-> "idle", joined |-> TRUE,
                                  start |-> StartOffset, pos |-> StartOffset]]
    /\ UNCHANGED <<log, committed, cache, processed, deadLetters, abandoned, recorded>>

(* A member whose partition moved finds out when it heartbeats or commits   *)
(* between two messages.                                                    *)
Expelled(c) ==
    /\ con[c].joined /\ At(c, "idle") /\ owner # c
    /\ con' = [con EXCEPT ![c] = Outside]
    /\ UNCHANGED <<log, committed, owner, cache, processed, deadLetters,
                   abandoned, recorded, faults>>

(* Only offsets the member itself resolved are committed.                   *)
Commit(c) ==
    /\ owner = c /\ At(c, "idle")
    /\ Pos(c) > con[c].start /\ Pos(c) > committed
    /\ committed' = Pos(c)
    /\ UNCHANGED <<log, owner, con, cache, processed, deadLetters, abandoned,
                   recorded, faults>>

Crash(c) ==
    /\ Fault("crash")
    /\ con' = [con EXCEPT ![c] = Outside]
    /\ owner' = IF owner = c THEN NoConsumer ELSE owner
    /\ UNCHANGED <<log, committed, cache, processed, deadLetters, abandoned, recorded>>

-------------------------------------------------------------------------------
(* eachMessage *)

(* kafkajs calls eachMessage with the message at the position.              *)
Take(c) ==
    /\ con[c].joined /\ At(c, "idle") /\ Pos(c) < Len(log)
    /\ Goto(c, "decode")
    /\ UNCHANGED <<log, committed, owner, cache, processed, deadLetters,
                   abandoned, recorded, faults>>

(* decodeMsg, which the schema registry or JSON.parse may fail, then the    *)
(* heartbeat, whose errors are swallowed.                                   *)
DecodeMsg(c) ==
    /\ At(c, "decode")
    /\ \/ Goto(c, "check") /\ UNCHANGED faults
       \/ Goto(c, "deadLetter") /\ Fault("decode")
    /\ UNCHANGED <<log, committed, owner, cache, processed, deadLetters,
                   abandoned, recorded>>

(* RedisService.get() and set() throw the error of the driver again; a set  *)
(* whose answer was lost took effect.                                       *)
GetRejects == Fault("cache")
Set(offset) ==
    \/ /\ cache' = offset /\ recorded' = recorded \cup {offset}
       /\ UNCHANGED faults \/ Fault("cache")
    \/ Fault("cache") /\ UNCHANGED <<cache, recorded>>

(* Mutant: the offset is compared with < instead of <=.                     *)
CheckOffsetStrict(c) ==
    /\ At(c, "check")
    /\ IF Cached /\ Pos(c) < cache THEN Resolve(c) ELSE Goto(c, "run")
    /\ UNCHANGED <<log, committed, owner, cache, processed, deadLetters,
                   abandoned, recorded, faults>>

(* checkOffset: both an offset that is not above the cached one and an      *)
(* error of Redis make eachMessage return.                                  *)
CheckOffset(c) ==
    /\ At(c, "check")
    /\ \/ /\ Cached /\ Pos(c) <= cache
          /\ Resolve(c)
          /\ UNCHANGED <<abandoned, faults>>
       \/ /\ Cached /\ GetRejects
          /\ abandoned' = abandoned \cup {Pos(c)}
          /\ Resolve(c)
       \/ /\ ~(Cached /\ Pos(c) <= cache)
          /\ Goto(c, "run")
          /\ UNCHANGED <<abandoned, faults>>
    /\ UNCHANGED <<log, committed, owner, cache, processed, deadLetters, recorded>>

RunProcessor(c) ==
    /\ At(c, "run")
    /\ Goto(c, "running")
    /\ UNCHANGED <<log, committed, owner, cache, processed, deadLetters,
                   abandoned, recorded, faults>>

ProcessorResolves(c) ==
    /\ At(c, "running")
    /\ processed' = processed \cup {Pos(c)}
    /\ Goto(c, "record")
    /\ UNCHANGED <<log, committed, owner, cache, deadLetters, abandoned, recorded, faults>>

ProcessorRejects(c) ==
    /\ At(c, "running")
    /\ Goto(c, "deadLetter")
    /\ UNCHANGED <<log, committed, owner, cache, processed, deadLetters,
                   abandoned, recorded, faults>>

(* Mutant: the next offset is published, as a commit would.                 *)
PublishNextOffset(c) ==
    /\ At(c, "record")
    /\ IF Cached
       THEN cache' = Pos(c) + 1 /\ recorded' = recorded \cup {Pos(c)}
       ELSE UNCHANGED <<cache, recorded>>
    /\ Resolve(c)
    /\ UNCHANGED <<log, committed, owner, processed, deadLetters, abandoned, faults>>

(* publishOffset: a plain SET, whose error is swallowed.                    *)
PublishOffset(c) ==
    /\ At(c, "record")
    /\ IF Cached THEN Set(Pos(c)) ELSE UNCHANGED <<cache, recorded, faults>>
    /\ Resolve(c)
    /\ UNCHANGED <<log, committed, owner, processed, deadLetters, abandoned>>

(* Mutant: the message stays at the position, to be tried again.            *)
PublishToDlqRetries(c) ==
    /\ At(c, "deadLetter")
    /\ Goto(c, "idle")
    /\ UNCHANGED <<log, committed, owner, cache, processed, deadLetters,
                   abandoned, recorded, faults>>
(* Mutant: the failing message is not published.                            *)
PublishToDlqForgotten(c) ==
    /\ At(c, "deadLetter")
    /\ Resolve(c)
    /\ UNCHANGED <<log, committed, owner, cache, processed, deadLetters,
                   abandoned, recorded, faults>>

(* publishToDlq, whose error is swallowed.                                  *)
PublishToDlq(c) ==
    /\ At(c, "deadLetter")
    /\ \/ /\ DlqRequired
          /\ deadLetters' = deadLetters \cup {Pos(c)}
          /\ UNCHANGED <<abandoned, faults>>
       \/ /\ IF DlqRequired THEN Fault("broker") ELSE UNCHANGED faults
          /\ abandoned' = abandoned \cup {Pos(c)}
          /\ UNCHANGED deadLetters
    /\ Resolve(c)
    /\ UNCHANGED <<log, committed, owner, cache, processed, recorded>>

-------------------------------------------------------------------------------
EachMessage(c) ==
    \/ Take(c)
    \/ DecodeMsg(c)
    \/ CheckOffset(c)
    \/ RunProcessor(c)
    \/ ProcessorResolves(c)
    \/ ProcessorRejects(c)
    \/ PublishOffset(c)
    \/ PublishToDlq(c)

Next ==
    \/ \E m \in Messages : Produce(m)
    \/ \E c \in Consumers :
          Assign(c) \/ Expelled(c) \/ Commit(c) \/ Crash(c) \/ EachMessage(c)

Spec == Init /\ [][Next]_vars

(* A member handles what it was handed, and an unowned partition is given   *)
(* to a live member.                                                        *)
FairSpec ==
    /\ Spec
    /\ \A c \in Consumers : WF_vars(EachMessage(c)) /\ WF_vars(Expelled(c))
    /\ WF_vars(owner = NoConsumer /\ \E c \in Consumers : Assign(c))

-------------------------------------------------------------------------------
(* Properties *)

(* What the group has moved past was processed, dead-lettered or abandoned  *)
(* after an error: no crash, rebalance or stale member skips a message that *)
(* was never handled, because the offset is resolved after eachMessage.     *)
(* This is of a group that starts at the first message.                     *)
CommittedAreHandled == 0..(committed - 1) \subseteq Handled

(* The cached offset never hides an unhandled message from checkOffset,     *)
(* although a stale member may set it to any offset it finishes late.  This *)
(* too is of a group that starts at the first message.                      *)
CachedAreHandled == 0..cache \subseteq Handled

(* A partition of which a group starts at the first message is a queue that *)
(* handles its messages in the order of their offsets, and whose committed  *)
(* offset passes over none that was not handled.                            *)
Queue == INSTANCE MessageQueue WITH
    Names <- 0..(MaxMessages - 1), Ordered <- TRUE,
    published <- Offsets, handled <- Handled, removed <- 0..(committed - 1)
ImplementsQueue == Queue!Spec

(* A partition is handled in the order of its offsets, without gaps.        *)
HandledInOrder == \A o \in Handled : 0..o \subseteq Handled

(* Wherever a group starts, a commit moves it only over messages that were  *)
(* handled, its first one from where the member that commits has started.   *)
(* What was published before a new group's start is not its concern.        *)
CommitsAreHandled ==
    [][committed' # committed =>
          (IF committed >= 0 THEN committed ELSE con[owner].start)..(committed' - 1)
              \subseteq Handled]_vars

(* A message that checkOffset lets the owner of the partition skip, for the *)
(* cached offset is not below it, was handled, although the cache may be of *)
(* another member's making.                                                 *)
SkippedAreHandled ==
    [][\A c \in Consumers :
          /\ owner = c /\ At(c, "check")
          /\ con'[c].pos = Pos(c) + 1 /\ abandoned' = abandoned
          => Pos(c) \in Handled]_vars

(* Every message is handled, when errors and crashes do not go on forever.  *)
EveryMessageHandled ==
    \A o \in 0..(MaxMessages - 1) : o < Len(log) ~> o \in Handled

(* kafka-consumer-service.ts:190, "Message offset is less than the last     *)
(* consumed offset": an offset recorded as consumed is skipped when it is   *)
(* delivered again.                                                         *)
RecordedIsSkipped ==
    [][\A c \in Consumers :
          At(c, "check") /\ con'[c].pc = "run" => Pos(c) \notin recorded]_vars
===============================================================================
