---------------------- MODULE KafkaConsumerServiceProofs ----------------------
(***************************************************************************)
(* Proofs about KafkaConsumerService, for every group of consumers, every  *)
(* length of the partition and every bound on the faults.                  *)
(*                                                                         *)
(*   Typed      the types, and a message in hand is one of the log         *)
(*   NoneSkipped(b)  what the group, the cache and every member have passed *)
(*              was handled, from offset b on                              *)
(*   Based(b)   such a b, at or below which every start of a member lies   *)
(*   Alone, Rising  without rebalances, only the owner has joined, and the *)
(*              cached offset is the highest recorded                      *)
(*                                                                         *)
(* A member that is given the partition with no committed offset starts at *)
(* its end unless it asks for fromBeginning; what was published before is  *)
(* then never handled.  CommitsHandled and SkippedHandled are of every     *)
(* group, for its base b is where its first commit began; the theorems of  *)
(* everything from offset 0 on assume that the group starts there.         *)
(***************************************************************************)
EXTENDS KafkaConsumerService, TLAPS, SequenceTheorems

USE ConsumerAssumption DEF GetRejects, Set

(* The group starts at the first message.                                   *)
StartsAtFirst == FromBeginning \/ InitialCommitted = 0

-------------------------------------------------------------------------------
(* The shape of the steps *)

OthersKept(c) == \A d \in Consumers \ {c} : con'[d] = con[d]

LEMMA GotoForm ==
  ASSUME TypeOK, NEW c \in Consumers, NEW pc \in PC, Goto(c, pc)
  PROVE  /\ con' \in [Consumers -> Member] /\ OthersKept(c)
         /\ con'[c].pc = pc /\ con'[c].pos = con[c].pos
         /\ con'[c].joined = con[c].joined /\ con'[c].start = con[c].start
  BY DEF TypeOK, Goto, Member, OthersKept

LEMMA ResolveForm ==
  ASSUME TypeOK, NEW c \in Consumers, Resolve(c)
  PROVE  /\ con' \in [Consumers -> Member] /\ OthersKept(c)
         /\ con'[c].pc = "idle" /\ con'[c].pos = con[c].pos + 1
         /\ con'[c].joined = con[c].joined /\ con'[c].start = con[c].start
  <1>1. con[c] \in Member /\ con \in [Consumers -> Member]
      BY DEF TypeOK
  <1>2. con' = [con EXCEPT ![c].pc = "idle", ![c].pos = con[c].pos + 1]
      BY <1>1 DEF Resolve
  <1>3. con[c].pos + 1 \in Nat
      BY <1>1 DEF Member
  <1> QED
      BY <1>1, <1>2, <1>3 DEF Member, PC, OthersKept

LEMMA OutsideForm ==
  ASSUME TypeOK, NEW c \in Consumers, con' = [con EXCEPT ![c] = Outside]
  PROVE  /\ con' \in [Consumers -> Member] /\ OthersKept(c)
         /\ con'[c].pc = "idle" /\ con'[c].pos = 0
  <1>1. Outside \in Member /\ Outside.pc = "idle" /\ Outside.pos = 0
      BY DEF Outside, Member, PC
  <1> QED
      BY <1>1 DEF TypeOK, OthersKept

LEMMA StartOffsetType ==
  ASSUME TypeOK
  PROVE  StartOffset \in 0..Len(log)
  BY LenProperties DEF TypeOK, StartOffset

LEMMA StartOffsetIs ==
  ASSUME TypeOK
  PROVE  /\ committed >= 0 => StartOffset = committed
         /\ committed < 0 /\ FromBeginning => StartOffset = 0
         /\ committed < 0 /\ ~FromBeginning => StartOffset = Len(log)
  BY LenProperties DEF TypeOK, StartOffset

LEMMA StartOffsetThen ==
  ASSUME TypeOK'
  PROVE  /\ committed' >= 0 => StartOffset' = committed'
         /\ committed' < 0 /\ FromBeginning => StartOffset' = 0
         /\ committed' < 0 /\ ~FromBeginning => StartOffset' = Len(log')
  BY LenProperties DEF TypeOK, StartOffset

LEMMA AssignForm ==
  ASSUME TypeOK, NEW c \in Consumers, Assign(c)
  PROVE  /\ con' \in [Consumers -> Member] /\ OthersKept(c)
         /\ con'[c].pc = "idle" /\ con'[c].pos = StartOffset
         /\ con'[c].start = StartOffset
  <1> DEFINE m == [pc |-> "idle", joined |-> TRUE,
                   start |-> StartOffset, pos |-> StartOffset]
  <1>1. m \in Member /\ m.pc = "idle" /\ m.pos = StartOffset /\ m.start = StartOffset
      BY StartOffsetType, LenProperties DEF Member, PC, TypeOK
  <1>2. con' = [con EXCEPT ![c] = m]
      BY DEF Assign
  <1> HIDE DEF m
  <1> QED
      BY <1>1, <1>2 DEF TypeOK, OthersKept

-------------------------------------------------------------------------------
(* Types *)

InLog(c) == con[c].pc # "idle" => con[c].pos < Len(log)

Typed == TypeOK /\ \A c \in Consumers : InLog(c)

LEMMA InitTyped == Init => Typed
  <1> SUFFICES ASSUME Init PROVE Typed
      OBVIOUS
  <1>1. Outside \in Member /\ Outside.pc = "idle" /\ Outside.pos = 0
      BY DEF Outside, Member, PC
  <1>2. log \in Seq(Messages) /\ Len(log) = 0
      BY DEF Init
  <1>3. con \in [Consumers -> Member] /\ \A c \in Consumers : con[c] = Outside
      BY <1>1 DEF Init
  <1> QED
      BY <1>1, <1>2, <1>3 DEF Init, Typed, TypeOK, InLog, Handled, Offsets

LEMMA EachMessageTyped ==
  ASSUME Typed, NEW c \in Consumers, EachMessage(c)
  PROVE  Typed'
  <1> USE DEF Typed, At, Pos
  <1>0. /\ Len(log) \in Nat /\ con[c].pos \in 0..Len(log) /\ faults \in Nat
        /\ con[c].pc # "idle" => con[c].pos \in Offsets
      BY LenProperties DEF TypeOK, InLog, Offsets
  <1>1. log' = log /\ committed' = committed /\ owner' = owner
      BY DEF EachMessage, Take, DecodeMsg, CheckOffset, RunProcessor,
         ProcessorResolves, ProcessorRejects, PublishOffset, PublishToDlq
  <1>2. /\ con' \in [Consumers -> Member] /\ OthersKept(c)
        /\ con'[c].pos \in 0..Len(log)
        /\ con'[c].pc # "idle" => con'[c].pos < Len(log)
    <2>1. CASE Take(c)
        BY <1>0, <2>1, GotoForm DEF Take, PC
    <2>2. CASE DecodeMsg(c)
        BY <1>0, <2>2, GotoForm DEF DecodeMsg, PC, InLog
    <2>3. CASE CheckOffset(c)
        BY <1>0, <2>3, GotoForm, ResolveForm DEF CheckOffset, PC, InLog
    <2>4. CASE RunProcessor(c)
        BY <1>0, <2>4, GotoForm DEF RunProcessor, PC, InLog
    <2>5. CASE ProcessorResolves(c)
        BY <1>0, <2>5, GotoForm DEF ProcessorResolves, PC, InLog
    <2>6. CASE ProcessorRejects(c)
        BY <1>0, <2>6, GotoForm DEF ProcessorRejects, PC, InLog
    <2>7. CASE PublishOffset(c)
        BY <1>0, <2>7, ResolveForm DEF PublishOffset, InLog
    <2>8. CASE PublishToDlq(c)
        BY <1>0, <2>8, ResolveForm DEF PublishToDlq, InLog
    <2> QED
        BY <2>1, <2>2, <2>3, <2>4, <2>5, <2>6, <2>7, <2>8 DEF EachMessage
  <1>3. cache' \in {-1} \cup Offsets /\ recorded' \subseteq Offsets /\ faults' \in Nat
      BY <1>0 DEF TypeOK, EachMessage, Take, DecodeMsg, CheckOffset, RunProcessor,
         ProcessorResolves, ProcessorRejects, PublishOffset, PublishToDlq, Fault
  <1>4. processed' \cup deadLetters' \cup abandoned' \subseteq Offsets
      BY <1>0 DEF TypeOK, Handled, EachMessage, Take, DecodeMsg, CheckOffset,
         RunProcessor, ProcessorResolves, ProcessorRejects, PublishOffset, PublishToDlq
  <1>5. TypeOK'
      BY <1>1, <1>2, <1>3, <1>4 DEF TypeOK, Handled, Offsets, OthersKept
  <1> QED
      BY <1>1, <1>2, <1>5 DEF InLog, OthersKept

LEMMA NextTyped == Typed /\ [Next]_vars => Typed'
  <1> SUFFICES ASSUME Typed, [Next]_vars PROVE Typed'
      OBVIOUS
  <1> USE DEF Typed
  <1>0. Len(log) \in Nat /\ faults \in Nat
      BY LenProperties DEF TypeOK
  <1>1. CASE UNCHANGED vars
      BY <1>1 DEF TypeOK, Handled, Offsets, InLog, vars
  <1>2. ASSUME NEW m \in Messages, Produce(m) PROVE Typed'
    <2>1. log' \in Seq(Messages) /\ Len(log') = Len(log) + 1
        BY <1>2, AppendProperties DEF Produce, AppendMessage, TypeOK
    <2>2. TypeOK'
        BY <1>0, <1>2, <2>1 DEF Produce, AppendMessage, TypeOK, Handled, Offsets
    <2> QED
        BY <1>0, <1>2, <2>1, <2>2 DEF Produce, AppendMessage, InLog, TypeOK, Member
  <1>3. ASSUME NEW c \in Consumers, Assign(c) PROVE Typed'
    <2>1. con' \in [Consumers -> Member] /\ \A d \in Consumers : con'[d].pos \in 0..Len(log)
        BY <1>3, AssignForm, StartOffsetType DEF TypeOK, OthersKept
    <2>2. /\ owner' \in Consumers /\ faults' \in Nat
          /\ UNCHANGED <<log, committed, cache, processed, deadLetters, abandoned, recorded>>
        BY <1>0, <1>3 DEF Assign, Fault
    <2>3. TypeOK'
        BY <2>1, <2>2 DEF TypeOK, Handled, Offsets
    <2> QED
        BY <1>3, <2>2, <2>3, AssignForm DEF InLog, OthersKept
  <1>4. ASSUME NEW c \in Consumers, Expelled(c) \/ Crash(c) PROVE Typed'
    <2>1. con' = [con EXCEPT ![c] = Outside]
        BY <1>4 DEF Expelled, Crash
    <2>2. con' \in [Consumers -> Member] /\ \A d \in Consumers : con'[d].pos \in 0..Len(log)
      <3>1. con' \in [Consumers -> Member] /\ OthersKept(c) /\ con'[c].pos = 0
          BY <2>1, OutsideForm
      <3> QED
          BY <1>0, <3>1 DEF TypeOK, OthersKept
    <2>3. /\ owner' \in Consumers \cup {NoConsumer} /\ faults' \in Nat
          /\ UNCHANGED <<log, committed, cache, processed, deadLetters, abandoned, recorded>>
        BY <1>0, <1>4 DEF Expelled, Crash, Fault, TypeOK
    <2>4. TypeOK'
        BY <2>2, <2>3 DEF TypeOK, Handled, Offsets
    <2> QED
        BY <2>1, <2>3, <2>4, OutsideForm DEF InLog, OthersKept
  <1>5. ASSUME NEW c \in Consumers, Commit(c) PROVE Typed'
      BY <1>5 DEF Commit, Pos, TypeOK, Handled, Offsets, InLog
  <1> QED
      BY <1>1, <1>2, <1>3, <1>4, <1>5, EachMessageTyped DEF Next

(* Every variable keeps its type.                                           *)
THEOREM TypeCorrect == Spec => []TypeOK
  <1>1. Typed => TypeOK
      BY DEF Typed
  <1> QED
      BY InitTyped, NextTyped, <1>1, PTL DEF Spec

-------------------------------------------------------------------------------
(* Nothing is skipped *)

(* From offset b on, a member has handled, or found handled, all it has     *)
(* passed; before it records an offset its message was processed.           *)
Passed(b, c) ==
    /\ b..(con[c].pos - 1) \subseteq Handled
    /\ con[c].pc = "record" => con[c].pos \in processed

NoneSkipped(b) ==
    /\ b..(committed - 1) \subseteq Handled
    /\ b..cache \subseteq Handled
    /\ \A o \in Handled : b..o \subseteq Handled
    /\ \A c \in Consumers : Passed(b, c)

(* A member that is given the partition goes on where the group is.         *)
Resumes == committed >= 0 \/ FromBeginning

(* A step of eachMessage is the member's own.                               *)
LEMMA EachMessageKeeps ==
  ASSUME Typed, NEW c \in Consumers, EachMessage(c)
  PROVE  /\ log' = log /\ committed' = committed /\ owner' = owner /\ OthersKept(c)
         /\ con'[c].joined = con[c].joined /\ con'[c].start = con[c].start
         /\ con'[c].pos \in {con[c].pos, con[c].pos + 1}
  <1>1. log' = log /\ committed' = committed /\ owner' = owner
      BY DEF EachMessage, Take, DecodeMsg, CheckOffset, RunProcessor,
         ProcessorResolves, ProcessorRejects, PublishOffset, PublishToDlq
  <1>2. PICK pc \in PC : Goto(c, pc) \/ Resolve(c)
      BY DEF PC, EachMessage, Take, DecodeMsg, CheckOffset, RunProcessor,
         ProcessorResolves, ProcessorRejects, PublishOffset, PublishToDlq
  <1> QED
      BY <1>1, <1>2, GotoForm, ResolveForm DEF Typed

LEMMA CommittedGrows ==
  ASSUME Typed, [Next]_vars
  PROVE  committed' >= committed /\ committed \in Int /\ committed' \in Int
  <1>1. committed \in Int /\ committed' \in Int
      BY NextTyped, LenProperties DEF Typed, TypeOK
  <1>2. ASSUME NEW c \in Consumers, Commit(c) PROVE committed' >= committed
      BY <1>1, <1>2 DEF Commit, Pos, Typed, TypeOK, Member
  <1>3. CASE committed' = committed
      BY <1>1, <1>3
  <1> QED
      BY <1>1, <1>2, <1>3, EachMessageKeeps
      DEF Next, vars, Produce, AppendMessage, Assign, Expelled, Crash

(* What was handled stays handled, and what a member passes is handled: the *)
(* cached offset makes it skip a message only below b, or a handled one.    *)
LEMMA EachMessagePasses ==
  ASSUME NEW b \in Nat, Typed, NoneSkipped(b), NEW c \in Consumers, EachMessage(c)
  PROVE  /\ processed \subseteq processed' /\ Handled \subseteq Handled'
         /\ Handled' \subseteq Handled \cup {con[c].pos}
         /\ Passed(b, c)'
         /\ cache' # cache => cache' = con[c].pos /\ con[c].pos \in processed
  <1> USE DEF Typed, At, Pos, Handled
  <1>0. /\ con[c].pos \in Nat /\ cache \in Int /\ b..cache \subseteq Handled
        /\ b..(con[c].pos - 1) \subseteq Handled
        /\ con[c].pc = "record" => con[c].pos \in processed
      BY LenProperties DEF TypeOK, Member, Offsets, NoneSkipped, Passed
  <1>1. /\ processed \subseteq processed' /\ Handled \subseteq Handled'
        /\ Handled' \subseteq Handled \cup {con[c].pos}
        /\ cache' # cache => con[c].pc = "record" /\ cache' = con[c].pos
      BY DEF EachMessage, Take, DecodeMsg, CheckOffset, RunProcessor,
         ProcessorResolves, ProcessorRejects, PublishOffset, PublishToDlq
  <1>2. CASE /\ con'[c].pos = con[c].pos
             /\ con'[c].pc = "record" => con[c].pos \in processed'
      BY <1>0, <1>1, <1>2 DEF Passed
  <1>3. CASE /\ con'[c].pos = con[c].pos + 1 /\ con'[c].pc = "idle"
             /\ con[c].pos >= b => con[c].pos \in Handled'
      BY <1>0, <1>1, <1>3 DEF Passed
  <1>4. CASE Take(c) \/ RunProcessor(c)
      BY <1>2, <1>4, GotoForm DEF Take, RunProcessor, PC
  <1>5. CASE DecodeMsg(c)
      BY <1>2, <1>5, GotoForm DEF DecodeMsg, PC
  <1>6. CASE CheckOffset(c)
    <2>1. CASE con[c].pos <= cache /\ Resolve(c)
      <3>1. con[c].pos >= b => con[c].pos \in Handled
          BY <1>0, <2>1
      <3> QED
          BY <1>1, <1>3, <2>1, <3>1, ResolveForm
    <2>2. CASE abandoned' = abandoned \cup {con[c].pos} /\ Resolve(c)
        BY <1>3, <2>2, ResolveForm
    <2>3. CASE Goto(c, "run")
        BY <1>2, <2>3, GotoForm DEF PC
    <2> QED
        BY <1>6, <2>1, <2>2, <2>3 DEF CheckOffset
  <1>7. CASE ProcessorResolves(c)
      BY <1>2, <1>7, GotoForm DEF ProcessorResolves, PC
  <1>8. CASE ProcessorRejects(c)
      BY <1>2, <1>8, GotoForm DEF ProcessorRejects, PC
  <1>9. CASE PublishOffset(c)
      BY <1>0, <1>1, <1>3, <1>9, ResolveForm DEF PublishOffset
  <1>10. CASE PublishToDlq(c)
      BY <1>3, <1>10, ResolveForm DEF PublishToDlq
  <1>11. Passed(b, c)'
      BY <1>4, <1>5, <1>6, <1>7, <1>8, <1>9, <1>10 DEF EachMessage
  <1> QED
      BY <1>0, <1>1, <1>11

(* A step keeps that nothing was skipped from b on, unless a member is      *)
(* given the partition where the group has no place in it.                  *)
LEMMA NextNoneSkipped ==
  ASSUME NEW b \in Nat, Typed, NoneSkipped(b), [Next]_vars,
         Resumes \/ \A c \in Consumers : ~Assign(c)
  PROVE  NoneSkipped(b)'
  <1> USE DEF Typed, NoneSkipped
  <1>0. committed \in Int /\ cache \in Int
      BY LenProperties DEF TypeOK, Offsets
  <1>1. ASSUME UNCHANGED <<committed, con, cache, processed, deadLetters, abandoned>>
        PROVE  NoneSkipped(b)'
      BY <1>1 DEF Handled, Passed
  <1>2. ASSUME NEW c \in Consumers, EachMessage(c) PROVE NoneSkipped(b)'
    <2>1. committed' = committed /\ OthersKept(c)
        BY <1>2, EachMessageKeeps
    <2>2. /\ processed \subseteq processed' /\ Handled \subseteq Handled'
          /\ Handled' \subseteq Handled \cup {con[c].pos}
          /\ Passed(b, c)'
          /\ cache' # cache => cache' = con[c].pos /\ con[c].pos \in processed
        BY <1>2, EachMessagePasses
    <2>3. con[c].pos \in Nat /\ b..(con[c].pos - 1) \subseteq Handled
        BY DEF TypeOK, Member, Passed
    <2>4. b..(committed' - 1) \subseteq Handled'
        BY <2>1, <2>2
    <2>5. b..cache' \subseteq Handled'
      <3>1. CASE cache' = cache
          BY <2>2, <3>1
      <3>2. CASE cache' # cache
        <4>1. con[c].pos \in Handled'
            BY <2>2, <3>2 DEF Handled
        <4> QED
            BY <2>2, <2>3, <3>2, <4>1
      <3> QED
          BY <3>1, <3>2
    <2>6. ASSUME NEW o \in Handled' PROVE b..o \subseteq Handled'
      <3>1. CASE o \in Handled
          BY <2>2, <3>1
      <3>2. CASE o = con[c].pos
          BY <2>2, <2>3, <2>6, <3>2
      <3> QED
          BY <2>2, <2>6, <3>1, <3>2
    <2>7. ASSUME NEW d \in Consumers \ {c} PROVE Passed(b, d)'
        BY <2>1, <2>2 DEF OthersKept, Passed
    <2> QED
        BY <2>2, <2>4, <2>5, <2>6, <2>7
  <1>3. ASSUME NEW c \in Consumers, Assign(c) PROVE NoneSkipped(b)'
    <2>1. UNCHANGED <<committed, cache, processed, deadLetters, abandoned>>
        BY <1>3 DEF Assign
    <2>2. b..(StartOffset - 1) \subseteq Handled
        BY <1>0, <1>3, StartOffsetIs DEF Resumes
    <2>3. \A d \in Consumers : Passed(b, d)'
        BY <1>3, <2>1, <2>2, AssignForm DEF OthersKept, Passed, Handled
    <2> QED
        BY <2>1, <2>3 DEF Handled
  <1>4. ASSUME NEW c \in Consumers, Expelled(c) \/ Crash(c) PROVE NoneSkipped(b)'
    <2>1. /\ UNCHANGED <<committed, cache, processed, deadLetters, abandoned>>
          /\ con' = [con EXCEPT ![c] = Outside]
        BY <1>4 DEF Expelled, Crash
    <2>2. \A d \in Consumers : Passed(b, d)'
      <3>1. OthersKept(c) /\ con'[c].pos = 0 /\ con'[c].pc = "idle"
          BY <2>1, OutsideForm
      <3> QED
          BY <2>1, <3>1 DEF OthersKept, Passed, Handled
    <2> QED
        BY <2>1, <2>2 DEF Handled
  <1>5. ASSUME NEW c \in Consumers, Commit(c) PROVE NoneSkipped(b)'
    <2>1. /\ UNCHANGED <<con, cache, processed, deadLetters, abandoned>>
          /\ committed' = con[c].pos /\ con[c].pos \in Nat
        BY <1>5 DEF Commit, Pos, TypeOK, Member
    <2> QED
        BY <2>1 DEF Handled, Passed
  <1>6. ASSUME NEW m \in Messages, Produce(m) PROVE NoneSkipped(b)'
      BY <1>1, <1>6 DEF Produce, AppendMessage
  <1> QED
      BY <1>1, <1>2, <1>3, <1>4, <1>5, <1>6 DEF Next, vars

LEMMA InitNoneSkipped ==
  ASSUME Init
  PROVE  NoneSkipped(0)
  <1>1. \A c \in Consumers : con[c].pc = "idle" /\ con[c].pos = 0
      BY DEF Init, Outside
  <1>2. committed \in {-1, 0} /\ cache = -1 /\ Handled = {}
      BY DEF Init, Handled
  <1> QED
      BY <1>1, <1>2 DEF NoneSkipped, Passed

(* A group that starts at the first message skips none of the partition.    *)
LEMMA NoneSkippedInvariant ==
  ASSUME StartsAtFirst
  PROVE  Spec => [](NoneSkipped(0) /\ Resumes)
  <1>1. Init => NoneSkipped(0) /\ Resumes
      BY InitNoneSkipped DEF Init, StartsAtFirst, Resumes
  <1>2. Typed /\ NoneSkipped(0) /\ Resumes /\ [Next]_vars => (NoneSkipped(0) /\ Resumes)'
    <2> SUFFICES ASSUME Typed, NoneSkipped(0), Resumes, [Next]_vars
                 PROVE  NoneSkipped(0)' /\ Resumes'
        OBVIOUS
    <2>1. NoneSkipped(0)'
        BY NextNoneSkipped
    <2>2. Resumes'
        BY CommittedGrows DEF Resumes
    <2> QED
        BY <2>1, <2>2
  <1> QED
      BY InitTyped, NextTyped, <1>1, <1>2, PTL DEF Spec

(* Whatever crashes and moves, the group never commits past a message that  *)
(* was neither processed, dead-lettered nor given up after an error.        *)
THEOREM CommittedHandled ==
  ASSUME StartsAtFirst
  PROVE  Spec => []CommittedAreHandled
  <1>1. NoneSkipped(0) => CommittedAreHandled
      BY DEF NoneSkipped, CommittedAreHandled
  <1> QED
      BY NoneSkippedInvariant, <1>1, PTL

(* The cached offset hides handled messages only.                           *)
THEOREM CachedHandled ==
  ASSUME StartsAtFirst
  PROVE  Spec => []CachedAreHandled
  <1>1. NoneSkipped(0) => CachedAreHandled
      BY DEF NoneSkipped, CachedAreHandled
  <1> QED
      BY NoneSkippedInvariant, <1>1, PTL

(* Messages are handled in the order of the partition.                      *)
THEOREM InOrder ==
  ASSUME StartsAtFirst
  PROVE  Spec => []HandledInOrder
  <1>1. NoneSkipped(0) => HandledInOrder
      BY DEF NoneSkipped, HandledInOrder
  <1> QED
      BY NoneSkippedInvariant, <1>1, PTL

(* A step of eachMessage handles the message at its position, or none, and  *)
(* all before it were handled.                                              *)
LEMMA EachMessageHandles ==
  ASSUME Typed, NoneSkipped(0), NEW c \in Consumers, EachMessage(c)
  PROVE  [Queue!Next]_(Queue!vars)
  <1> DEFINE o == con[c].pos
  <1>1. log' = log /\ committed' = committed
      BY EachMessageKeeps
  <1>2. Offsets' = Offsets /\ (0..(committed - 1))' = 0..(committed - 1)
      BY <1>1 DEF Offsets
  <1>3. Handled \subseteq Handled' /\ Handled' \subseteq Handled \cup {o}
      BY EachMessagePasses
  <1>4. 0..(o - 1) \subseteq Handled
      BY DEF NoneSkipped, Passed
  <1>5. Handled' \subseteq Offsets
      BY <1>2, NextTyped DEF Next, Typed, TypeOK
  <1> HIDE DEF o
  <1>6. CASE Handled' = Handled
      BY <1>2, <1>6 DEF Queue!vars
  <1>7. CASE Handled' # Handled
    <2>1. Handled' = Handled \cup {o} /\ o \in Offsets
        BY <1>3, <1>5, <1>7
    <2>2. Queue!Handle(o)
        BY <1>2, <1>4, <2>1 DEF Queue!Handle, Queue!Before
    <2> QED
        BY <2>1, <2>2 DEF Queue!Next
  <1> QED
      BY <1>6, <1>7

LEMMA NextIsQueueStep ==
  ASSUME Typed, NoneSkipped(0), [Next]_vars
  PROVE  [Queue!Next]_(Queue!vars)
  <1> USE DEF Typed
  <1>1. ASSUME UNCHANGED <<log, committed, processed, deadLetters, abandoned>>
        PROVE  [Queue!Next]_(Queue!vars)
      BY <1>1 DEF Queue!vars, Offsets, Handled
  <1>2. ASSUME NEW m \in Messages, Produce(m) PROVE [Queue!Next]_(Queue!vars)
    <2> DEFINE o == Len(log)
    <2>1. o \in Nat /\ o < MaxMessages /\ Len(log') = o + 1
        BY <1>2, LenProperties, AppendProperties DEF Produce, AppendMessage, TypeOK
    <2>2. Offsets = 0..(o - 1) /\ Offsets' = 0..(o + 1 - 1)
        BY <2>1 DEF Offsets
    <2>3. /\ o \in 0..(MaxMessages - 1) /\ o \notin Offsets /\ 0..(o - 1) \subseteq Offsets
          /\ Offsets' = Offsets \cup {o}
      <3> HIDE DEF o
      <3> QED
          BY <2>1, <2>2
    <2>4. Handled' = Handled /\ (0..(committed - 1))' = 0..(committed - 1)
        BY <1>2 DEF Produce, AppendMessage, Handled
    <2> HIDE DEF o
    <2>5. Queue!Publish(o)
        BY <2>3, <2>4 DEF Queue!Publish, Queue!Before
    <2> QED
        BY <2>3, <2>5 DEF Queue!Next
  <1>3. ASSUME NEW c \in Consumers, Commit(c) PROVE [Queue!Next]_(Queue!vars)
    <2> DEFINE M == 0..(con[c].pos - 1)
    <2>1. committed \in Int /\ con[c].pos \in Nat /\ con[c].pos > committed
        BY <1>3, LenProperties DEF Commit, Pos, TypeOK, Member
    <2>2. /\ committed' = con[c].pos
          /\ UNCHANGED <<log, processed, deadLetters, abandoned>>
        BY <1>3 DEF Commit, Pos
    <2>3. M \in SUBSET Handled
        BY DEF NoneSkipped, Passed
    <2>4. (0..(committed - 1))' = (0..(committed - 1)) \cup M
        BY <2>1, <2>2
    <2>5. \A m \in M : 0..(m - 1) \subseteq (0..(committed - 1))'
        BY <2>1, <2>2
    <2>6. Offsets' = Offsets /\ Handled' = Handled
        BY <2>2 DEF Offsets, Handled
    <2> HIDE DEF M
    <2>7. Queue!Remove(M)
        BY <2>4, <2>5, <2>6 DEF Queue!Remove, Queue!Before
    <2> QED
        BY <2>3, <2>7 DEF Queue!Next
  <1>4. ASSUME NEW c \in Consumers, Assign(c) \/ Expelled(c) \/ Crash(c)
        PROVE  [Queue!Next]_(Queue!vars)
      BY <1>1, <1>4 DEF Assign, Expelled, Crash
  <1>5. CASE UNCHANGED vars
      BY <1>1, <1>5 DEF vars
  <1> QED
      BY <1>2, <1>3, <1>4, <1>5, EachMessageHandles DEF Next

(* The consumers of a group that starts at the first message, with all the  *)
(* crashes, rebalances and faults there may be, are a queue that handles a  *)
(* partition in order and removes only what was handled (the handler of     *)
(* kafka-consumer-service.ts:76).                                           *)
THEOREM QueueImplemented ==
  ASSUME StartsAtFirst
  PROVE  Spec => ImplementsQueue
  <1>1. Init => Queue!Init
    <2> SUFFICES ASSUME Init PROVE Queue!Init
        OBVIOUS
    <2>1. Len(log) = 0 /\ committed \in {-1, 0} /\ Handled = {}
        BY DEF Init, Handled
    <2> QED
        BY <2>1 DEF Queue!Init, Offsets
  <1>2. Typed /\ NoneSkipped(0) /\ Resumes /\ [Next]_vars => [Queue!Next]_(Queue!vars)
      BY NextIsQueueStep
  <1> QED
      BY InitTyped, NextTyped, NoneSkippedInvariant, <1>1, <1>2, PTL
      DEF Spec, ImplementsQueue, Queue!Spec

-------------------------------------------------------------------------------
(* A group that may start at the end                                        *)

(* Without a committed offset every new owner starts at the end of the      *)
(* partition, beyond whatever earlier ones did.  There is an offset b that  *)
(* no owner starts below and from which on nothing was skipped: it moves to *)
(* the end with such an owner, and stays once something was committed.      *)
Based(b) ==
    /\ b <= StartOffset
    /\ owner # NoConsumer => b <= con[owner].start /\ b <= con[owner].pos

HasBase == \E b \in 0..Len(log) : NoneSkipped(b) /\ Based(b)

LEMMA InitHasBase == Init => HasBase
  <1> SUFFICES ASSUME Init PROVE HasBase
      OBVIOUS
  <1>1. TypeOK
      BY InitTyped DEF Typed
  <1>2. NoneSkipped(0) /\ owner = NoConsumer /\ 0 \in 0..Len(log)
      BY <1>1, InitNoneSkipped, LenProperties DEF Init, TypeOK
  <1>3. Based(0)
      BY <1>1, <1>2, StartOffsetType, LenProperties DEF Based, TypeOK
  <1> QED
      BY <1>2, <1>3 DEF HasBase

(* Such a base stays one, unless an owner starts at the end.                *)
LEMMA NextBased ==
  ASSUME Typed, NEW b \in 0..Len(log), NoneSkipped(b), Based(b), [Next]_vars,
         Resumes \/ \A c \in Consumers : ~Assign(c)
  PROVE  b \in 0..Len(log') /\ Based(b)'
  <1> USE DEF Typed
  <1>0. /\ TypeOK /\ TypeOK' /\ Len(log) \in Nat /\ committed \in Int
        /\ con \in [Consumers -> Member] /\ owner \in Consumers \cup {NoConsumer}
      BY NextTyped, LenProperties DEF TypeOK
  <1>1. ASSUME log' = log, committed' = committed, owner' = owner,
               owner # NoConsumer => /\ con'[owner].start = con[owner].start
                                     /\ con'[owner].pos \in {con[owner].pos, con[owner].pos + 1}
        PROVE  b \in 0..Len(log') /\ Based(b)'
    <2>1. StartOffset' = StartOffset
        BY <1>1 DEF StartOffset
    <2>2. owner # NoConsumer => con[owner].pos \in Nat
        BY <1>0 DEF Member
    <2> QED
        BY <1>1, <2>1, <2>2 DEF Based
  <1>2. ASSUME NEW c \in Consumers, EachMessage(c) PROVE b \in 0..Len(log') /\ Based(b)'
    <2>1. /\ OthersKept(c) /\ con'[c].start = con[c].start
          /\ con'[c].pos \in {con[c].pos, con[c].pos + 1}
          /\ log' = log /\ committed' = committed /\ owner' = owner
        BY <1>2, EachMessageKeeps
    <2>2. owner # NoConsumer => /\ con'[owner].start = con[owner].start
                                /\ con'[owner].pos \in {con[owner].pos, con[owner].pos + 1}
        BY <1>0, <2>1 DEF OthersKept
    <2> QED
        BY <1>1, <2>1, <2>2
  <1>3. ASSUME NEW c \in Consumers, Assign(c) PROVE b \in 0..Len(log') /\ Based(b)'
    <2>1. log' = log /\ committed' = committed /\ owner' = c
        BY <1>3 DEF Assign
    <2>2. con'[c].start = StartOffset /\ con'[c].pos = StartOffset
        BY <1>0, <1>3, AssignForm
    <2>3. StartOffset' = StartOffset
        BY <2>1 DEF StartOffset
    <2> QED
        BY <2>1, <2>2, <2>3 DEF Based
  <1>4. ASSUME NEW c \in Consumers, Expelled(c) \/ Crash(c)
        PROVE  b \in 0..Len(log') /\ Based(b)'
    <2>1. /\ log' = log /\ committed' = committed
          /\ con' = [con EXCEPT ![c] = Outside]
          /\ owner' = NoConsumer \/ (owner' = owner /\ owner # c)
        BY <1>4 DEF Expelled, Crash
    <2>2. OthersKept(c)
        BY <1>0, <2>1, OutsideForm
    <2>3. StartOffset' = StartOffset
        BY <2>1 DEF StartOffset
    <2>4. owner' # NoConsumer => con'[owner'] = con[owner] /\ owner # NoConsumer
        BY <1>0, <2>1, <2>2 DEF OthersKept
    <2> QED
        BY <2>1, <2>3, <2>4 DEF Based
  <1>5. ASSUME NEW c \in Consumers, Commit(c) PROVE b \in 0..Len(log') /\ Based(b)'
    <2>1. /\ log' = log /\ owner' = owner /\ con' = con /\ owner = c
          /\ committed' = con[c].pos /\ con[c].pos > con[c].start
        BY <1>5 DEF Commit, Pos
    <2>2. con[c].pos \in Nat /\ con[c].start \in Nat
        BY <1>0 DEF Member
    <2>3. StartOffset' = con[c].pos
        BY <1>0, <2>1, <2>2, StartOffsetThen
    <2>4. c # NoConsumer
        BY ConsumerAssumption
    <2> QED
        BY <2>1, <2>2, <2>3, <2>4 DEF Based
  <1>6. ASSUME NEW m \in Messages, Produce(m) PROVE b \in 0..Len(log') /\ Based(b)'
    <2>1. /\ committed' = committed /\ owner' = owner /\ con' = con
          /\ Len(log') = Len(log) + 1
        BY <1>0, <1>6, AppendProperties DEF Produce, AppendMessage, TypeOK
    <2>2. b <= StartOffset'
        BY <1>0, <2>1, StartOffsetIs, StartOffsetThen DEF Based
    <2> QED
        BY <1>0, <2>1, <2>2 DEF Based
  <1>7. CASE UNCHANGED vars
      BY <1>1, <1>7 DEF vars
  <1> QED
      BY <1>2, <1>3, <1>4, <1>5, <1>6, <1>7 DEF Next

LEMMA NextHasBase == Typed /\ HasBase /\ [Next]_vars => HasBase'
  <1> SUFFICES ASSUME Typed, HasBase, [Next]_vars PROVE HasBase'
      OBVIOUS
  <1>1. PICK b \in 0..Len(log) : NoneSkipped(b) /\ Based(b)
      BY DEF HasBase
  <1>2. Len(log) \in Nat /\ b \in Nat
      BY LenProperties DEF Typed, TypeOK
  <1>3. CASE Resumes \/ \A c \in Consumers : ~Assign(c)
    <2>1. NoneSkipped(b)'
        BY <1>1, <1>2, <1>3, NextNoneSkipped
    <2>2. b \in 0..Len(log') /\ Based(b)'
        BY <1>1, <1>3, NextBased
    <2> QED
        BY <2>1, <2>2 DEF HasBase
  <1>4. ASSUME ~Resumes, NEW c \in Consumers, Assign(c) PROVE HasBase'
    <2>1. PICK e \in Nat : e = Len(log)
        BY <1>2
    <2>2. /\ UNCHANGED <<log, committed, cache, processed, deadLetters, abandoned>>
          /\ owner' = c
        BY <1>4 DEF Assign
    <2>3. /\ committed < 0 /\ cache \in Int /\ cache < e
          /\ \A o \in Handled : o \in Nat /\ o < e
      <3>1. committed < 0
          BY <1>4 DEF Resumes, Typed, TypeOK
      <3>2. cache \in {-1} \cup Offsets /\ Handled \subseteq Offsets
          BY DEF Typed, TypeOK
      <3> QED
          BY <2>1, <3>1, <3>2 DEF Offsets
    <2>4. StartOffset = e
        BY <1>4, <2>1, <2>3, StartOffsetIs DEF Resumes, Typed
    <2>5. StartOffset' = e
        BY <2>2, <2>4 DEF StartOffset
    <2>6. /\ OthersKept(c) /\ con'[c].pc = "idle" /\ con'[c].pos = e /\ con'[c].start = e
        BY <1>4, <2>4, AssignForm DEF Typed
    <2>7. \A d \in Consumers :
             /\ con'[d].pos \in Nat /\ con'[d].pos <= e
             /\ con'[d].pc = "record" => con'[d].pos \in processed'
      <3>1. \A d \in Consumers :
               /\ con[d].pos \in Nat /\ con[d].pos <= e
               /\ con[d].pc = "record" => con[d].pos \in processed
          BY <1>1, <2>1 DEF Typed, TypeOK, NoneSkipped, Passed
      <3> QED
          BY <2>2, <2>6, <3>1 DEF OthersKept
    <2>8. NoneSkipped(e)'
      <3>1. Handled' = Handled
          BY <2>2 DEF Handled
      <3>2. committed' \in Int /\ committed' < 0 /\ cache' = cache
          BY <2>2, <2>3 DEF Typed, TypeOK
      <3>3. \A d \in Consumers : Passed(e, d)'
          BY <2>7, <3>1 DEF Passed
      <3>4. e..(committed' - 1) \subseteq Handled'
        <4>1. PICK n : n = committed'
            OBVIOUS
        <4>2. n \in Int /\ n < 0
            BY <3>2, <4>1, Zenon
        <4>3. e..(n - 1) \subseteq Handled'
            BY <4>2
        <4> QED
            BY <4>1, <4>3, Zenon
      <3>5. e..cache' \subseteq Handled'
          BY <2>3, <3>2
      <3>6. \A o \in Handled' : e..o \subseteq Handled'
          BY <2>3, <3>1
      <3> QED
          BY <3>3, <3>4, <3>5, <3>6 DEF NoneSkipped
    <2>9. Based(e)'
        BY <2>2, <2>5, <2>6 DEF Based
    <2>10. e \in 0..Len(log')
        BY <2>1, <2>2
    <2> QED
        BY <2>8, <2>9, <2>10 DEF HasBase
  <1> QED
      BY <1>3, <1>4

(* Wherever a group starts, and however its members crash and overlap, no   *)
(* commit passes over a message that was not handled.                       *)
THEOREM CommitsHandled == Spec => CommitsAreHandled
  <1>1. ASSUME Typed, HasBase, [Next]_vars, committed' # committed
        PROVE  (IF committed >= 0 THEN committed ELSE con[owner].start)..(committed' - 1)
                  \subseteq Handled
    <2>1. PICK b \in 0..Len(log) : NoneSkipped(b) /\ Based(b)
        BY <1>1 DEF HasBase
    <2>2. PICK c \in Consumers : Commit(c)
        BY <1>1, EachMessageKeeps
        DEF Next, vars, Produce, AppendMessage, Assign, Expelled, Crash
    <2>3. owner = c /\ committed' = con[c].pos /\ c # NoConsumer
        BY <2>2 DEF Commit, Pos
    <2>4. /\ con[c].pos \in Nat /\ con[c].start \in Nat /\ committed \in Int /\ b \in Nat
          /\ b..(con[c].pos - 1) \subseteq Handled
        BY <1>1, <2>1, LenProperties DEF Typed, TypeOK, Member, NoneSkipped, Passed
    <2>5. committed >= 0 => b <= committed
        BY <1>1, <2>1, StartOffsetIs DEF Based, Typed
    <2>6. b <= con[c].start
        BY <2>1, <2>3 DEF Based
    <2> QED
        BY <2>3, <2>4, <2>5, <2>6
  <1>2. Typed /\ HasBase /\ [Next]_vars =>
           [committed' # committed =>
              (IF committed >= 0 THEN committed ELSE con[owner].start)..(committed' - 1)
                 \subseteq Handled]_vars
      BY <1>1
  <1> QED
      BY InitTyped, NextTyped, InitHasBase, NextHasBase, <1>2, PTL DEF Spec, CommitsAreHandled
(* The owner of a partition skips only what was handled: the cached offset, *)
(* which may be of a member that lost the partition, misleads no one.       *)
THEOREM SkippedHandled == Spec => SkippedAreHandled
  <1>1. ASSUME Typed, HasBase, [Next]_vars, NEW c \in Consumers,
               owner = c, At(c, "check"), con'[c].pos = Pos(c) + 1, abandoned' = abandoned
        PROVE  Pos(c) \in Handled
    <2>1. PICK b \in 0..Len(log) : NoneSkipped(b) /\ Based(b)
        BY <1>1 DEF HasBase
    <2>2. con[c].pos \in Nat /\ b \in Nat /\ cache \in Int
        BY <1>1, <2>1, LenProperties DEF Typed, TypeOK, Member, Offsets
    <2>3. CheckOffset(c)
      <3>1. ASSUME NEW d \in Consumers, Assign(d) \/ Expelled(d) \/ Crash(d) PROVE FALSE
        <4>1. OthersKept(d) /\ con'[d].pc = "idle"
            BY <1>1, <3>1, AssignForm, OutsideForm DEF Expelled, Crash, Typed
        <4>2. d = c => Crash(c)
            BY <1>1, <3>1 DEF Assign, Expelled, At
        <4>3. d = c => con'[c].pos = 0
            BY <1>1, <4>2, OutsideForm DEF Crash, Typed
        <4> QED
            BY <1>1, <2>2, <4>1, <4>3 DEF OthersKept, Pos
      <3>2. ASSUME NEW d \in Consumers, EachMessage(d) PROVE d = c
          BY <1>1, <2>2, <3>2, EachMessageKeeps DEF OthersKept, Pos
      <3>3. con' # con
          BY <1>1, <2>2 DEF Pos
      <3>4. EachMessage(c)
          BY <1>1, <3>1, <3>2, <3>3 DEF Next, vars, Produce, AppendMessage, Commit
      <3> QED
          BY <1>1, <3>4 DEF EachMessage, At, Take, DecodeMsg, RunProcessor,
             ProcessorResolves, ProcessorRejects, PublishOffset, PublishToDlq
    <2>4. CASE con[c].pos <= cache
      <3>1. b <= con[c].pos /\ b..cache \subseteq Handled
          BY <1>1, <2>1 DEF Based, NoneSkipped
      <3> QED
          BY <2>2, <2>4, <3>1 DEF Pos
    <2>5. CASE abandoned' = abandoned \cup {Pos(c)}
        BY <1>1, <2>5 DEF Handled
    <2>6. CASE Goto(c, "run")
        BY <1>1, <2>2, <2>6, GotoForm DEF Typed, Pos, PC
    <2> QED
        BY <2>3, <2>4, <2>5, <2>6 DEF CheckOffset, Pos
  <1>2. Typed /\ HasBase /\ [Next]_vars =>
           [\A c \in Consumers :
               /\ owner = c /\ At(c, "check")
               /\ con'[c].pos = Pos(c) + 1 /\ abandoned' = abandoned
               => Pos(c) \in Handled]_vars
      BY <1>1
  <1> QED
      BY InitTyped, NextTyped, InitHasBase, NextHasBase, <1>2, PTL DEF Spec, SkippedAreHandled

-------------------------------------------------------------------------------
(* What was recorded is skipped                                             *)

(* Without rebalances no member works on a partition that moved: the one    *)
(* that joined is the owner.  Then the cached offset is the highest that    *)
(* was recorded, and stays below the message that passed checkOffset.       *)
WithoutRebalance == "rebalance" \notin FaultKinds

Alone ==
    \A c \in Consumers :
        /\ con[c].joined => owner = c
        /\ con[c].pc # "idle" => con[c].joined

Rising ==
    /\ \A o \in recorded : Cached /\ o <= cache
    /\ \A c \in Consumers :
          con[c].pc \in {"run", "running", "record"} /\ Cached => cache < con[c].pos

LEMMA InitRising == Init => Alone /\ Rising
  BY DEF Init, Outside, Alone, Rising

(* A step of eachMessage keeps the membership, and only one that publishes  *)
(* its offset changes the cache.                                            *)
LEMMA EachMessageForm ==
  ASSUME Typed, NEW c \in Consumers, EachMessage(c)
  PROVE  /\ OthersKept(c) /\ con'[c].joined = con[c].joined /\ owner' = owner
         /\ con[c].pc = "idle" => con[c].joined
         /\ con'[c].pc \in {"run", "running", "record"} =>
               /\ con'[c].pos = con[c].pos
               /\ \/ con[c].pc \in {"run", "running"}
                  \/ con[c].pc = "check" /\ ~(Cached /\ con[c].pos <= cache)
         /\ \/ UNCHANGED <<cache, recorded>>
            \/ /\ Cached /\ con[c].pc = "record"
               /\ cache' = con[c].pos /\ recorded' = recorded \cup {con[c].pos}
  <1> USE DEF Typed, At, Pos
  <1>0. con \in [Consumers -> Member] /\ con[c] \in Member
      BY DEF TypeOK
  <1>1. ASSUME NEW pc \in PC, Goto(c, pc)
        PROVE  con'[c].joined = con[c].joined
      BY <1>0, <1>1 DEF Goto, Member
  <1>2. ASSUME Resolve(c) PROVE con'[c].joined = con[c].joined
      BY <1>0, <1>2 DEF Resolve, Member
  <1>3. CASE Take(c)
      BY <1>1, <1>3, GotoForm DEF Take, PC
  <1>4. CASE DecodeMsg(c)
      BY <1>1, <1>4, GotoForm DEF DecodeMsg, PC
  <1>5. CASE CheckOffset(c)
      BY <1>1, <1>2, <1>5, GotoForm, ResolveForm DEF CheckOffset, PC
  <1>6. CASE RunProcessor(c)
      BY <1>1, <1>6, GotoForm DEF RunProcessor, PC
  <1>7. CASE ProcessorResolves(c)
      BY <1>1, <1>7, GotoForm DEF ProcessorResolves, PC
  <1>8. CASE ProcessorRejects(c)
      BY <1>1, <1>8, GotoForm DEF ProcessorRejects, PC
  <1>9. CASE PublishOffset(c)
      BY <1>2, <1>9, ResolveForm DEF PublishOffset
  <1>10. CASE PublishToDlq(c)
      BY <1>2, <1>10, ResolveForm DEF PublishToDlq
  <1> QED
      BY <1>3, <1>4, <1>5, <1>6, <1>7, <1>8, <1>9, <1>10 DEF EachMessage

LEMMA NextRising ==
  ASSUME WithoutRebalance
  PROVE  Typed /\ Alone /\ Rising /\ [Next]_vars => Alone' /\ Rising'
  <1> SUFFICES ASSUME Typed, Alone, Rising, [Next]_vars PROVE Alone' /\ Rising'
      OBVIOUS
  <1>0. TypeOK /\ recorded \subseteq Nat /\ cache \in Int
      BY LenProperties DEF Typed, TypeOK, Offsets
  <1>1. CASE UNCHANGED <<con, owner, cache, recorded>>
      BY <1>1 DEF Alone, Rising
  <1>2. ASSUME NEW c \in Consumers, EachMessage(c) PROVE Alone' /\ Rising'
    <2>1. /\ OthersKept(c) /\ con'[c].joined = con[c].joined /\ owner' = owner
          /\ con[c].pc = "idle" => con[c].joined
          /\ con'[c].pc \in {"run", "running", "record"} =>
                /\ con'[c].pos = con[c].pos
                /\ \/ con[c].pc \in {"run", "running"}
                   \/ con[c].pc = "check" /\ ~(Cached /\ con[c].pos <= cache)
          /\ \/ UNCHANGED <<cache, recorded>>
             \/ /\ Cached /\ con[c].pc = "record"
                /\ cache' = con[c].pos /\ recorded' = recorded \cup {con[c].pos}
        BY <1>2, EachMessageForm
    <2>2. con[c].pos \in Nat
        BY <1>0 DEF TypeOK, Member
    <2>3. Alone'
        BY <2>1 DEF Alone, OthersKept
    <2>4. \A d \in Consumers \ {c} : con[d].pc = "idle" /\ con'[d].pc = "idle"
        BY <2>1 DEF Alone, OthersKept
    <2>5. \A o \in recorded' : Cached /\ o <= cache'
        BY <1>0, <2>1, <2>2 DEF Rising
    <2>6. con'[c].pc \in {"run", "running", "record"} /\ Cached => cache' < con'[c].pos
        BY <1>0, <2>1, <2>2 DEF Rising
    <2> QED
        BY <2>3, <2>4, <2>5, <2>6 DEF Rising
  <1>3. ASSUME NEW c \in Consumers, Assign(c) PROVE Alone' /\ Rising'
    <2>1. owner = NoConsumer /\ owner' = c /\ cache' = cache /\ recorded' = recorded
        BY <1>3 DEF Assign, Fault, WithoutRebalance
    <2>2. OthersKept(c) /\ con'[c].pc = "idle"
        BY <1>0, <1>3, AssignForm
    <2>3. \A d \in Consumers : ~con[d].joined /\ con[d].pc = "idle"
        BY <2>1 DEF Alone
    <2> QED
        BY <2>1, <2>2, <2>3 DEF Alone, Rising, OthersKept
  <1>4. ASSUME NEW c \in Consumers, Expelled(c) \/ Crash(c) PROVE Alone' /\ Rising'
    <2>1. /\ con' = [con EXCEPT ![c] = Outside] /\ cache' = cache /\ recorded' = recorded
          /\ owner' = owner \/ (owner = c /\ owner' = NoConsumer)
        BY <1>4 DEF Expelled, Crash
    <2>2. /\ OthersKept(c) /\ con'[c].pc = "idle" /\ ~con'[c].joined
        BY <1>0, <2>1 DEF OthersKept, Outside, TypeOK
    <2> QED
        BY <2>1, <2>2 DEF Alone, Rising, OthersKept
  <1>5. ASSUME NEW c \in Consumers, Commit(c) PROVE Alone' /\ Rising'
      BY <1>1, <1>5 DEF Commit
  <1>6. ASSUME NEW m \in Messages, Produce(m) PROVE Alone' /\ Rising'
      BY <1>1, <1>6 DEF Produce, AppendMessage
  <1> QED
      BY <1>1, <1>2, <1>3, <1>4, <1>5, <1>6 DEF Next, vars

(* kafka-consumer-service.ts:190: in a group whose members never overlap,   *)
(* no message is processed again after its offset was recorded, whatever    *)
(* crashes, and although a crash loses what was not yet committed.          *)
THEOREM RecordedSkipped ==
  ASSUME WithoutRebalance
  PROVE  Spec => RecordedIsSkipped
  <1>1. ASSUME Typed, Rising, [Next]_vars, NEW c \in Consumers,
               At(c, "check"), con'[c].pc = "run"
        PROVE  Pos(c) \notin recorded
    <2>1. CASE EachMessage(c)
      <3>1. ~(Cached /\ con[c].pos <= cache)
          BY <1>1, <2>1, EachMessageForm DEF At
      <3> QED
          BY <1>1, <3>1 DEF Rising, Pos
    <2>2. CASE ~EachMessage(c)
      <3>1. con'[c].pc \in {con[c].pc, "idle"}
        <4>1. CASE UNCHANGED con
            BY <4>1
        <4>2. ASSUME NEW d \in Consumers, EachMessage(d) PROVE con'[c].pc = con[c].pc
            BY <1>1, <2>2, <4>2, EachMessageForm DEF OthersKept
        <4>3. ASSUME NEW d \in Consumers, Assign(d) PROVE con'[c].pc \in {con[c].pc, "idle"}
            BY <1>1, <4>3, AssignForm DEF Typed, OthersKept
        <4>4. ASSUME NEW d \in Consumers, Expelled(d) \/ Crash(d)
              PROVE  con'[c].pc \in {con[c].pc, "idle"}
            BY <1>1, <4>4, OutsideForm DEF Expelled, Crash, Typed, OthersKept
        <4> QED
            BY <1>1, <4>1, <4>2, <4>3, <4>4 DEF Next, vars, Commit, Produce, AppendMessage
      <3> QED
          BY <1>1, <3>1 DEF At
    <2> QED
        BY <2>1, <2>2
  <1>2. Typed /\ Rising /\ [Next]_vars =>
           [\A c \in Consumers :
               At(c, "check") /\ con'[c].pc = "run" => Pos(c) \notin recorded]_vars
      BY <1>1
  <1>3. Typed /\ Alone /\ Rising /\ [Next]_vars => Alone' /\ Rising'
      BY NextRising
  <1> QED
      BY InitTyped, NextTyped, InitRising, <1>2, <1>3, PTL DEF Spec, RecordedIsSkipped
===============================================================================
