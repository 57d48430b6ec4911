-------------------------- MODULE ImagePipelineProofs --------------------------
(***************************************************************************)
(* Proofs about ImagePipeline, for any number of pods, requests, messages  *)
(* and faults: what was proved of process() holds where the consumers call *)
(* it.  The pipeline calls process() as often as messages are delivered    *)
(* and lets the calls fail with faults of others, so that it takes a Step  *)
(* of ImageProcessorProofs where ImageProcessor by itself takes its Next.  *)
(*                                                                         *)
(*   IInv       of ImageProcessorProofs                                    *)
(*   Delivered  what a member is at is in the log, and the log holds       *)
(*              requests                                                   *)
(*   Submitted  what is published, or in the log, has a document           *)
(*                                                                         *)
(* With a single pod attempts do not overlap, whatever is redelivered to   *)
(* it, so that a status belongs to the attempt that is being made.         *)
(*                                                                         *)
(*   Attempting  what the status is at each stage of an attempt            *)
(*   Coupled     the message a member is at is the one process() is at     *)
(*   Redelivered a request left open, whose deliveries were all processed  *)
(*               once, is at an offset that is given to the pod again      *)
(***************************************************************************)
EXTENDS ImagePipeline, ImageProcessorProofs

Delivered ==
    /\ Q!TypeOK
    /\ \A c \in Workers : con[c].pc # "idle" => con[c].pos < Len(log)

Submitted ==
    /\ api \in [Requests -> ApiState] /\ created \subseteq Requests
    /\ \A r \in Requests : api[r] \in {"publishing", "accepted"} => r \in created
    /\ \A i \in 1..Len(log) : log[i] \in created

PipelineInv == IInv /\ Delivered /\ Submitted

LEMMA InitPipeline == PipelineInit => PipelineInv
  <1> SUFFICES ASSUME PipelineInit PROVE PipelineInv
      OBVIOUS
  <1>1. IInv
      BY InitIInv DEF PipelineInit
  <1>2. Delivered
      BY PipelineAssumption
      DEF PipelineInit, Q!Init, Delivered, Q!TypeOK, Q!Handled, Q!Offsets, Q!Outside,
          Q!Member, Q!PC
  <1>3. Submitted
      BY DEF PipelineInit, Q!Init, Submitted, ApiState
  <1> QED
      BY <1>1, <1>2, <1>3 DEF PipelineInv

-------------------------------------------------------------------------------
(* The queue *)

(* A message is appended.                                                   *)
LEMMA AppendDelivered ==
  ASSUME Delivered, NEW r \in Requests, Q!AppendMessage(r), faults' \in Nat
  PROVE  Delivered'
  <1>1. /\ log' \in Seq(Requests) /\ Len(log') = Len(log) + 1 /\ Len(log) \in Nat
        /\ UNCHANGED <<committed, owner, con, processed, deadLetters, abandoned>>
      BY DEF Delivered, Q!TypeOK, Q!AppendMessage
  <1> QED
      BY <1>1 DEF Delivered, Q!TypeOK, Q!Handled, Q!Offsets

(* A member goes to pc and its position, which is in the log, or past the   *)
(* last message once it is idle again; nothing else of the broker changes.  *)
LEMMA MemberDelivered ==
  ASSUME Delivered, NEW c \in Workers,
         NEW pc \in Q!PC, NEW pos \in Nat, pos <= Len(log), pc # "idle" => pos < Len(log),
         con' = [con EXCEPT ![c] = [con[c] EXCEPT !.pc = pc, !.pos = pos]],
         UNCHANGED <<log, committed, owner>>,
         Q!Handled' \subseteq Q!Offsets, faults' \in Nat
  PROVE  Delivered'
  <1>1. /\ con[c] \in Q!Member /\ con \in [Workers -> Q!Member]
        /\ Len(log) \in Nat
      BY DEF Delivered, Q!TypeOK
  <1>2. /\ [con[c] EXCEPT !.pc = pc, !.pos = pos] \in Q!Member
        /\ [con[c] EXCEPT !.pc = pc, !.pos = pos].pc = pc
        /\ [con[c] EXCEPT !.pc = pc, !.pos = pos].pos = pos
      BY <1>1 DEF Q!Member
  <1>3. /\ con' \in [Workers -> Q!Member] /\ con'[c].pc = pc /\ con'[c].pos = pos
        /\ \A d \in Workers \ {c} : con'[d] = con[d]
      BY <1>1, <1>2
  <1> QED
      BY <1>1, <1>3 DEF Delivered, Q!TypeOK, Q!Offsets

(* The steps of a member between two messages, and its end.                 *)
LEMMA MembershipDelivered ==
  ASSUME Delivered, NEW c \in Workers,
         Q!Assign(c) \/ Q!Expelled(c) \/ Q!Commit(c) \/ Q!Crash(c)
  PROVE  Delivered' /\ faults' \in Nat
  <1> USE DEF Delivered, Q!TypeOK
  <1>0. /\ Len(log) \in Nat /\ con[c] \in Q!Member
        /\ Q!Outside \in Q!Member /\ Q!Outside.pc = "idle" /\ Q!Outside.pos = 0
      BY DEF Q!Outside, Q!Member, Q!PC
  <1>1. CASE Q!Assign(c)
    <2> DEFINE m == [pc |-> "idle", joined |-> TRUE, start |-> Q!StartOffset,
                     pos |-> Q!StartOffset]
    <2>1. Q!StartOffset \in 0..Len(log)
        BY <1>0 DEF Q!StartOffset
    <2>2. m \in Q!Member /\ m.pc = "idle" /\ m.pos \in 0..Len(log)
        BY <2>1 DEF Q!Member, Q!PC
    <2> HIDE DEF m
    <2>3. con' = [con EXCEPT ![c] = m]
        BY <1>1 DEF Q!Assign, m
    <2>4. /\ UNCHANGED <<log, committed, processed, deadLetters, abandoned>>
          /\ owner' = c /\ faults' \in Nat
        BY <1>1 DEF Q!Assign, Q!Fault
    <2> QED
        BY <2>2, <2>3, <2>4 DEF Q!Handled, Q!Offsets
  <1>2. CASE Q!Expelled(c)
      BY <1>0, <1>2 DEF Q!Expelled, Q!Handled, Q!Offsets
  <1>3. CASE Q!Commit(c)
      BY <1>0, <1>3 DEF Q!Commit, Q!Pos, Q!Handled, Q!Offsets
  <1>4. CASE Q!Crash(c)
      BY <1>0, <1>4 DEF Q!Crash, Q!Fault, Q!Handled, Q!Offsets
  <1> QED
      BY <1>1, <1>2, <1>3, <1>4

(* The steps of eachMessage, which end with the message after the one that  *)
(* was handled.                                                             *)
LEMMA HandlingDelivered ==
  ASSUME Delivered, NEW c \in Workers,
         \/ Q!Take(c) \/ Q!DecodeMsg(c) \/ Q!CheckOffset(c) \/ Q!RunProcessor(c)
         \/ Q!ProcessorResolves(c) \/ Q!ProcessorRejects(c) \/ Q!PublishOffset(c)
         \/ Q!PublishToDlq(c)
  PROVE  Delivered' /\ faults' \in Nat
  <1> DEFINE pos == con[c].pos
  <1>0. /\ Len(log) \in Nat /\ con[c] \in Q!Member /\ pos \in Nat
        /\ con \in [Workers -> Q!Member] /\ Q!Handled \subseteq Q!Offsets
        /\ faults \in Nat
      BY DEF Delivered, Q!TypeOK, Q!Member
  <1>1. pos < Len(log)
      BY DEF Delivered, Q!Take, Q!DecodeMsg, Q!CheckOffset, Q!RunProcessor,
         Q!ProcessorResolves, Q!ProcessorRejects, Q!PublishOffset, Q!PublishToDlq,
         Q!At, Q!Pos
  <1>2. faults' \in Nat /\ UNCHANGED <<log, committed, owner>>
      BY <1>0 DEF Q!Take, Q!DecodeMsg, Q!CheckOffset, Q!RunProcessor, Q!GetRejects,
         Q!ProcessorResolves, Q!ProcessorRejects, Q!PublishOffset, Q!PublishToDlq,
         Q!Set, Q!Fault
  <1>3. Q!Handled' \subseteq Q!Handled \cup {pos}
      BY DEF Q!Take, Q!DecodeMsg, Q!CheckOffset, Q!RunProcessor, Q!ProcessorResolves,
         Q!ProcessorRejects, Q!PublishOffset, Q!PublishToDlq, Q!Pos, Q!Handled
  <1>4. Q!Handled' \subseteq Q!Offsets
      BY <1>0, <1>1, <1>3 DEF Q!Offsets
  <1>5. PICK pc \in Q!PC :
           \/ con' = [con EXCEPT ![c].pc = pc]
           \/ pc = "idle" /\ con' = [con EXCEPT ![c].pc = pc, ![c].pos = @ + 1]
      BY DEF Q!Take, Q!DecodeMsg, Q!CheckOffset, Q!RunProcessor, Q!ProcessorResolves,
         Q!ProcessorRejects, Q!PublishOffset, Q!PublishToDlq, Q!Goto, Q!Resolve, Q!PC
  <1>6. CASE con' = [con EXCEPT ![c].pc = pc]
    <2>1. con' = [con EXCEPT ![c] = [con[c] EXCEPT !.pc = pc, !.pos = pos]]
        BY <1>0, <1>6 DEF Q!Member
    <2>2. pos \in Nat /\ pos <= Len(log) /\ pos < Len(log)
        BY <1>0, <1>1
    <2> HIDE DEF pos
    <2> QED
        BY <2>1, <2>2, <1>2, <1>4, MemberDelivered
  <1>7. CASE pc = "idle" /\ con' = [con EXCEPT ![c].pc = pc, ![c].pos = @ + 1]
    <2>1. con' = [con EXCEPT ![c] = [con[c] EXCEPT !.pc = pc, !.pos = pos + 1]]
        BY <1>0, <1>7 DEF Q!Member
    <2>2. pos + 1 \in Nat /\ pos + 1 <= Len(log)
        BY <1>0, <1>1
    <2> HIDE DEF pos
    <2> QED
        BY <2>1, <2>2, <1>2, <1>4, <1>7, MemberDelivered
  <1> QED
      BY <1>2, <1>5, <1>6, <1>7

-------------------------------------------------------------------------------
(* The pipeline *)

(* Whatever the API, the broker and the members do, process() sees a call,  *)
(* an outcome that is taken, the end of its process, or nothing.            *)
LEMMA NextIsStepOfProcess ==
  ASSUME PipelineInv, PipelineNext
  PROVE  Step /\ Delivered'
  <1> USE DEF PipelineInv
  <1>0. faults \in Nat /\ log \in Seq(Requests)
      BY DEF IInv, Typed, TypeOK, Delivered, Q!TypeOK
  <1>1. ASSUME UNCHANGED procVars, UNCHANGED queueVars, UNCHANGED faults \/ faults' \in Nat
        PROVE  Step /\ Delivered'
      BY <1>0, <1>1 DEF Step, Quiet, procVars, queueVars, Delivered, Q!TypeOK, Q!Handled,
         Q!Offsets
  <1>2. ASSUME NEW r \in Requests, Submit(r) \/ CreateRequest(r) \/ ApiCrash(r)
        PROVE  Step /\ Delivered'
    <2>1. UNCHANGED procVars /\ UNCHANGED queueVars /\ faults' \in Nat
        BY <1>0, <1>2 DEF Submit, CreateRequest, ApiCrash, Fault, procVars, queueVars
    <2> QED
        BY <2>1, <1>1
  <1>3. ASSUME NEW r \in Requests, PublishProcessingRequest(r)
        PROVE  Step /\ Delivered'
    <2>1. UNCHANGED procVars /\ faults' \in Nat
        BY <1>0, <1>3 DEF PublishProcessingRequest, Fault, procVars
    <2>2. CASE Q!AppendMessage(r)
        BY <2>1, <2>2, AppendDelivered DEF Step, Quiet, procVars
    <2>3. CASE UNCHANGED queueVars
        BY <2>1, <2>3, <1>1
    <2> QED
        BY <1>3, <2>2, <2>3 DEF PublishProcessingRequest
  <1>4. ASSUME NEW c \in Workers, Processor(c)
        PROVE  Step /\ Delivered'
    <2>1. log[Q!Pos(c) + 1] \in Requests
      <3>1. /\ con[c].pos \in Nat /\ con[c].pos < Len(log)
          BY <1>4 DEF Processor, Q!RunProcessor, Q!At, Delivered, Q!TypeOK, Q!Member
      <3> QED
          BY <1>0, <3>1 DEF Q!Pos
    <2>2. WorkerStep(c)
        BY <1>4, <2>1 DEF Processor, WorkerStep
    <2> QED
        BY <1>4, <2>2, HandlingDelivered DEF Processor, Step
  <1>5. ASSUME NEW c \in Workers, Process(c)
        PROVE  Step /\ Delivered'
    <2>1. UNCHANGED queueVars /\ Step
        BY <1>5 DEF Process, Step, WorkerStep
    <2>2. faults' \in Nat
        BY <2>1, NextTyped DEF IInv, Typed, TypeOK
    <2> QED
        BY <2>1, <2>2 DEF queueVars, Delivered, Q!TypeOK, Q!Handled, Q!Offsets
  <1>6. ASSUME NEW c \in Workers, ProcessorSettles(c)
        PROVE  Step /\ Delivered'
    <2>1. Return(c) /\ (Q!ProcessorResolves(c) \/ Q!ProcessorRejects(c))
        BY <1>6 DEF ProcessorSettles
    <2> QED
        BY <2>1, HandlingDelivered DEF Step, WorkerStep
  <1>7. ASSUME NEW c \in Workers, ConsumerStep(c)
        PROVE  Step /\ Delivered'
    <2>1. UNCHANGED procVars
        BY <1>7 DEF ConsumerStep, procVars
    <2>2. Delivered' /\ faults' \in Nat
        BY <1>7, HandlingDelivered DEF ConsumerStep
    <2> QED
        BY <2>1, <2>2 DEF Step, Quiet, procVars
  <1>8. ASSUME NEW c \in Workers, Assign(c) \/ GroupStep(c)
        PROVE  Step /\ Delivered'
    <2>1. UNCHANGED procVars
        BY <1>8 DEF Assign, GroupStep, procVars
    <2>2. Delivered' /\ faults' \in Nat
        BY <1>8, MembershipDelivered DEF Assign, GroupStep
    <2> QED
        BY <2>1, <2>2 DEF Step, Quiet, procVars
  <1>9. ASSUME NEW c \in Workers, PodCrash(c)
        PROVE  Step /\ Delivered'
      BY <1>9, MembershipDelivered DEF PodCrash, Step, WorkerStep
  <1> QED
      BY <1>2, <1>3, <1>4, <1>5, <1>6, <1>7, <1>8, <1>9 DEF PipelineNext, PodStep

(* The document is there before the message is.                             *)
LEMMA NextSubmitted ==
  ASSUME PipelineInv, PipelineNext
  PROVE  Submitted'
  <1> USE DEF PipelineInv, Submitted
  <1>0. log \in Seq(Requests) /\ Len(log) \in Nat
      BY DEF Delivered, Q!TypeOK
  <1>1. CASE UNCHANGED <<api, created, log>>
      BY <1>1
  <1>2. ASSUME NEW r \in Requests, Submit(r) \/ ApiCrash(r)
        PROVE  Submitted'
      BY <1>0, <1>2 DEF Submit, ApiCrash, Answer, ApiState, queueVars
  <1>3. ASSUME NEW r \in Requests, CreateRequest(r)
        PROVE  Submitted'
      BY <1>0, <1>3 DEF CreateRequest, Answer, ApiState, queueVars
  <1>4. ASSUME NEW r \in Requests, PublishProcessingRequest(r)
        PROVE  Submitted'
    <2>1. /\ r \in created /\ created' = created
          /\ api' = api \/ \E s \in ApiState : api' = [api EXCEPT ![r] = s]
        BY <1>4 DEF PublishProcessingRequest, Answer, ApiState
    <2>2. log' = log \/ log' = Append(log, r)
        BY <1>4 DEF PublishProcessingRequest, Q!AppendMessage, queueVars
    <2>3. \A i \in 1..Len(log') : log'[i] \in created
        BY <1>0, <2>1, <2>2
    <2> QED
        BY <2>1, <2>3
  <1>5. ASSUME NEW c \in Workers, PodStep(c) \/ Assign(c) \/ GroupStep(c) \/ PodCrash(c)
        PROVE  UNCHANGED <<api, created, log>>
      BY <1>5 DEF PodStep, Processor, Process, ProcessorSettles, ConsumerStep, Assign,
         GroupStep, PodCrash, apiVars, queueVars, Q!RunProcessor, Q!ProcessorResolves,
         Q!ProcessorRejects, Q!Take, Q!DecodeMsg, Q!CheckOffset, Q!PublishOffset,
         Q!PublishToDlq, Q!Assign, Q!Expelled, Q!Commit, Q!Crash
  <1> QED
      BY <1>1, <1>2, <1>3, <1>4, <1>5 DEF PipelineNext

LEMMA StutterIsStep ==
  ASSUME PipelineInv, UNCHANGED pipelineVars
  PROVE  Step /\ PipelineInv'
  <1>1. Step
      BY DEF PipelineInv, IInv, Typed, TypeOK, Step, Quiet, pipelineVars, vars
  <1>2. IInv'
      BY <1>1, NextIInv DEF PipelineInv
  <1> QED
      BY <1>1, <1>2 DEF PipelineInv, Delivered, Q!TypeOK, Q!Handled, Q!Offsets, Submitted,
         pipelineVars, vars, apiVars, queueVars

LEMMA NextPipeline == PipelineInv /\ [PipelineNext]_pipelineVars => Step /\ PipelineInv'
  BY NextIsStepOfProcess, NextSubmitted, NextIInv, StutterIsStep DEF PipelineInv

LEMMA PipelineInvariant == PipelineSpec => []PipelineInv
  BY InitPipeline, NextPipeline, PTL DEF PipelineSpec

(* Every variable of the pipeline keeps its type.                           *)
THEOREM PipelineTyped == PipelineSpec => []PipelineTypeOK
  <1>1. PipelineInv => PipelineTypeOK
      BY DEF PipelineInv, IInv, Typed, Delivered, Submitted, PipelineTypeOK
  <1> QED
      BY PipelineInvariant, <1>1, PTL

(* Whoever knows a request finds its document, however often its message is *)
(* delivered and wherever the API dies.                                     *)
THEOREM QueuedCreated == PipelineSpec => []QueuedIsCreated
  <1>1. PipelineInv => QueuedIsCreated
    <2> SUFFICES ASSUME PipelineInv, NEW r \in Requests, Queued(r) \/ api[r] = "accepted"
                 PROVE  GetStatus(r) # "NotFound"
        BY DEF QueuedIsCreated
    <2>1. r \in created
      <3>1. Len(log) \in Nat
          BY DEF PipelineInv, Delivered, Q!TypeOK
      <3>2. CASE Queued(r)
        <4>1. PICK o \in 0..(Len(log) - 1) : log[o + 1] = r
            BY <3>2 DEF Queued, OffsetsOf, Q!Offsets
        <4>2. o + 1 \in 1..Len(log)
            BY <3>1, <4>1
        <4> QED
            BY <4>1, <4>2 DEF PipelineInv, Submitted
      <3> QED
          BY <3>2 DEF PipelineInv, Submitted
    <2>2. doc[r].status \in Status
        BY DEF PipelineInv, IInv, Typed, TypeOK, Document
    <2> QED
        BY <2>1, <2>2 DEF GetStatus, Status
  <1> QED
      BY PipelineInvariant, <1>1, PTL

(* A client of the whole system sees the lifecycle it was promised, however *)
(* many pods are given the message of a request, at the same time or again. *)
THEOREM PipelineLifecycle == PipelineSpec => ImplementsLifecycle
  <1>1. PipelineInit => Lifecycle!Init
      BY InitLifecycle DEF PipelineInit
  <1>2. PipelineInv /\ PipelineInv' /\ [PipelineNext]_pipelineVars
          => [Lifecycle!Next]_(Lifecycle!vars)
      BY NextPipeline, NextLifecycle DEF PipelineInv
  <1> QED
      BY PipelineInvariant, <1>1, <1>2, PTL
      DEF PipelineSpec, ImplementsLifecycle, Lifecycle!Spec

-------------------------------------------------------------------------------
(* A single pod *)

USE ConstantsAssumption DEF UpdateStatus, UpdateRequest

Alone == \A v, w \in Workers : v = w

FinalStatus == {"Succeeded", "Failed"}

(* From the first write to the last the status is Processing, and so it is  *)
(* while there is a directory: handleError then writes Failed over it.      *)
Attempting(w) ==
    /\ proc[w].pc \in ImageSteps \cup {"cleanUp", "setSucceeded", "setFailed"} \/ tmp[w] # {}
          => doc[proc[w].req].status = "Processing"
    /\ proc[w].pc = "webhook" => doc[proc[w].req].status = "Succeeded"
    /\ proc[w].pc = "resolved" => doc[proc[w].req].status \in FinalStatus

AllAttempting == \A w \in Workers : Attempting(w)

LEMMA InitAttempting == Init => AllAttempting
  <1> SUFFICES ASSUME Init, NEW w \in Workers PROVE Attempting(w)
      BY DEF AllAttempting
  <1>1. proc[w].pc = "idle" /\ tmp[w] = {}
      BY DEF Init, Idle
  <1> QED
      BY <1>1 DEF Attempting, ImageSteps

(* A step of process() keeps its own attempt so.                            *)
LEMMA StepAttempting ==
  ASSUME TypeOK, NEW w \in Workers, InRange(w), Directory(w), Attempting(w), ProcessStep(w)
  PROVE  Attempting(w)'
  <1> USE DEF Attempting, Moves, Becomes, At, Req
  <1> DEFINE r == proc[w].req
  <1>0. /\ tmp \in [Workers -> SUBSET Requests]
        /\ doc \in [Requests -> Document] /\ tmp[w] \subseteq {r}
      BY DEF TypeOK, Directory
  <1>1. r \in Requests
      BY DEF InRange, ProcessStep, SetProcessing, AwaitFile, AfterAwait, MakeDir, UploadFile,
         DropOutput, CleanUp, SetSucceeded, CallWebhook, CallRejects, TrySteps,
         ImageSteps, CleanUpFailed, SetFailed
  <1>2. CASE SetProcessing(w)
    <2>1. doc'[r].status = "Processing"
        BY <1>0, <1>1, <1>2 DEF SetProcessing, Document
    <2>2. NextImage(proc[w]) \in {"getImage", "cleanUp"}
        BY DEF NextImage
    <2> QED
        BY <1>2, <2>1, <2>2, SetProcessingForm
  <1>3. CASE AwaitFile(w)
      BY <1>3, AwaitFileForm DEF AwaitFile, ImageSteps
  <1>4. CASE MakeDir(w)
      BY <1>4, MakeDirForm DEF MakeDir, ImageSteps
  <1>5. CASE UploadFile(w)
      BY <1>5, UploadFileForm DEF UploadFile, ImageSteps
  <1>6. CASE DropOutput(w)
    <2>1. CurrentFile(proc[w]) \in File
        BY <1>6, CurrentFileType DEF DropOutput, ImageSteps
    <2> QED
        BY <1>6, <2>1, DropOutputForm DEF DropOutput, ImageSteps
  <1>7. CASE CleanUp(w)
      BY <1>0, <1>7, CleanUpForm DEF CleanUp, ImageSteps
  <1>8. CASE SetSucceeded(w)
    <2>1. doc'[r].status = "Succeeded" /\ tmp'[w] = {}
        BY <1>0, <1>1, <1>8 DEF SetSucceeded, Directory
    <2> QED
        BY <1>8, <2>1, SetSucceededForm DEF ImageSteps
  <1>9. CASE CallWebhook(w)
    <2>1. doc' = doc /\ tmp'[w] = {}
        BY <1>9 DEF CallWebhook, Directory
    <2> QED
        BY <1>9, <2>1, CallWebhookForm DEF CallWebhook, ImageSteps, FinalStatus
  <1>10. CASE CallRejects(w)
      BY <1>10, CallRejectsForm DEF CallRejects, ImageSteps
  <1>11. CASE CleanUpFailed(w)
      BY <1>0, <1>11, CleanUpFailedForm DEF CleanUpFailed, ImageSteps
  <1>12. CASE SetFailed(w)
    <2>1. tmp'[w] = {}
        BY <1>12 DEF SetFailed, Directory
    <2>2. CASE doc' = [doc EXCEPT ![r].status = "Failed"]
      <3>1. doc'[r].status = "Failed"
          BY <1>0, <1>1, <2>2 DEF Document
      <3> QED
          BY <1>12, <2>1, <3>1, SetFailedForm DEF ImageSteps, FinalStatus
    <2>3. CASE proc' = [proc EXCEPT ![w].pc = "rejected"]
      <3>1. proc'[w].pc = "rejected"
          BY <2>3 DEF TypeOK, Attempt
      <3> QED
          BY <2>1, <3>1 DEF ImageSteps
    <2> QED
        BY <1>12, <2>2, <2>3 DEF SetFailed
  <1> QED
      BY <1>2, <1>3, <1>4, <1>5, <1>6, <1>7, <1>8, <1>9, <1>10, <1>11, <1>12
      DEF ProcessStep

LEMMA NextAttempting ==
  ASSUME Alone, IInv, AllAttempting, Step
  PROVE  AllAttempting'
  <1> USE DEF IInv, Typed, Private, AllAttempting
  <1>1. CASE Quiet
      BY <1>1 DEF Quiet, Attempting
  <1>2. ASSUME NEW w \in Workers, WorkerStep(w) PROVE Attempting(w)'
    <2>1. CASE ProcessStep(w)
        BY <2>1, StepAttempting
    <2>2. CASE Return(w) \/ Crash(w)
      <3>1. tmp'[w] = {}
          BY <2>2 DEF Return, Crash, TypeOK, Directory
      <3> QED
          BY <2>2, <3>1, StopForm DEF Attempting, ImageSteps
    <2>3. ASSUME NEW r \in Requests, Begin(w, r) PROVE Attempting(w)'
      <3>1. tmp'[w] = {}
          BY <2>3 DEF Begin, At, Directory
      <3> QED
          BY <2>3, <3>1, BeginForm DEF Attempting, ImageSteps
    <2> QED
        BY <1>2, <2>1, <2>2, <2>3 DEF WorkerStep
  <1> QED
      BY <1>1, <1>2 DEF Step, Alone

-------------------------------------------------------------------------------
(* The lifecycle *)

LEMMA NextExclusive ==
  ASSUME IInv, IInv', AllAttempting, Step
  PROVE  [ExclusiveLifecycle!Next]_(ExclusiveLifecycle!vars)
  <1>0. \A w \in Workers :
           proc[w].pc \in {"setSucceeded", "setFailed"} => doc[Req(w)].status = "Processing"
      BY DEF AllAttempting, Attempting, Req
  <1> USE DEF IInv, ExclusiveLifecycle!Next, ExclusiveLifecycle!Started
  <1>1. CASE doc' = doc /\ hooks' = hooks
      BY <1>1, Unseen DEF Lifecycle!vars, ExclusiveLifecycle!vars
  <1>2. ASSUME NEW w \in Workers, SetProcessing(w) PROVE ExclusiveLifecycle!Next
      BY <1>2, StartSeen DEF ExclusiveLifecycle!Start
  <1>3. ASSUME NEW w \in Workers, SetSucceeded(w) PROVE ExclusiveLifecycle!Next
    <2>1. proc[w].pc = "setSucceeded"
        BY <1>3 DEF SetSucceeded, At
    <2> QED
        BY <1>0, <1>3, <2>1, SucceedSeen DEF ExclusiveLifecycle!Succeed
  <1>4. ASSUME NEW w \in Workers, CallWebhook(w) PROVE ExclusiveLifecycle!Next
      BY <1>4, NotifySeen DEF ExclusiveLifecycle!Notify
  <1>5. ASSUME NEW w \in Workers, SetFailed(w), doc' # doc PROVE ExclusiveLifecycle!Next
    <2>1. proc[w].pc = "setFailed"
        BY <1>5 DEF SetFailed, At
    <2> QED
        BY <1>0, <1>5, <2>1, FailSeen DEF ExclusiveLifecycle!Fail
  <1> HIDE DEF IInv, ExclusiveLifecycle!Next, ExclusiveLifecycle!Started
  <1> QED
      BY <1>1, <1>2, <1>3, <1>4, <1>5, SeenSteps

LEMMA AloneInvariant ==
  ASSUME Alone
  PROVE  PipelineSpec => [](PipelineInv /\ AllAttempting)
  <1>1. PipelineInit => PipelineInv /\ AllAttempting
      BY InitPipeline, InitAttempting DEF PipelineInit
  <1>2. PipelineInv /\ AllAttempting /\ [PipelineNext]_pipelineVars
          => (PipelineInv /\ AllAttempting)'
      BY Alone, NextPipeline, NextAttempting DEF PipelineInv
  <1> QED
      BY <1>1, <1>2, PTL DEF PipelineSpec

(* A final status is only ever written over Processing.                     *)
THEOREM ExclusiveImplemented ==
  ASSUME Alone
  PROVE  PipelineSpec => ImplementsExclusiveLifecycle
  <1>1. PipelineInit => ExclusiveLifecycle!Init
      BY InitLifecycle DEF PipelineInit, Lifecycle!Init, ExclusiveLifecycle!Init
  <1>2. (PipelineInv /\ AllAttempting) /\ (PipelineInv /\ AllAttempting)'
          /\ [PipelineNext]_pipelineVars
          => [ExclusiveLifecycle!Next]_(ExclusiveLifecycle!vars)
      BY NextPipeline, NextExclusive DEF PipelineInv
  <1> QED
      BY AloneInvariant, Alone, <1>1, <1>2, PTL
      DEF PipelineSpec, ImplementsExclusiveLifecycle, ExclusiveLifecycle!Spec

-------------------------------------------------------------------------------
(* The message and the attempt *)

Coupled(c) ==
    /\ con[c].pc = "running" <=> proc[c].pc # "idle"
    /\ con[c].pc = "running" => proc[c].req = log[con[c].pos + 1]
    /\ con[c].pc = "record" => doc[log[con[c].pos + 1]].status \in FinalStatus
    /\ con[c].pc # "idle" => con[c].joined
    /\ con[c].joined => committed <= con[c].pos
    /\ ~con[c].joined => con[c].pos = con[c].start

AllCoupled == committed \in Nat /\ \A c \in Workers : Coupled(c)

PodInv == PipelineInv /\ AllAttempting /\ AllCoupled

(* The group has committed an offset, as that of a pod which is not new.    *)
NotNew == InitialCommitted = 0

LEMMA InitCoupled == NotNew /\ PipelineInit => AllCoupled
  BY DEF NotNew, PipelineInit, Init, Idle, Q!Init, Q!Outside, AllCoupled, Coupled

(* The steps of the pod, each with what it does to the attempt.             *)
LEMMA PodCoupled ==
  ASSUME Alone, PodInv, NEW c \in Workers,
         PodStep(c) \/ Assign(c) \/ GroupStep(c) \/ PodCrash(c)
  PROVE  committed' \in Nat /\ Coupled(c)'
  <1> USE DEF Coupled, Q!At, Q!Pos, Q!Goto
  <1>0. /\ con \in [Workers -> Q!Member] /\ con[c] \in Q!Member /\ Len(log) \in Nat
        /\ proc \in [Workers -> Attempt] /\ TypeOK /\ InRange(c)
        /\ committed \in Nat /\ Coupled(c) /\ Attempting(c)
      BY DEF PodInv, AllCoupled, AllAttempting, PipelineInv, Delivered, Q!TypeOK, IInv,
         Typed, TypeOK
  <1>1. CASE Processor(c)
    <2>1. /\ con[c].pc = "run" /\ con' = [con EXCEPT ![c].pc = "running"]
          /\ UNCHANGED <<log, committed>>
          /\ proc'[c].pc = "setProcessing" /\ proc'[c].req = log[con[c].pos + 1]
        BY <1>0, <1>1 DEF Processor, Q!RunProcessor, Begin, Idle
    <2> QED
        BY <1>0, <2>1 DEF Q!Member
  <1>2. CASE Process(c)
    <2>1. UNCHANGED <<log, committed, con>>
        BY <1>2 DEF Process, queueVars
    <2> QED
        BY <1>0, <1>2, <2>1, AttemptGoesOn DEF Process
  <1>3. CASE ProcessorSettles(c)
    <2>1. /\ con[c].pc = "running" /\ UNCHANGED <<log, committed, doc>>
          /\ proc'[c].pc = "idle"
        BY <1>0, <1>3 DEF ProcessorSettles, Return, Q!ProcessorResolves,
           Q!ProcessorRejects, Idle
    <2>2. CASE proc[c].pc = "resolved"
      <3>1. con' = [con EXCEPT ![c].pc = "record"]
          BY <1>3, <2>2 DEF ProcessorSettles, At, Q!ProcessorResolves
      <3> QED
          BY <1>0, <2>1, <2>2, <3>1 DEF Q!Member, Attempting
    <2>3. CASE proc[c].pc # "resolved"
      <3>1. con' = [con EXCEPT ![c].pc = "deadLetter"]
          BY <1>3, <2>3 DEF ProcessorSettles, At, Q!ProcessorRejects
      <3> QED
          BY <1>0, <2>1, <3>1 DEF Q!Member
    <2> QED
        BY <2>2, <2>3
  <1>4. CASE ConsumerStep(c)
    <2>1. UNCHANGED <<proc, doc, log, committed>>
        BY <1>4 DEF ConsumerStep, procVars, Q!Take, Q!DecodeMsg, Q!CheckOffset,
           Q!PublishOffset, Q!PublishToDlq
    <2>2. /\ con[c].pc # "running" /\ con[c].joined
          /\ \/ \E pc \in {"decode", "check", "deadLetter", "run"} :
                   con' = [con EXCEPT ![c].pc = pc]
             \/ con' = [con EXCEPT ![c].pc = "idle", ![c].pos = @ + 1]
        BY <1>0, <1>4 DEF ConsumerStep, Q!Take, Q!DecodeMsg, Q!CheckOffset,
           Q!PublishOffset, Q!PublishToDlq, Q!Resolve
    <2>3. ASSUME NEW pc \in {"decode", "check", "deadLetter", "run"},
                 con' = [con EXCEPT ![c].pc = pc]
          PROVE  con'[c].pc = pc /\ con'[c].pos = con[c].pos /\ con'[c].joined
        BY <1>0, <2>2, <2>3 DEF Q!Member
    <2>4. ASSUME con' = [con EXCEPT ![c].pc = "idle", ![c].pos = @ + 1]
          PROVE  con'[c].pc = "idle" /\ con'[c].pos = con[c].pos + 1 /\ con'[c].joined
        BY <1>0, <2>2, <2>4 DEF Q!Member
    <2>5. con[c].pos \in Nat
        BY <1>0 DEF Q!Member
    <2> QED
        BY <1>0, <2>1, <2>2, <2>3, <2>4, <2>5
  <1>5. CASE Assign(c)
    <2>1. /\ con[c].pc = "idle" /\ UNCHANGED <<proc, log, committed>>
          /\ con'[c].pc = "idle" /\ con'[c].joined /\ con'[c].pos = committed
        BY <1>0, <1>5 DEF Assign, procVars, Q!Assign, Q!StartOffset
    <2> QED
        BY <1>0, <2>1
  <1>6. CASE GroupStep(c)
    <2>1. con[c].pc = "idle" /\ UNCHANGED <<proc, log>>
        BY <1>6 DEF GroupStep, procVars, Q!Expelled, Q!Commit
    <2>2. CASE Q!Expelled(c)
        BY <1>0, <2>1, <2>2 DEF Q!Expelled, Q!Outside
    <2>3. CASE Q!Commit(c)
        BY <1>0, <2>1, <2>3 DEF Q!Commit, Q!Member
    <2> QED
        BY <1>6, <2>2, <2>3 DEF GroupStep
  <1>7. CASE PodCrash(c)
      BY <1>0, <1>7 DEF PodCrash, Crash, Idle, Q!Crash, Q!Outside
  <1> QED
      BY <1>1, <1>2, <1>3, <1>4, <1>5, <1>6, <1>7 DEF PodStep

(* A step of the API leaves the pod alone, and at most appends a message.   *)
LEMMA ApiLeavesPod ==
  ASSUME PodInv, NEW r \in Requests,
         Submit(r) \/ CreateRequest(r) \/ PublishProcessingRequest(r) \/ ApiCrash(r)
  PROVE  /\ UNCHANGED <<doc, proc, tmp, con, committed, processed, deadLetters, abandoned>>
         /\ log' = log \/ log' = Append(log, r)
  BY DEF Submit, CreateRequest, PublishProcessingRequest, ApiCrash, procVars, queueVars,
     Q!AppendMessage

LEMMA NextCoupled ==
  ASSUME Alone, PodInv, [PipelineNext]_pipelineVars
  PROVE  AllCoupled'
  <1> USE DEF AllCoupled
  <1>0. log \in Seq(Requests) /\ con \in [Workers -> Q!Member] /\ AllCoupled
      BY DEF PodInv, PipelineInv, Delivered, Q!TypeOK
  <1>1. CASE UNCHANGED pipelineVars
      BY <1>0, <1>1 DEF pipelineVars, vars, queueVars, Coupled
  <1>2. ASSUME NEW r \in Requests,
               Submit(r) \/ CreateRequest(r) \/ PublishProcessingRequest(r) \/ ApiCrash(r)
        PROVE  AllCoupled'
    <2>1. ASSUME NEW c \in Workers, con[c].pc # "idle"
          PROVE  log'[con[c].pos + 1] = log[con[c].pos + 1]
      <3>1. con[c].pos \in Nat /\ con[c].pos < Len(log)
          BY <1>0, <2>1 DEF PodInv, PipelineInv, Delivered, Q!Member
      <3>2. log' = log \/ log' = Append(log, r)
          BY <1>2, ApiLeavesPod
      <3>3. con[c].pos + 1 \in 1..Len(log)
          BY <1>0, <3>1
      <3> HIDE DEF AllCoupled
      <3> QED
          BY <1>0, <3>2, <3>3
    <2> QED
        BY <1>0, <1>2, <2>1, ApiLeavesPod DEF Coupled
  <1>3. ASSUME NEW c \in Workers, PodStep(c) \/ Assign(c) \/ GroupStep(c) \/ PodCrash(c)
        PROVE  AllCoupled'
      BY <1>3, PodCoupled DEF Alone
  <1> QED
      BY <1>1, <1>2, <1>3 DEF PipelineNext

-------------------------------------------------------------------------------
(* Requests that are left open *)

(* Every delivery of the request was processed once, yet its status is open *)
(* and nobody is at it.                                                     *)
LeftOpen(r) ==
    /\ OffsetsOf(r) \subseteq processed
    /\ OffsetsOf(r) \cap (deadLetters \cup abandoned) = {}
    /\ \A c \in Workers : proc[c].pc # "idle" => proc[c].req # r
    /\ doc[r].status \notin FinalStatus

(* The pod has a message of the request at or ahead of its position.        *)
Redelivers(r) ==
    \E o \in OffsetsOf(r) :
        committed <= o /\ \A c \in Workers : con[c].joined => con[c].pos <= o

Redelivered ==
    \A r \in Requests : Queued(r) /\ LeftOpen(r) => Redelivers(r)

LEMMA InitRedelivered == PipelineInit => Redelivered
  BY DEF PipelineInit, Q!Init, Redelivered, Queued, OffsetsOf, Q!Offsets

(* A message that is appended has not been processed.                       *)
LEMMA ApiRedelivered ==
  ASSUME PodInv, Redelivered, NEW q \in Requests,
         Submit(q) \/ CreateRequest(q) \/ PublishProcessingRequest(q) \/ ApiCrash(q)
  PROVE  Redelivered'
  <1> SUFFICES ASSUME NEW r \in Requests, Queued(r)', LeftOpen(r)'
               PROVE  Redelivers(r)'
      BY DEF Redelivered
  <1>1. /\ UNCHANGED <<doc, proc, con, committed, processed, deadLetters, abandoned>>
        /\ log' = log \/ log' = Append(log, q)
      BY ApiLeavesPod
  <1>2. log \in Seq(Requests) /\ Len(log) \in Nat /\ processed \subseteq Q!Offsets
      BY DEF PodInv, PipelineInv, Delivered, Q!TypeOK, Q!Handled
  <1>3. CASE OffsetsOf(r)' = OffsetsOf(r)
      BY <1>1, <1>3 DEF Redelivered, Redelivers, LeftOpen, Queued
  <1>4. CASE log' = Append(log, q) /\ q = r
    <2>1. Len(log) \in OffsetsOf(r)'
        BY <1>2, <1>4 DEF OffsetsOf, Q!Offsets
    <2>2. Len(log) \notin processed
        BY <1>2 DEF Q!Offsets
    <2> QED
        BY <1>1, <2>1, <2>2 DEF LeftOpen
  <1>5. CASE log' = Append(log, q) /\ q # r
    <2>1. /\ Q!Offsets' = Q!Offsets \cup {Len(log)} /\ log'[Len(log) + 1] = q
          /\ \A o \in Q!Offsets : log'[o + 1] = log[o + 1]
        BY <1>2, <1>5 DEF Q!Offsets
    <2>2. OffsetsOf(r)' = OffsetsOf(r)
        BY <1>5, <2>1 DEF OffsetsOf
    <2> QED
        BY <1>3, <2>2
  <1>6. CASE log' = log
      BY <1>3, <1>6 DEF OffsetsOf, Q!Offsets
  <1> QED
      BY <1>1, <1>4, <1>5, <1>6

(* A message is passed over with a final status or with a dead letter, and  *)
(* an attempt that ends otherwise leaves its message to be delivered again. *)
LEMMA PodRedelivered ==
  ASSUME Alone, PodInv, Redelivered, NEW c \in Workers,
         PodStep(c) \/ Assign(c) \/ GroupStep(c) \/ PodCrash(c)
  PROVE  Redelivered'
  <1> SUFFICES ASSUME NEW r \in Requests, Queued(r)', LeftOpen(r)'
               PROVE  Redelivers(r)'
      BY DEF Redelivered
  <1> DEFINE pos == con[c].pos
  <1>0. /\ con \in [Workers -> Q!Member] /\ pos \in Nat /\ Len(log) \in Nat
        /\ con[c].pc # "idle" => pos \in Q!Offsets
        /\ committed \in Nat /\ Coupled(c) /\ TypeOK /\ InRange(c)
        /\ Q!Offsets \subseteq Nat
      BY DEF PodInv, AllCoupled, PipelineInv, Delivered, Q!TypeOK, IInv, Typed, Q!Member,
         Q!Offsets
  <1>1. log' = log
      BY DEF PodStep, Processor, Process, ProcessorSettles, ConsumerStep, Assign,
         GroupStep, PodCrash, queueVars, Q!RunProcessor, Q!ProcessorResolves,
         Q!ProcessorRejects, Q!Take, Q!DecodeMsg, Q!CheckOffset, Q!PublishOffset,
         Q!PublishToDlq, Q!Assign, Q!Expelled, Q!Commit, Q!Crash
  <1>2. Queued(r) /\ OffsetsOf(r)' = OffsetsOf(r)
      BY <1>1 DEF Queued, OffsetsOf, Q!Offsets
  \* The request was open before, and the offset it had serves.
  <1>3. ASSUME LeftOpen(r),
               \A o \in OffsetsOf(r) :
                  committed <= o /\ (con[c].joined => pos <= o)
                     => committed' <= o /\ (con'[c].joined => con'[c].pos <= o)
        PROVE  Redelivers(r)'
    <2>1. PICK o \in OffsetsOf(r) : committed <= o /\ (con[c].joined => pos <= o)
        BY <1>2, <1>3 DEF Redelivered, Redelivers
    <2>2. committed' <= o /\ (con'[c].joined => con'[c].pos <= o)
        BY <1>3, <2>1
    <2> QED
        BY <1>2, <2>1, <2>2 DEF Redelivers, Alone
  \* The attempt that ends is one at the request.
  <1>4. ASSUME con[c].pc = "running", proc[c].req = r, committed' = committed,
               con'[c].joined => con'[c].pos = pos
        PROVE  Redelivers(r)'
    <2>1. pos \in OffsetsOf(r) /\ committed <= pos
        BY <1>0, <1>4 DEF Coupled, OffsetsOf
    <2> QED
        BY <1>0, <1>2, <1>4, <2>1 DEF Redelivers, Alone
  <1>5. CASE Processor(c)
    <2>1. /\ UNCHANGED <<doc, processed, deadLetters, abandoned, committed>>
          /\ con'[c].pos = pos /\ con'[c].joined = con[c].joined
          /\ proc[c].pc = "idle"
        BY <1>0, <1>5 DEF Processor, Q!RunProcessor, Q!Goto, Begin, At, Q!Member
    <2> QED
        BY <1>2, <1>3, <2>1 DEF LeftOpen, Alone
  <1>6. CASE Process(c)
    <2>1. /\ UNCHANGED <<con, processed, deadLetters, abandoned, committed>>
          /\ proc[c].pc # "idle" /\ proc'[c].pc # "idle" /\ proc'[c].req = proc[c].req
          /\ ProcessStep(c)
        BY <1>0, <1>6, AttemptGoesOn DEF Process, queueVars
    <2>2. proc[c].req # r
        BY <2>1 DEF LeftOpen
    <2>3. doc'[r].status = doc[r].status
        BY <1>0, <2>1, <2>2, StatusWritten
    <2> QED
        BY <1>2, <1>3, <2>1, <2>2, <2>3 DEF LeftOpen, Alone
  <1>7. CASE ProcessorSettles(c)
    <2>1. /\ con[c].pc = "running" /\ UNCHANGED <<doc, deadLetters, abandoned, committed>>
          /\ con'[c].pos = pos /\ con'[c].joined = con[c].joined
          /\ processed' \subseteq processed \cup {pos}
        BY <1>0, <1>7 DEF ProcessorSettles, Return, Q!ProcessorResolves,
           Q!ProcessorRejects, Q!Goto, Q!At, Q!Pos, Q!Member
    <2>2. CASE proc[c].req = r
        BY <1>4, <2>1, <2>2
    <2>3. CASE proc[c].req # r
      <3>1. pos \notin OffsetsOf(r)
          BY <1>0, <2>1, <2>3 DEF Coupled, OffsetsOf
      <3>2. LeftOpen(r)
          BY <1>2, <2>1, <2>3, <3>1 DEF LeftOpen, Alone
      <3> QED
          BY <1>3, <2>1, <3>2
    <2> QED
        BY <2>2, <2>3
  <1>8. CASE ConsumerStep(c)
    <2>1. UNCHANGED <<doc, proc, committed, processed>>
        BY <1>8 DEF ConsumerStep, procVars, Q!Take, Q!DecodeMsg, Q!CheckOffset,
           Q!PublishOffset, Q!PublishToDlq
    <2>2. deadLetters \subseteq deadLetters' /\ abandoned \subseteq abandoned'
        BY <1>8 DEF ConsumerStep, Q!Take, Q!DecodeMsg, Q!CheckOffset,
           Q!PublishOffset, Q!PublishToDlq
    <2>3. LeftOpen(r)
        BY <1>2, <2>1, <2>2 DEF LeftOpen
    <2>4. CASE Q!Take(c) \/ Q!DecodeMsg(c) \/ Q!CheckOffset(c)
      <3>1. con'[c].pos = pos /\ con'[c].joined = con[c].joined
          BY <1>0, <2>4 DEF Q!Take, Q!DecodeMsg, Q!CheckOffset, Q!Goto, Q!Member
      <3> QED
          BY <1>3, <2>1, <2>3, <3>1
    <2>5. CASE Q!PublishOffset(c) \/ Q!PublishToDlq(c)
      <3>1. con'[c].pos = pos + 1 /\ con'[c].joined = con[c].joined /\ con[c].joined
          BY <1>0, <2>5 DEF Q!PublishOffset, Q!PublishToDlq, Q!Resolve, Q!Member, Q!At,
             Coupled
      <3>2. pos \notin OffsetsOf(r)
        <4>1. CASE Q!PublishOffset(c)
            BY <1>0, <2>3, <4>1 DEF Q!PublishOffset, Q!At, Coupled, LeftOpen, OffsetsOf
        <4>2. CASE Q!PublishToDlq(c)
            BY <1>2, <4>2 DEF Q!PublishToDlq, Q!Pos, LeftOpen
        <4> QED
            BY <2>5, <4>1, <4>2
      <3>3. ASSUME NEW o \in OffsetsOf(r), pos <= o
            PROVE  pos + 1 <= o
          BY <1>0, <3>2, <3>3 DEF OffsetsOf
      <3> QED
          BY <1>3, <2>1, <2>3, <3>1, <3>3
    <2> QED
        BY <1>8, <2>4, <2>5 DEF ConsumerStep
  <1>9. CASE Assign(c)
    <2>1. /\ UNCHANGED <<doc, proc, committed, processed, deadLetters, abandoned>>
          /\ con'[c].pos = committed
        BY <1>0, <1>9 DEF Assign, procVars, Q!Assign, Q!StartOffset
    <2>2. LeftOpen(r)
        BY <1>2, <2>1 DEF LeftOpen
    <2> QED
        BY <1>3, <2>1, <2>2
  <1>10. CASE GroupStep(c)
    <2>1. UNCHANGED <<doc, proc, processed, deadLetters, abandoned>>
        BY <1>10 DEF GroupStep, procVars, Q!Expelled, Q!Commit
    <2>2. LeftOpen(r)
        BY <1>2, <2>1 DEF LeftOpen
    <2>3. CASE Q!Expelled(c)
      <3>1. committed' = committed /\ ~con'[c].joined
          BY <1>0, <2>3 DEF Q!Expelled, Q!Outside
      <3> QED
          BY <1>3, <2>2, <3>1
    <2>4. CASE Q!Commit(c)
      <3>1. con' = con /\ committed' = pos /\ con[c].joined
          BY <1>0, <2>4 DEF Q!Commit, Q!Pos, Coupled, Q!Member
      <3> QED
          BY <1>3, <2>2, <3>1
    <2> QED
        BY <1>10, <2>3, <2>4 DEF GroupStep
  <1>11. CASE PodCrash(c)
    <2>1. /\ UNCHANGED <<doc, committed, processed, deadLetters, abandoned>>
          /\ ~con'[c].joined
        BY <1>0, <1>11 DEF PodCrash, Crash, Q!Crash, Q!Outside
    <2>2. CASE proc[c].pc # "idle" /\ proc[c].req = r
        BY <1>0, <1>4, <2>1, <2>2 DEF Coupled
    <2>3. CASE ~(proc[c].pc # "idle" /\ proc[c].req = r)
      <3>1. LeftOpen(r)
          BY <1>2, <2>1, <2>3 DEF LeftOpen, Alone
      <3> QED
          BY <1>3, <2>1, <3>1
    <2> QED
        BY <2>2, <2>3
  <1> QED
      BY <1>5, <1>6, <1>7, <1>8, <1>9, <1>10, <1>11 DEF PodStep

LEMMA NextRedelivered ==
  ASSUME Alone, PodInv, Redelivered, [PipelineNext]_pipelineVars
  PROVE  Redelivered'
  <1>1. CASE UNCHANGED pipelineVars
      BY <1>1 DEF pipelineVars, vars, queueVars, Redelivered, Redelivers, LeftOpen, Queued,
         OffsetsOf, Q!Offsets
  <1> QED
      BY <1>1, ApiRedelivered, PodRedelivered DEF PipelineNext

(* Once all deliveries of a request are committed, its status is final, or  *)
(* its message was dead-lettered or passed over after an error.             *)
THEOREM OpenDeadLettered ==
  ASSUME Alone, NotNew
  PROVE  PipelineSpec => []OpenRequestsAreDeadLettered
  <1> DEFINE Inv == PodInv /\ Redelivered
  <1>1. PipelineInit => Inv
      BY NotNew, InitPipeline, InitAttempting, InitCoupled, InitRedelivered
      DEF PipelineInit, PodInv
  <1>2. Inv /\ [PipelineNext]_pipelineVars => Inv'
    <2> SUFFICES ASSUME Inv, [PipelineNext]_pipelineVars PROVE Inv'
        OBVIOUS
    <2>1. PipelineInv' /\ Step
        BY NextPipeline DEF PodInv
    <2>2. AllAttempting'
        BY Alone, <2>1, NextAttempting DEF PodInv, PipelineInv
    <2>3. AllCoupled' /\ Redelivered'
        BY Alone, NextCoupled, NextRedelivered
    <2> QED
        BY <2>1, <2>2, <2>3 DEF PodInv
  <1>3. Inv => OpenRequestsAreDeadLettered
    <2> SUFFICES ASSUME Inv, NEW r \in Requests, Queued(r),
                        OffsetsOf(r) \subseteq (0..(committed - 1)) \cap processed,
                        OffsetsOf(r) \cap (deadLetters \cup abandoned) = {},
                        \A c \in Workers : proc[c].req # r
                 PROVE  Final(r)
        BY DEF OpenRequestsAreDeadLettered
    <2>1. ~Redelivers(r)
        BY DEF Redelivers, PodInv, AllCoupled
    <2>2. doc[r].status \in FinalStatus
        BY <2>1 DEF Redelivered, LeftOpen
    <2>3. r \in created
      <3>1. PICK o \in 0..(Len(log) - 1) : log[o + 1] = r
          BY DEF Queued, OffsetsOf, Q!Offsets
      <3>2. o + 1 \in 1..Len(log)
          BY <3>1 DEF PodInv, PipelineInv, Delivered, Q!TypeOK
      <3> QED
          BY <3>1, <3>2 DEF PodInv, PipelineInv, Submitted
    <2> QED
        BY <2>2, <2>3 DEF Final, GetStatus, FinalStatus
  <1> QED
      BY <1>1, <1>2, <1>3, PTL DEF PipelineSpec

=================================================================================
