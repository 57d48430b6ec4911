------------------------- MODULE ImageProcessorProofs -------------------------
(***************************************************************************)
(* Proofs about ImageProcessor, for every set of workers and requests,     *)
(* every number of images and every bound on faults and attempts.          *)
(*                                                                         *)
(*   Typed      the types, and the position of an attempt in its images    *)
(*   Private    a worker's attempt and its temporary directory             *)
(*   Begun      an attempt under way has taken its request from Accepted   *)
(*   Outputs    what an attempt lists was uploaded                         *)
(*   Published  what the documents and the webhook calls list is complete  *)
(*                                                                         *)
(* Typed is inductive, Private is inductive given Typed, and the last      *)
(* three together are inductive given both.                                *)
(***************************************************************************)
EXTENDS ImageProcessor, TLAPS, SequenceTheorems

USE ConstantsAssumption DEF UpdateStatus, UpdateRequest

-------------------------------------------------------------------------------
(* The shape of the steps *)

LEMMA IdleType == Idle \in Attempt
  BY DEF Idle, Attempt, PC

(* After a step of process() the worker is at pc, with the outputs out and  *)
(* wrote as its last status; it keeps its request and its id.               *)
Becomes(w, pc, out, wrote) ==
    /\ proc'[w].pc = pc /\ proc'[w].req = proc[w].req /\ proc'[w].id = proc[w].id
    /\ proc'[w].out = out /\ proc'[w].wrote = wrote
    /\ \A v \in Workers \ {w} : proc'[v] = proc[v]
    /\ proc' \in [Workers -> Attempt]

Moves(w, pc) == Becomes(w, pc, proc[w].out, proc[w].wrote)

LEMMA Moved ==
  ASSUME TypeOK, NEW w \in Workers, NEW pc \in PC,
         proc' = [proc EXCEPT ![w] = [proc[w] EXCEPT !.pc = pc]]
  PROVE  Moves(w, pc)
  <1> DEFINE q == [proc[w] EXCEPT !.pc = pc]
  <1>1. proc[w] \in Attempt /\ proc \in [Workers -> Attempt]
      BY DEF TypeOK
  <1>2. /\ q \in Attempt /\ q.pc = pc /\ q.req = proc[w].req /\ q.id = proc[w].id
        /\ q.out = proc[w].out /\ q.wrote = proc[w].wrote
      BY <1>1 DEF Attempt
  <1> HIDE DEF q
  <1>3. proc' = [proc EXCEPT ![w] = q]
      BY DEF q
  <1> QED
      BY <1>1, <1>2, <1>3 DEF Moves, Becomes

LEMMA Wrote ==
  ASSUME TypeOK, NEW w \in Workers, NEW pc \in PC, NEW s \in Status,
         proc' = [proc EXCEPT ![w] = [proc[w] EXCEPT !.pc = pc, !.wrote = s]]
  PROVE  Becomes(w, pc, proc[w].out, s)
  <1> DEFINE q == [proc[w] EXCEPT !.pc = pc, !.wrote = s]
  <1>1. proc[w] \in Attempt /\ proc \in [Workers -> Attempt]
      BY DEF TypeOK
  <1>2. /\ q \in Attempt /\ q.pc = pc /\ q.req = proc[w].req /\ q.id = proc[w].id
        /\ q.out = proc[w].out /\ q.wrote = s
      BY <1>1 DEF Attempt
  <1> HIDE DEF q
  <1>3. proc' = [proc EXCEPT ![w] = q]
      BY DEF q
  <1> QED
      BY <1>1, <1>2, <1>3 DEF Becomes

LEMMA SetProcessingForm ==
  ASSUME TypeOK, NEW w \in Workers, SetProcessing(w)
  PROVE  \E pc \in {NextImage(proc[w]), "cleanUpFailed"} :
            Becomes(w, pc, proc[w].out, "Processing")
  <1>1. PICK pc \in {NextImage(proc[w]), "cleanUpFailed"} :
          proc' = [proc EXCEPT ![w] = [proc[w] EXCEPT !.pc = pc, !.wrote = "Processing"]]
      BY DEF SetProcessing, Await, TypeOK, Attempt
  <1>2. pc \in PC
      BY DEF NextImage, PC, TrySteps, ImageSteps
  <1> QED
      BY <1>1, <1>2, Wrote DEF Status

LEMMA AwaitFileForm ==
  ASSUME TypeOK, NEW w \in Workers, AwaitFile(w)
  PROVE  /\ proc[w].pc \in {"getImage", "saveImage", "convert", "dropInput"}
         /\ \E pc \in {"makeDir", "convert", "dropInput", "upload"} : Moves(w, pc)
  <1> DEFINE pc == AfterAwait[proc[w].pc]
  <1>1. /\ proc[w].pc \in {"getImage", "saveImage", "convert", "dropInput"}
        /\ pc \in {"makeDir", "convert", "dropInput", "upload"}
      BY DEF AwaitFile, AfterAwait
  <1>2. proc' = [proc EXCEPT ![w] = [proc[w] EXCEPT !.pc = pc]]
      BY DEF AwaitFile, Goto
  <1> HIDE DEF pc
  <1>3. pc \in PC
      BY <1>1 DEF PC, TrySteps, ImageSteps
  <1> QED
      BY <1>1, <1>2, <1>3, Moved

LEMMA MakeDirForm ==
  ASSUME TypeOK, NEW w \in Workers, MakeDir(w)
  PROVE  Moves(w, "saveImage")
  <1>1. PICK pc \in {"saveImage"} : proc' = [proc EXCEPT ![w] = [proc[w] EXCEPT !.pc = pc]]
      BY DEF MakeDir, Goto
  <1>2. pc \in PC
      BY DEF PC, TrySteps, ImageSteps
  <1> QED
      BY <1>1, <1>2, Moved

LEMMA UploadFileForm ==
  ASSUME TypeOK, NEW w \in Workers, UploadFile(w)
  PROVE  \E pc \in {"dropOutput", "cleanUpFailed"} : Moves(w, pc)
  <1>1. PICK pc \in {"dropOutput", "cleanUpFailed"} : proc' = [proc EXCEPT ![w] = [proc[w] EXCEPT !.pc = pc]]
      BY DEF UploadFile, Await, TypeOK, Attempt
  <1>2. pc \in PC
      BY DEF PC, TrySteps, ImageSteps
  <1> QED
      BY <1>1, <1>2, Moved

LEMMA DropOutputForm ==
  ASSUME TypeOK, NEW w \in Workers, DropOutput(w), CurrentFile(proc[w]) \in File
  PROVE  \E pc \in {"getImage", "cleanUp"}, out \in Seq(File) :
            /\ out = Append(proc[w].out, CurrentFile(proc[w]))
            /\ Becomes(w, pc, out, proc[w].wrote)
            /\ IF pc = "getImage" THEN Len(out) < NumImages[Req(w)]
                                  ELSE ~(Len(out) < NumImages[Req(w)])
  <1> DEFINE out == Append(proc[w].out, CurrentFile(proc[w]))
             p == [proc[w] EXCEPT !.out = out]
             q == [p EXCEPT !.pc = NextImage(p)]
  <1>1. proc[w] \in Attempt /\ proc \in [Workers -> Attempt]
      BY DEF TypeOK
  <1>2. out \in Seq(File)
      BY <1>1, AppendProperties DEF Attempt
  <1> HIDE DEF out
  <1>3. /\ p \in Attempt /\ p.out = out /\ p.req = proc[w].req
        /\ p.id = proc[w].id /\ p.wrote = proc[w].wrote
      BY <1>1, <1>2 DEF Attempt
  <1>4. proc' = [proc EXCEPT ![w] = q]
      BY DEF DropOutput, out
  <1> HIDE DEF p
  <1>5. /\ NextImage(p) \in {"getImage", "cleanUp"}
        /\ IF NextImage(p) = "getImage" THEN Len(out) < NumImages[Req(w)]
                                        ELSE ~(Len(out) < NumImages[Req(w)])
      BY <1>3 DEF NextImage, Req
  <1>6. /\ q \in Attempt /\ q.pc = NextImage(p) /\ q.out = out
        /\ q.req = proc[w].req /\ q.id = proc[w].id /\ q.wrote = proc[w].wrote
      BY <1>3, <1>5 DEF Attempt, PC, TrySteps, ImageSteps
  <1> HIDE DEF q
  <1>7. Becomes(w, NextImage(p), out, proc[w].wrote)
      BY <1>1, <1>4, <1>6 DEF Becomes
  <1> QED
      BY <1>2, <1>5, <1>7 DEF out

LEMMA CleanUpForm ==
  ASSUME TypeOK, NEW w \in Workers, CleanUp(w)
  PROVE  \E pc \in {"setSucceeded", "cleanUpFailed"} :
            Moves(w, pc) /\ (pc = "setSucceeded" <=> Req(w) \in tmp[w])
  <1> DEFINE pc == IF Req(w) \in tmp[w] THEN "setSucceeded" ELSE "cleanUpFailed"
  <1>1. proc' = [proc EXCEPT ![w] = [proc[w] EXCEPT !.pc = pc]]
      BY DEF CleanUp, Goto
  <1>2. pc \in {"setSucceeded", "cleanUpFailed"} /\ pc \in PC /\ (pc = "setSucceeded" <=> Req(w) \in tmp[w])
      BY DEF PC, TrySteps
  <1> HIDE DEF pc
  <1> QED
      BY <1>1, <1>2, Moved

LEMMA SetSucceededForm ==
  ASSUME TypeOK, NEW w \in Workers, SetSucceeded(w)
  PROVE  \E pc \in {"webhook", "cleanUpFailed"} :
            Becomes(w, pc, proc[w].out, "Succeeded")
  <1>1. PICK pc \in {"webhook", "cleanUpFailed"} :
          proc' = [proc EXCEPT ![w] = [proc[w] EXCEPT !.pc = pc, !.wrote = "Succeeded"]]
      BY DEF SetSucceeded, Await, TypeOK, Attempt
  <1>2. pc \in PC
      BY DEF PC, TrySteps, ImageSteps
  <1> QED
      BY <1>1, <1>2, Wrote DEF Status

LEMMA CallWebhookForm ==
  ASSUME TypeOK, NEW w \in Workers, CallWebhook(w)
  PROVE  \E pc \in {"resolved", "cleanUpFailed"} : Moves(w, pc)
  <1>1. PICK pc \in {"resolved", "cleanUpFailed"} : proc' = [proc EXCEPT ![w] = [proc[w] EXCEPT !.pc = pc]]
      BY DEF CallWebhook, Await, TypeOK, Attempt
  <1>2. pc \in PC
      BY DEF PC, TrySteps, ImageSteps
  <1> QED
      BY <1>1, <1>2, Moved

LEMMA CallRejectsForm ==
  ASSUME TypeOK, NEW w \in Workers, CallRejects(w)
  PROVE  Moves(w, "cleanUpFailed")
  <1>1. PICK pc \in {"cleanUpFailed"} : proc' = [proc EXCEPT ![w] = [proc[w] EXCEPT !.pc = pc]]
      BY DEF CallRejects
  <1>2. pc \in PC
      BY DEF PC, TrySteps, ImageSteps
  <1> QED
      BY <1>1, <1>2, Moved

LEMMA CleanUpFailedForm ==
  ASSUME TypeOK, NEW w \in Workers, CleanUpFailed(w)
  PROVE  \E pc \in {"setFailed", "rejected"} :
            Moves(w, pc) /\ (pc = "setFailed" <=> Req(w) \in tmp[w])
  <1> DEFINE pc == IF Req(w) \in tmp[w] THEN "setFailed" ELSE "rejected"
  <1>1. proc' = [proc EXCEPT ![w] = [proc[w] EXCEPT !.pc = pc]]
      BY DEF CleanUpFailed, Goto
  <1>2. pc \in {"setFailed", "rejected"} /\ pc \in PC /\ (pc = "setFailed" <=> Req(w) \in tmp[w])
      BY DEF PC, TrySteps
  <1> HIDE DEF pc
  <1> QED
      BY <1>1, <1>2, Moved

LEMMA SetFailedForm ==
  ASSUME TypeOK, NEW w \in Workers, SetFailed(w)
  PROVE  \/ \E pc \in {"resolved", "rejected"} :
               Becomes(w, pc, proc[w].out, "Failed")
         \/ Moves(w, "rejected")
  <1>1. PICK pc \in {"resolved", "rejected"} :
          \/ proc' = [proc EXCEPT ![w] = [proc[w] EXCEPT !.pc = pc, !.wrote = "Failed"]]
          \/ /\ proc' = [proc EXCEPT ![w] = [proc[w] EXCEPT !.pc = pc]]
             /\ pc = "rejected"
      BY DEF SetFailed
  <1>2. pc \in PC /\ "Failed" \in Status
      BY DEF PC, Status
  <1>3. CASE proc' = [proc EXCEPT ![w] = [proc[w] EXCEPT !.pc = pc, !.wrote = "Failed"]]
      BY <1>2, <1>3, Wrote
  <1>4. CASE /\ proc' = [proc EXCEPT ![w] = [proc[w] EXCEPT !.pc = pc]]
             /\ pc = "rejected"
      BY <1>2, <1>4, Moved
  <1> QED
      BY <1>1, <1>3, <1>4

LEMMA BeginForm ==
  ASSUME TypeOK, NEW w \in Workers, NEW r \in Requests, Begin(w, r)
  PROVE  /\ proc'[w].pc = "setProcessing" /\ proc'[w].req = r
         /\ proc'[w].out = << >> /\ proc'[w].wrote = "nothing"
         /\ \A v \in Workers \ {w} : proc'[v] = proc[v]
         /\ proc' \in [Workers -> Attempt] /\ attempts' \in Nat
  <1> DEFINE p == [Idle EXCEPT !.pc = "setProcessing", !.req = r, !.id = attempts']
  <1>1. attempts' \in Nat /\ proc' = [proc EXCEPT ![w] = p]
      BY DEF TypeOK, Begin
  <1>2. p \in Attempt
      BY <1>1, IdleType DEF Attempt, PC, TrySteps
  <1>3. p.pc = "setProcessing" /\ p.req = r /\ p.out = << >> /\ p.wrote = "nothing"
      BY DEF Idle
  <1> HIDE DEF p
  <1> QED
      BY <1>1, <1>2, <1>3 DEF TypeOK

LEMMA StopForm ==
  ASSUME TypeOK, NEW w \in Workers, Return(w) \/ Crash(w)
  PROVE  /\ proc'[w].pc = "idle" /\ proc'[w].req = NoRequest
         /\ proc'[w].out = << >> /\ proc'[w].wrote = "nothing"
         /\ \A v \in Workers \ {w} : proc'[v] = proc[v]
         /\ proc' \in [Workers -> Attempt]
  <1>1. proc' = [proc EXCEPT ![w] = Idle]
      BY DEF Return, Crash
  <1>2. /\ Idle.pc = "idle" /\ Idle.req = NoRequest
        /\ Idle.out = << >> /\ Idle.wrote = "nothing"
      BY DEF Idle
  <1> QED
      BY <1>1, <1>2, IdleType DEF TypeOK

(* A step of process() leaves the attempts and directories of the others.   *)
LEMMA OthersKeep ==
  ASSUME TypeOK, NEW w \in Workers, ProcessStep(w)
  PROVE  \A v \in Workers \ {w} : proc'[v] = proc[v] /\ tmp'[v] = tmp[v]
  BY DEF TypeOK, Goto, Await, ProcessStep, SetProcessing, AwaitFile, MakeDir,
     UploadFile, DropOutput, CleanUp, SetSucceeded, CallWebhook, CallRejects,
     CleanUpFailed, SetFailed

WorkerStep(w) ==
    ProcessStep(w) \/ Return(w) \/ Crash(w) \/ \E r \in Requests : Begin(w, r)

(* What the lemmas below are about: the step of one worker, or a step of    *)
(* the environment, which may count a fault of its own.  A system this      *)
(* module is part of takes no other step (ImagePipelineProofs), and calls   *)
(* process() as often as it likes.                                          *)
Quiet == UNCHANGED <<doc, proc, tmp, uploads, hooks, attempts>> /\ faults' \in Nat
Step == Quiet \/ \E w \in Workers : WorkerStep(w)

-------------------------------------------------------------------------------
(* Types *)

(* The image an attempt is at is one of its request's.                      *)
InRange(w) ==
    proc[w].pc # "idle" =>
        /\ proc[w].req \in Requests
        /\ Len(proc[w].out) <= NumImages[proc[w].req]
        /\ proc[w].pc \in ImageSteps => Len(proc[w].out) < NumImages[proc[w].req]

Typed == TypeOK /\ \A w \in Workers : InRange(w)

LEMMA NextIsStep == Typed /\ [Next]_vars => Step
  BY DEF Next, WorkerStep, Step, Quiet, Typed, TypeOK, vars

LEMMA InitTyped == Init => Typed
  <1> SUFFICES ASSUME Init PROVE Typed
      OBVIOUS
  <1>1. TypeOK
      BY IdleType DEF Init, TypeOK, Status, Document
  <1>2. ASSUME NEW w \in Workers PROVE InRange(w)
      BY DEF Init, InRange, Idle
  <1> QED
      BY <1>1, <1>2 DEF Typed

(* The image an attempt uploads is one of its request's.                    *)
LEMMA CurrentFileType ==
  ASSUME TypeOK, NEW w \in Workers, InRange(w), proc[w].pc \in ImageSteps
  PROVE  CurrentFile(proc[w]) \in File
  <1>1. /\ proc[w].req \in Requests /\ proc[w].id \in Nat
        /\ Len(proc[w].out) \in Nat /\ Len(proc[w].out) < NumImages[proc[w].req]
      BY DEF TypeOK, Attempt, InRange, ImageSteps
  <1> QED
      BY <1>1 DEF CurrentFile, File

LEMMA StepInRange ==
  ASSUME TypeOK, NEW w \in Workers, InRange(w), ProcessStep(w)
  PROVE  proc' \in [Workers -> Attempt] /\ InRange(w)'
  <1> USE DEF InRange, Moves, Becomes, At, Req
  <1>0. Len(proc[w].out) \in Nat
      BY DEF TypeOK, Attempt
  <1>1. CASE SetProcessing(w)
    <2>1. /\ proc[w].pc = "setProcessing" /\ proc[w].req \in Requests
          /\ NextImage(proc[w]) \in {"getImage", "cleanUp"}
          /\ NextImage(proc[w]) = "getImage" => Len(proc[w].out) < NumImages[proc[w].req]
        BY <1>1 DEF SetProcessing, NextImage
    <2> QED
        BY <1>1, <2>1, SetProcessingForm DEF ImageSteps
  <1>2. CASE AwaitFile(w)
      BY <1>2, AwaitFileForm DEF ImageSteps
  <1>3. CASE MakeDir(w)
      BY <1>3, MakeDirForm DEF MakeDir, ImageSteps
  <1>4. CASE UploadFile(w)
      BY <1>4, UploadFileForm DEF UploadFile, ImageSteps
  <1>5. CASE DropOutput(w)
    <2>1. /\ proc[w].pc = "dropOutput" /\ CurrentFile(proc[w]) \in File
          /\ Len(proc[w].out) < NumImages[proc[w].req]
        BY <1>5, CurrentFileType DEF DropOutput, ImageSteps
    <2>2. PICK pc \in {"getImage", "cleanUp"}, out \in Seq(File) :
            /\ out = Append(proc[w].out, CurrentFile(proc[w]))
            /\ Becomes(w, pc, out, proc[w].wrote)
            /\ IF pc = "getImage" THEN Len(out) < NumImages[Req(w)]
                                  ELSE ~(Len(out) < NumImages[Req(w)])
        BY <1>5, <2>1, DropOutputForm
    <2>3. Len(out) = Len(proc[w].out) + 1
        BY <2>1, <2>2, AppendProperties DEF TypeOK, Attempt
    <2> QED
        BY <1>0, <2>1, <2>2, <2>3 DEF ImageSteps
  <1>6. CASE CleanUp(w)
      BY <1>6, CleanUpForm DEF CleanUp, ImageSteps
  <1>7. CASE SetSucceeded(w)
      BY <1>7, SetSucceededForm DEF SetSucceeded, ImageSteps
  <1>8. CASE CallWebhook(w)
      BY <1>8, CallWebhookForm DEF CallWebhook, ImageSteps
  <1>9. CASE CallRejects(w)
      BY <1>9, CallRejectsForm DEF CallRejects, TrySteps, ImageSteps
  <1>10. CASE CleanUpFailed(w)
      BY <1>10, CleanUpFailedForm DEF CleanUpFailed, ImageSteps
  <1>11. CASE SetFailed(w)
      BY <1>11, SetFailedForm DEF SetFailed, ImageSteps
  <1> QED
      BY <1>1, <1>2, <1>3, <1>4, <1>5, <1>6, <1>7, <1>8, <1>9, <1>10, <1>11
      DEF ProcessStep

(* The documents, uploads and webhook calls a step of process() leaves.     *)
LEMMA StepData ==
  ASSUME TypeOK, NEW w \in Workers, InRange(w), ProcessStep(w)
  PROVE  /\ doc' \in [Requests -> Document]
         /\ tmp' \in [Workers -> SUBSET Requests]
         /\ uploads' \subseteq File /\ hooks' \subseteq WebhookCall
         /\ faults' \in Nat /\ attempts' \in Nat
  <1> USE DEF TypeOK, At, Req
  <1>0. proc[w] \in Attempt /\ (proc[w].pc # "idle" => proc[w].req \in Requests)
      BY DEF InRange
  <1>1. ASSUME NEW s \in Status, NEW r \in Requests
        PROVE  [doc EXCEPT ![r].status = s] \in [Requests -> Document]
      BY DEF Document
  <1>2. CASE SetProcessing(w)
    <2>1. doc' \in [Requests -> Document]
        BY <1>0, <1>1, <1>2 DEF SetProcessing, Status
    <2> QED
        BY <1>2, <2>1 DEF SetProcessing, Await, CallFault, Fault
  <1>3. CASE AwaitFile(w) \/ DropOutput(w) \/ CleanUp(w) \/ CleanUpFailed(w)
      BY <1>3 DEF AwaitFile, DropOutput, CleanUp, CleanUpFailed, Goto
  <1>4. CASE MakeDir(w)
      BY <1>0, <1>4 DEF MakeDir, Goto
  <1>5. CASE UploadFile(w)
    <2>1. CurrentFile(proc[w]) \in File
        BY <1>5, CurrentFileType DEF UploadFile, ImageSteps
    <2> QED
        BY <1>5, <2>1 DEF UploadFile, Await, CallFault, Fault
  <1>6. CASE SetSucceeded(w)
    <2>1. [status |-> "Succeeded", outputs |-> proc[w].out] \in Document
        BY <1>0 DEF Document, Status, Attempt
    <2>2. doc' \in [Requests -> Document]
        BY <1>6, <2>1 DEF SetSucceeded
    <2> QED
        BY <1>6, <2>2 DEF SetSucceeded, Await, CallFault, Fault
  <1>7. CASE CallWebhook(w)
    <2>1. [req |-> proc[w].req, out |-> proc[w].out] \in WebhookCall
        BY <1>0, <1>7 DEF CallWebhook, WebhookCall, Attempt
    <2> QED
        BY <1>7, <2>1 DEF CallWebhook, Await, CallFault, Fault
  <1>8. CASE CallRejects(w)
      BY <1>8 DEF CallRejects, CallFault, Fault
  <1>9. CASE SetFailed(w)
    <2>1. doc' \in [Requests -> Document]
        BY <1>0, <1>1, <1>9 DEF SetFailed, Status
    <2> QED
        BY <1>9, <2>1 DEF SetFailed, CallFault, Fault
  <1> QED
      BY <1>2, <1>3, <1>4, <1>5, <1>6, <1>7, <1>8, <1>9 DEF ProcessStep

LEMMA NextTyped == Typed /\ Step => Typed'
  <1> SUFFICES ASSUME Typed, Step PROVE Typed'
      OBVIOUS
  <1>1. CASE Quiet
      BY <1>1 DEF Typed, TypeOK, InRange, Quiet
  <1>2. ASSUME NEW w \in Workers, WorkerStep(w) PROVE Typed'
    <2> USE DEF Typed
    <2>1. CASE ProcessStep(w)
      <3>1. TypeOK'
          BY <2>1, StepInRange, StepData DEF TypeOK
      <3>2. \A v \in Workers \ {w} : proc'[v] = proc[v]
          BY <2>1, OthersKeep
      <3> QED
          BY <2>1, <3>1, <3>2, StepInRange DEF InRange
    <2>2. CASE Return(w) \/ Crash(w)
      <3>1. TypeOK'
          BY <2>2, StopForm DEF TypeOK, Return, Crash, Fault
      <3> QED
          BY <2>2, <3>1, StopForm DEF InRange
    <2>3. ASSUME NEW r \in Requests, Begin(w, r) PROVE Typed'
      <3>1. TypeOK'
          BY <2>3, BeginForm DEF TypeOK, Begin
      <3>2. Len(proc'[w].out) = 0 /\ NumImages[r] \in Nat
          BY <2>3, BeginForm
      <3> QED
          BY <2>3, <3>1, <3>2, BeginForm DEF InRange, ImageSteps
    <2> QED
        BY <1>2, <2>1, <2>2, <2>3 DEF WorkerStep
  <1> QED
      BY <1>1, <1>2 DEF Step

(* Every variable keeps its type.                                           *)
THEOREM TypeCorrect == Spec => []TypeOK
  <1>1. Typed => TypeOK
      BY DEF Typed
  <1> QED
      BY InitTyped, NextTyped, NextIsStep, <1>1, PTL DEF Spec

-------------------------------------------------------------------------------
(* The temporary directory decides which status an attempt may write: once  *)
(* Succeeded is written the directory is gone, so that the rmdir of         *)
(* handleError rejects before Failed is written.                            *)

Directory(w) ==
    /\ tmp[w] \subseteq {proc[w].req}
    /\ proc[w].pc \in {"idle", "setProcessing", "setSucceeded", "webhook",
                       "setFailed", "resolved", "rejected"} => tmp[w] = {}

LastWrite(w) ==
    /\ proc[w].pc = "webhook" => proc[w].wrote = "Succeeded"
    /\ proc[w].pc = "resolved" => proc[w].wrote \in {"Succeeded", "Failed"}
    /\ proc[w].wrote = "Succeeded" =>
          /\ proc[w].pc \in {"webhook", "cleanUpFailed", "resolved", "rejected"}
          /\ tmp[w] = {}

Private == \A w \in Workers : Directory(w) /\ LastWrite(w)

LEMMA InitPrivate == Init => Private
  <1> SUFFICES ASSUME Init, NEW w \in Workers PROVE Directory(w) /\ LastWrite(w)
      BY DEF Private
  <1>1. proc[w].pc = "idle" /\ proc[w].wrote = "nothing" /\ tmp[w] = {}
      BY DEF Init, Idle
  <1> QED
      BY <1>1 DEF Directory, LastWrite

LEMMA StepPrivate ==
  ASSUME TypeOK, NEW w \in Workers, InRange(w), Directory(w), LastWrite(w),
         ProcessStep(w)
  PROVE  (Directory(w) /\ LastWrite(w))'
  <1> USE DEF Directory, LastWrite, Moves, Becomes, At, Req
  <1>0. tmp \in [Workers -> SUBSET Requests]
      BY DEF TypeOK
  <1>1. CASE SetProcessing(w)
    <2>1. NextImage(proc[w]) \in {"getImage", "cleanUp"}
        BY DEF NextImage
    <2> QED
        BY <1>1, <2>1, SetProcessingForm DEF SetProcessing
  <1>2. CASE AwaitFile(w)
      BY <1>2, AwaitFileForm DEF AwaitFile
  <1>3. CASE MakeDir(w)
      BY <1>0, <1>3, MakeDirForm DEF MakeDir
  <1>4. CASE UploadFile(w)
      BY <1>4, UploadFileForm DEF UploadFile
  <1>5. CASE DropOutput(w)
    <2>1. CurrentFile(proc[w]) \in File
        BY <1>5, CurrentFileType DEF DropOutput, ImageSteps
    <2> QED
        BY <1>5, <2>1, DropOutputForm DEF DropOutput
  <1>6. CASE CleanUp(w)
      BY <1>0, <1>6, CleanUpForm DEF CleanUp
  <1>7. CASE SetSucceeded(w)
      BY <1>7, SetSucceededForm DEF SetSucceeded
  <1>8. CASE CallWebhook(w)
      BY <1>8, CallWebhookForm DEF CallWebhook
  <1>9. CASE CallRejects(w)
      BY <1>9, CallRejectsForm DEF CallRejects, TrySteps, ImageSteps
  <1>10. CASE CleanUpFailed(w)
      BY <1>0, <1>10, CleanUpFailedForm DEF CleanUpFailed
  <1>11. CASE SetFailed(w)
      BY <1>11, SetFailedForm DEF SetFailed
  <1> QED
      BY <1>1, <1>2, <1>3, <1>4, <1>5, <1>6, <1>7, <1>8, <1>9, <1>10, <1>11
      DEF ProcessStep

LEMMA NextPrivate == Typed /\ Private /\ Step => Private'
  <1> SUFFICES ASSUME Typed, Private, Step PROVE Private'
      OBVIOUS
  <1>1. CASE Quiet
      BY <1>1 DEF Private, Directory, LastWrite, Quiet
  <1>2. ASSUME NEW w \in Workers, WorkerStep(w) PROVE Private'
    <2> USE DEF Typed, Private
    <2>1. CASE ProcessStep(w)
      <3>1. (Directory(w) /\ LastWrite(w))'
          BY <2>1, StepPrivate
      <3>2. ASSUME NEW v \in Workers \ {w} PROVE (Directory(v) /\ LastWrite(v))'
          BY <2>1, OthersKeep DEF Directory, LastWrite
      <3> QED
          BY <3>1, <3>2
    <2>2. CASE Return(w) \/ Crash(w)
      <3>1. tmp'[w] = {} /\ \A v \in Workers \ {w} : tmp'[v] = tmp[v]
          BY <2>2 DEF Return, Crash, TypeOK, Directory
      <3> QED
          BY <2>2, <3>1, StopForm DEF Directory, LastWrite
    <2>3. ASSUME NEW r \in Requests, Begin(w, r) PROVE Private'
      <3>1. tmp' = tmp /\ tmp[w] = {}
          BY <2>3 DEF Begin, At, Directory
      <3> QED
          BY <2>3, <3>1, BeginForm DEF Directory, LastWrite
    <2> QED
        BY <1>2, <2>1, <2>2, <2>3 DEF WorkerStep
  <1> QED
      BY <1>1, <1>2 DEF Step

LEMMA PrivateInvariant == Spec => [](Typed /\ Private)
  BY InitTyped, NextTyped, NextIsStep, InitPrivate, NextPrivate, PTL DEF Spec

(* A settled attempt has released its directory.                            *)
THEOREM DirectoryReleased == Spec => []TempDirReleased
  <1>1. Typed /\ Private => TempDirReleased
      BY DEF Private, Directory, TempDirReleased
  <1> QED
      BY PrivateInvariant, <1>1, PTL

(* An attempt that resolves wrote a final status.                           *)
THEOREM ResolvedWroteFinal == Spec => []ResolvedIsFinal
  <1>1. Typed /\ Private => ResolvedIsFinal
      BY DEF Private, LastWrite, ResolvedIsFinal, At
  <1> QED
      BY PrivateInvariant, <1>1, PTL

(* Only SetFailed writes Failed, and Private keeps an attempt that wrote    *)
(* Succeeded away from it.                                                  *)
LEMMA StepKeepsSuccess ==
  ASSUME Typed, Private, Step, NEW v \in Workers,
         proc[v].wrote = "Succeeded"
  PROVE  proc'[v].wrote # "Failed"
  <1> USE DEF Typed, Private
  <1>0. proc[v].pc \in {"webhook", "cleanUpFailed", "resolved", "rejected"}
      BY DEF LastWrite
  <1>1. CASE Quiet
      BY <1>1 DEF Quiet
  <1>2. ASSUME NEW w \in Workers, WorkerStep(w) PROVE proc'[v].wrote # "Failed"
    <2>1. CASE v # w
        BY <1>2, <2>1, OthersKeep, StopForm, BeginForm DEF WorkerStep
    <2>2. CASE v = w /\ ~ProcessStep(w)
        BY <1>2, <2>2, StopForm, BeginForm DEF WorkerStep
    <2>3. CASE v = w /\ ProcessStep(w)
      <3>1. CallWebhook(v) \/ CallRejects(v) \/ CleanUpFailed(v)
          BY <1>0, <2>3 DEF ProcessStep, SetProcessing, AwaitFile, AfterAwait,
             MakeDir, UploadFile, DropOutput, CleanUp, SetSucceeded, SetFailed, At
      <3> QED
          BY <3>1, CallWebhookForm, CallRejectsForm, CleanUpFailedForm
             DEF Moves, Becomes
    <2> QED
        BY <2>1, <2>2, <2>3
  <1> QED
      BY <1>1, <1>2 DEF Step

(* An attempt that stored Succeeded never records Failed after it.          *)
THEOREM SuccessStays == Spec => SuccessNotRevoked
  <1>1. Typed /\ Private /\ [Next]_vars
          => [\A w \in Workers :
                proc[w].wrote = "Succeeded" => proc'[w].wrote # "Failed"]_vars
      BY StepKeepsSuccess, NextIsStep
  <1> QED
      BY PrivateInvariant, <1>1, PTL DEF Spec, SuccessNotRevoked

-------------------------------------------------------------------------------
(* The documents *)

Begun(w) ==
    \/ proc[w].pc \notin {"idle", "setProcessing", "cleanUpFailed", "rejected"}
    \/ tmp[w] # {}
    => proc[w].req \in Requests /\ doc[proc[w].req].status # "Accepted"

AllBegun == \A w \in Workers : Begun(w)

(* What a step of process() does to the documents: only its own request's   *)
(* changes, and the status that is written is the one of its pc.            *)
LEMMA StatusWritten ==
  ASSUME TypeOK, NEW w \in Workers, InRange(w), ProcessStep(w), NEW r \in Requests
  PROVE  \/ doc'[r].status = doc[r].status
         \/ /\ r = proc[w].req
            /\ \/ proc[w].pc = "setProcessing" /\ doc'[r].status = "Processing"
               \/ proc[w].pc = "setSucceeded" /\ doc'[r].status = "Succeeded"
               \/ proc[w].pc = "setFailed" /\ doc'[r].status = "Failed"
  <1> USE DEF At, Req
  <1>1. doc \in [Requests -> Document]
      BY DEF TypeOK
  <1>2. ASSUME NEW q \in Requests, NEW s, doc' = [doc EXCEPT ![q].status = s]
        PROVE  /\ doc'[q].status = s
               /\ r # q => doc'[r] = doc[r]
      BY <1>1, <1>2 DEF Document
  <1>3. CASE doc' = doc
      BY <1>3
  <1>4. CASE SetProcessing(w)
      BY <1>2, <1>4 DEF SetProcessing, InRange
  <1>5. CASE SetSucceeded(w)
      BY <1>1, <1>5 DEF SetSucceeded, InRange
  <1>6. CASE SetFailed(w) /\ doc' # doc
      BY <1>2, <1>6 DEF SetFailed, InRange
  <1> QED
      BY <1>3, <1>4, <1>5, <1>6 DEF ProcessStep, AwaitFile, MakeDir, UploadFile,
         DropOutput, CleanUp, CallWebhook, CallRejects, CleanUpFailed

LEMMA InitBegun == Init => AllBegun
  <1> SUFFICES ASSUME Init, NEW w \in Workers PROVE Begun(w)
      BY DEF AllBegun
  <1>1. proc[w].pc = "idle" /\ tmp[w] = {}
      BY DEF Init, Idle
  <1> QED
      BY <1>1 DEF Begun

(* A step of process() stays within its attempt.                            *)
LEMMA AttemptGoesOn ==
  ASSUME TypeOK, NEW w \in Workers, InRange(w), ProcessStep(w)
  PROVE  /\ proc[w].pc # "idle" /\ proc'[w].pc # "idle"
         /\ proc'[w].req = proc[w].req
  <1> USE DEF Moves, Becomes, At
  <1>1. CASE SetProcessing(w)
    <2>1. proc[w].pc = "setProcessing"
        BY <1>1 DEF SetProcessing
    <2> QED
        BY <1>1, <2>1, SetProcessingForm DEF NextImage
  <1>2. CASE AwaitFile(w)
      BY <1>2, AwaitFileForm DEF AwaitFile
  <1>3. CASE MakeDir(w)
      BY <1>3, MakeDirForm DEF MakeDir
  <1>4. CASE UploadFile(w)
      BY <1>4, UploadFileForm DEF UploadFile
  <1>5. CASE DropOutput(w)
    <2>1. CurrentFile(proc[w]) \in File /\ proc[w].pc = "dropOutput"
        BY <1>5, CurrentFileType DEF DropOutput, ImageSteps
    <2>2. \E pc \in {"getImage", "cleanUp"}, out \in Seq(File) :
             Becomes(w, pc, out, proc[w].wrote)
        BY <1>5, <2>1, DropOutputForm
    <2> QED
        BY <2>1, <2>2
  <1>6. CASE CleanUp(w)
      BY <1>6, CleanUpForm DEF CleanUp
  <1>7. CASE SetSucceeded(w)
    <2>1. proc[w].pc = "setSucceeded"
        BY <1>7 DEF SetSucceeded
    <2> QED
        BY <1>7, <2>1, SetSucceededForm
  <1>8. CASE CallWebhook(w)
      BY <1>8, CallWebhookForm DEF CallWebhook
  <1>9. CASE CallRejects(w)
      BY <1>9, CallRejectsForm DEF CallRejects, TrySteps, ImageSteps
  <1>10. CASE CleanUpFailed(w)
      BY <1>10, CleanUpFailedForm DEF CleanUpFailed
  <1>11. CASE SetFailed(w)
    <2>1. proc[w].pc = "setFailed"
        BY <1>11 DEF SetFailed
    <2> QED
        BY <1>11, <2>1, SetFailedForm
  <1> QED
      BY <1>1, <1>2, <1>3, <1>4, <1>5, <1>6, <1>7, <1>8, <1>9, <1>10, <1>11
      DEF ProcessStep

(* A step of process() keeps its own attempt Begun.                         *)
LEMMA StepBegun ==
  ASSUME TypeOK, NEW w \in Workers, InRange(w), Directory(w), Begun(w),
         ProcessStep(w)
  PROVE  Begun(w)'
  <1> USE DEF Begun, Moves, Becomes, At, Req
  <1> DEFINE r == proc[w].req
  <1>0. /\ tmp \in [Workers -> SUBSET Requests]
        /\ doc \in [Requests -> Document] /\ tmp[w] \subseteq {r}
      BY DEF TypeOK, Directory
  <1>1. r \in Requests
      BY DEF InRange, ProcessStep, SetProcessing, AwaitFile, AfterAwait, MakeDir, UploadFile,
         DropOutput, CleanUp, SetSucceeded, CallWebhook, CallRejects, TrySteps,
         ImageSteps, CleanUpFailed, SetFailed
  <1>2. doc[r].status # "Accepted" => doc'[r].status # "Accepted"
      BY <1>1, StatusWritten
  <1>3. CASE proc[w].pc = "setProcessing"
    <2>1. CASE SetProcessing(w)
      <3>1. doc'[r].status = "Processing"
          BY <1>0, <1>1, <2>1 DEF SetProcessing, Document
      <3> QED
          BY <1>1, <2>1, <3>1, SetProcessingForm
    <2>2. CASE CallRejects(w)
      <3>1. tmp'[w] = {}
          BY <1>3, <2>2 DEF CallRejects, Directory
      <3> QED
          BY <2>2, <3>1, CallRejectsForm
    <2> QED
        BY <1>3, <2>1, <2>2 DEF ProcessStep, AwaitFile, AfterAwait, MakeDir,
           UploadFile, DropOutput, CleanUp, SetSucceeded, CallWebhook,
           CleanUpFailed, SetFailed
  <1>4. CASE CleanUpFailed(w)
      BY <1>0, <1>1, <1>2, <1>4, CleanUpFailedForm DEF CleanUpFailed
  <1>5. CASE proc[w].pc \notin {"setProcessing", "cleanUpFailed"}
    <2>1. proc[w].pc # "idle" /\ proc'[w].req = r
        BY AttemptGoesOn
    <2>2. proc[w].pc # "rejected"
        BY DEF ProcessStep, SetProcessing, AwaitFile, AfterAwait, MakeDir, UploadFile,
           DropOutput, CleanUp, SetSucceeded, CallWebhook, CallRejects, TrySteps,
           ImageSteps, CleanUpFailed, SetFailed
    <2> QED
        BY <1>1, <1>2, <1>5, <2>1, <2>2
  <1> QED
      BY <1>3, <1>4, <1>5 DEF ProcessStep, SetProcessing, AwaitFile, AfterAwait,
         MakeDir, UploadFile, DropOutput, CleanUp, SetSucceeded, CallWebhook,
         CallRejects, TrySteps, ImageSteps, SetFailed

LEMMA NextBegun == Typed /\ Private /\ AllBegun /\ Step => AllBegun'
  <1> SUFFICES ASSUME Typed, Private, AllBegun, Step PROVE AllBegun'
      OBVIOUS
  <1> USE DEF Typed, Private, AllBegun
  <1>1. CASE Quiet
      BY <1>1 DEF Begun, Quiet
  <1>2. ASSUME NEW w \in Workers, WorkerStep(w) PROVE AllBegun'
    <2>1. CASE ProcessStep(w)
      <3>1. Begun(w)'
          BY <2>1, StepBegun
      <3>2. ASSUME NEW v \in Workers \ {w} PROVE Begun(v)'
        <4>1. proc'[v] = proc[v] /\ tmp'[v] = tmp[v]
            BY <2>1, OthersKeep
        <4>2. ASSUME proc[v].req \in Requests, doc[proc[v].req].status # "Accepted"
              PROVE  doc'[proc[v].req].status # "Accepted"
            BY <2>1, <4>2, StatusWritten
        <4> QED
            BY <4>1, <4>2 DEF Begun
      <3> QED
          BY <3>1, <3>2
    <2>2. CASE Return(w) \/ Crash(w)
      <3>1. doc' = doc /\ tmp'[w] = {} /\ \A v \in Workers \ {w} : tmp'[v] = tmp[v]
          BY <2>2 DEF Return, Crash, TypeOK, Directory
      <3> QED
          BY <2>2, <3>1, StopForm DEF Begun
    <2>3. ASSUME NEW r \in Requests, Begin(w, r) PROVE AllBegun'
      <3>1. doc' = doc /\ tmp' = tmp /\ tmp[w] = {}
          BY <2>3 DEF Begin, At, Directory
      <3> QED
          BY <2>3, <3>1, BeginForm DEF Begun
    <2> QED
        BY <1>2, <2>1, <2>2, <2>3 DEF WorkerStep
  <1> QED
      BY <1>1, <1>2 DEF Step

(* A status is final only after Processing was seen.                        *)
THEOREM AcceptedFirst == Spec => AcceptedOnlyToProcessing
  <1>1. ASSUME Typed, Private, AllBegun, Step, NEW r \in Requests,
               doc[r].status = "Accepted"
        PROVE  doc'[r].status \in {"Accepted", "Processing"}
    <2> USE DEF Typed, Private, AllBegun
    <2>1. CASE Quiet
        BY <1>1, <2>1 DEF Quiet
    <2>2. ASSUME NEW w \in Workers, ProcessStep(w)
          PROVE  doc'[r].status \in {"Accepted", "Processing"}
        BY <1>1, <2>2, StatusWritten DEF Begun
    <2>3. ASSUME NEW w \in Workers, WorkerStep(w), ~ProcessStep(w)
          PROVE  doc' = doc
        BY <2>3 DEF WorkerStep, Return, Crash, Begin
    <2> QED
        BY <1>1, <2>1, <2>2, <2>3 DEF Step
  <1>2. Typed /\ Private /\ AllBegun /\ [Next]_vars
          => [\A r \in Requests : doc[r].status = "Accepted"
                => doc'[r].status \in {"Accepted", "Processing"}]_vars
      BY <1>1, NextIsStep
  <1> QED
      BY PrivateInvariant, InitBegun, NextBegun, NextIsStep, <1>2, PTL
      DEF Spec, AcceptedOnlyToProcessing

-------------------------------------------------------------------------------
(* The outputs *)

FileOf(w, i) == [req |-> proc[w].req, img |-> i, att |-> proc[w].id]

Outputs(w) ==
    proc[w].pc # "idle" =>
        /\ \A i \in 1..Len(proc[w].out) :
              proc[w].out[i] = FileOf(w, i) /\ FileOf(w, i) \in uploads
        /\ proc[w].pc = "dropOutput" => CurrentFile(proc[w]) \in uploads
        /\ proc[w].pc \in {"cleanUp", "setSucceeded", "webhook"}
              => Len(proc[w].out) = NumImages[proc[w].req]
        /\ proc[w].pc = "setSucceeded" \/ tmp[w] # {} => NumImages[proc[w].req] > 0
        /\ proc[w].pc = "webhook" => doc[proc[w].req].outputs # << >>

AllOutputs == \A w \in Workers : Outputs(w)

(* A document's outputs are complete from the moment it has any, and a      *)
(* webhook call only ever follows.                                          *)
Published ==
    /\ \A r \in Requests :
          /\ doc[r].outputs # << >> => Complete(r, doc[r].outputs)
          /\ doc[r].status = "Succeeded" => doc[r].outputs # << >>
    /\ \A h \in hooks : Complete(h.req, h.out) /\ doc[h.req].outputs # << >>

LEMMA ListsComplete ==
  ASSUME TypeOK, NEW w \in Workers, InRange(w), Outputs(w),
         proc[w].pc \in {"setSucceeded", "webhook"}
  PROVE  Complete(proc[w].req, proc[w].out)
  <1>1. /\ Len(proc[w].out) \in Nat /\ Len(proc[w].out) = NumImages[proc[w].req]
        /\ \A i \in 1..Len(proc[w].out) :
              proc[w].out[i] = FileOf(w, i) /\ FileOf(w, i) \in uploads
      BY DEF Outputs, TypeOK, Attempt
  <1>2. ASSUME NEW i \in 1..Len(proc[w].out)
        PROVE  proc[w].out[1].att = proc[w].id
    <2>1. 1 \in 1..Len(proc[w].out)
        BY <1>1, <1>2
    <2>2. proc[w].out[1] = FileOf(w, 1)
        BY <1>1, <2>1
    <2> QED
        BY <2>2 DEF FileOf
  <1> QED
      BY <1>1, <1>2 DEF Complete, FileOf

LEMMA UploadsGrow ==
  ASSUME NEW w \in Workers, ProcessStep(w)
  PROVE  uploads \subseteq uploads'
  BY DEF ProcessStep, SetProcessing, AwaitFile, MakeDir, UploadFile, DropOutput,
     CleanUp, SetSucceeded, CallWebhook, CallRejects, CleanUpFailed, SetFailed

LEMMA OutputsWritten ==
  ASSUME TypeOK, NEW w \in Workers, InRange(w), ProcessStep(w), NEW r \in Requests
  PROVE  \/ doc'[r].outputs = doc[r].outputs
         \/ /\ r = proc[w].req /\ proc[w].pc = "setSucceeded"
            /\ doc'[r].outputs = proc[w].out
  <1> USE DEF At, Req
  <1>1. doc \in [Requests -> Document]
      BY DEF TypeOK
  <1>2. ASSUME NEW q, NEW s, doc' = [doc EXCEPT ![q].status = s]
        PROVE  doc'[r].outputs = doc[r].outputs
      BY <1>1, <1>2 DEF Document
  <1>3. CASE doc' = doc
      BY <1>3
  <1>4. CASE SetProcessing(w)
      BY <1>2, <1>4 DEF SetProcessing
  <1>5. CASE SetSucceeded(w)
      BY <1>1, <1>5 DEF SetSucceeded, InRange
  <1>6. CASE SetFailed(w) /\ doc' # doc
      BY <1>2, <1>6 DEF SetFailed
  <1> QED
      BY <1>3, <1>4, <1>5, <1>6 DEF ProcessStep, AwaitFile, MakeDir, UploadFile,
         DropOutput, CleanUp, CallWebhook, CallRejects, CleanUpFailed

(* The outputs of a document are never taken back.                          *)
LEMMA OutputsStay ==
  ASSUME TypeOK, NEW w \in Workers, InRange(w), Outputs(w), ProcessStep(w),
         NEW r \in Requests, doc[r].outputs # << >>
  PROVE  doc'[r].outputs # << >>
  <1>1. CASE doc'[r].outputs = doc[r].outputs
      BY <1>1
  <1>2. CASE /\ r = proc[w].req /\ proc[w].pc = "setSucceeded"
             /\ doc'[r].outputs = proc[w].out
    <2>1. Len(proc[w].out) > 0
        BY <1>2 DEF Outputs
    <2> QED
        BY <1>2, <2>1
  <1> QED
      BY <1>1, <1>2, OutputsWritten

LEMMA InitOutputs == Init => AllOutputs /\ Published
  <1> SUFFICES ASSUME Init PROVE AllOutputs /\ Published
      OBVIOUS
  <1>1. \A w \in Workers : proc[w].pc = "idle"
      BY DEF Init, Idle
  <1>2. \A r \in Requests : doc[r].outputs = << >> /\ doc[r].status = "Accepted"
      BY DEF Init
  <1>3. hooks = {}
      BY DEF Init
  <1> QED
      BY <1>1, <1>2, <1>3 DEF AllOutputs, Outputs, Published

(* A step of process() keeps its own attempt's outputs uploaded.            *)
LEMMA StepOutputs ==
  ASSUME TypeOK, NEW w \in Workers, InRange(w), Directory(w), Outputs(w),
         ProcessStep(w)
  PROVE  Outputs(w)'
  <1> USE DEF Outputs, FileOf, Moves, Becomes, At, Req
  <1>0. /\ tmp \in [Workers -> SUBSET Requests] /\ doc \in [Requests -> Document]
        /\ Len(proc[w].out) \in Nat /\ uploads \subseteq uploads'
        /\ proc[w].pc # "idle" => NumImages[proc[w].req] \in Nat
      BY UploadsGrow DEF TypeOK, Attempt, InRange
  <1>1. CASE SetProcessing(w)
    <2>1. /\ proc[w].pc = "setProcessing" /\ proc[w].req \in Requests
          /\ NextImage(proc[w]) \in {"getImage", "cleanUp"}
          /\ NextImage(proc[w]) = "cleanUp" => Len(proc[w].out) = NumImages[proc[w].req]
        BY <1>0, <1>1 DEF SetProcessing, NextImage, InRange
    <2>2. tmp'[w] = {}
        BY <1>1, <2>1 DEF SetProcessing, Directory
    <2> QED
        BY <1>0, <1>1, <2>1, <2>2, SetProcessingForm
  <1>2. CASE AwaitFile(w)
      BY <1>0, <1>2, AwaitFileForm DEF AwaitFile
  <1>3. CASE MakeDir(w)
    <2>1. NumImages[proc[w].req] > 0
        BY <1>0, <1>3 DEF MakeDir, InRange, ImageSteps
    <2> QED
        BY <1>0, <1>3, <2>1, MakeDirForm DEF MakeDir
  <1>4. CASE UploadFile(w)
    <2>1. CurrentFile(proc[w]) \in uploads' /\ proc[w].pc = "upload" /\ tmp' = tmp
        BY <1>4 DEF UploadFile
    <2>2. PICK pc \in {"dropOutput", "cleanUpFailed"} : Moves(w, pc)
        BY <1>4, UploadFileForm
    <2>3. CurrentFile(proc'[w]) = CurrentFile(proc[w])
        BY <2>2 DEF CurrentFile
    <2> QED
        BY <1>0, <2>1, <2>2, <2>3 DEF CurrentFile
  <1>5. CASE DropOutput(w)
    <2>1. /\ proc[w].pc = "dropOutput" /\ CurrentFile(proc[w]) \in File
          /\ Len(proc[w].out) < NumImages[proc[w].req]
          /\ CurrentFile(proc[w]) \in uploads /\ tmp' = tmp /\ uploads' = uploads
        BY <1>5, CurrentFileType DEF DropOutput, ImageSteps, InRange
    <2>2. PICK pc \in {"getImage", "cleanUp"}, out \in Seq(File) :
            /\ out = Append(proc[w].out, CurrentFile(proc[w]))
            /\ Becomes(w, pc, out, proc[w].wrote)
            /\ IF pc = "getImage" THEN Len(out) < NumImages[Req(w)]
                                  ELSE ~(Len(out) < NumImages[Req(w)])
        BY <1>5, <2>1, DropOutputForm
    <2>3. /\ Len(out) = Len(proc[w].out) + 1
          /\ \A i \in 1..Len(proc[w].out) : out[i] = proc[w].out[i]
          /\ out[Len(proc[w].out) + 1] = CurrentFile(proc[w])
        BY <2>1, <2>2, AppendProperties DEF TypeOK, Attempt
    <2>4. CurrentFile(proc[w]) = FileOf(w, Len(proc[w].out) + 1)
        BY DEF CurrentFile
    <2>5. ASSUME NEW i \in 1..Len(out)
          PROVE  out[i] = FileOf(w, i) /\ FileOf(w, i) \in uploads
      <3>1. CASE i = Len(proc[w].out) + 1
          BY <2>1, <2>3, <2>4, <3>1
      <3>2. CASE i \in 1..Len(proc[w].out)
          BY <2>1, <2>3, <3>2
      <3> QED
          BY <1>0, <2>3, <3>1, <3>2
    <2>6. pc = "cleanUp" => Len(out) = NumImages[proc[w].req]
        BY <1>0, <2>1, <2>2, <2>3 DEF InRange
    <2> QED
        BY <1>0, <2>1, <2>2, <2>5, <2>6
  <1>6. CASE CleanUp(w)
    <2>1. tmp'[w] = {} /\ uploads' = uploads /\ proc[w].pc = "cleanUp"
        BY <1>0, <1>6 DEF CleanUp, Directory
    <2> QED
        BY <1>6, <2>1, CleanUpForm
  <1>7. CASE SetSucceeded(w)
    <2>1. /\ doc'[proc[w].req].outputs = proc[w].out /\ tmp' = tmp
          /\ uploads' = uploads /\ proc[w].pc = "setSucceeded"
        BY <1>0, <1>7 DEF SetSucceeded, InRange
    <2>2. proc[w].out # << >>
        BY <2>1
    <2> QED
        BY <1>7, <2>1, <2>2, SetSucceededForm
  <1>8. CASE CallWebhook(w)
      BY <1>8, CallWebhookForm DEF CallWebhook
  <1>9. CASE CallRejects(w)
      BY <1>9, CallRejectsForm DEF CallRejects, TrySteps, ImageSteps
  <1>10. CASE CleanUpFailed(w)
    <2>1. tmp'[w] = {} /\ uploads' = uploads /\ proc[w].pc = "cleanUpFailed"
        BY <1>0, <1>10 DEF CleanUpFailed, Directory
    <2> QED
        BY <1>10, <2>1, CleanUpFailedForm
  <1>11. CASE SetFailed(w)
    <2>1. proc[w].pc = "setFailed" /\ tmp' = tmp /\ uploads' = uploads
        BY <1>11 DEF SetFailed
    <2>2. /\ proc'[w].pc \in {"resolved", "rejected"} /\ proc'[w].out = proc[w].out
          /\ proc'[w].req = proc[w].req /\ proc'[w].id = proc[w].id
        BY <1>11, SetFailedForm
    <2> QED
        BY <2>1, <2>2
  <1> QED
      BY <1>1, <1>2, <1>3, <1>4, <1>5, <1>6, <1>7, <1>8, <1>9, <1>10, <1>11
      DEF ProcessStep

LEMMA NextOutputs == Typed /\ Private /\ AllOutputs /\ Step => AllOutputs'
  <1> SUFFICES ASSUME Typed, Private, AllOutputs, Step PROVE AllOutputs'
      OBVIOUS
  <1> USE DEF Typed, Private, AllOutputs
  <1>1. CASE Quiet
      BY <1>1 DEF Outputs, FileOf, CurrentFile, Quiet
  <1>2. ASSUME NEW w \in Workers, WorkerStep(w) PROVE AllOutputs'
    <2>1. CASE ProcessStep(w)
      <3>1. Outputs(w)'
          BY <2>1, StepOutputs
      <3>2. ASSUME NEW v \in Workers \ {w} PROVE Outputs(v)'
        <4>1. /\ proc'[v] = proc[v] /\ tmp'[v] = tmp[v] /\ uploads \subseteq uploads'
              /\ proc[v].pc # "idle" => proc[v].req \in Requests
            BY <2>1, OthersKeep, UploadsGrow DEF InRange
        <4>2. ASSUME NEW r \in Requests, doc[r].outputs # << >>
              PROVE  doc'[r].outputs # << >>
            BY <2>1, <4>2, OutputsStay
        <4> QED
            BY <4>1, <4>2 DEF Outputs, FileOf, CurrentFile
      <3> QED
          BY <3>1, <3>2
    <2>2. CASE Return(w) \/ Crash(w)
      <3>1. /\ doc' = doc /\ uploads' = uploads
            /\ \A v \in Workers \ {w} : tmp'[v] = tmp[v]
          BY <2>2 DEF Return, Crash, TypeOK
      <3>2. Outputs(w)'
          BY <2>2, StopForm DEF Outputs
      <3>3. ASSUME NEW v \in Workers \ {w} PROVE Outputs(v)'
        <4>1. proc'[v] = proc[v] /\ tmp'[v] = tmp[v] /\ Outputs(v)
            BY <2>2, <3>1, StopForm
        <4> QED
            BY <3>1, <4>1 DEF Outputs, FileOf, CurrentFile
      <3> QED
          BY <3>2, <3>3
    <2>3. ASSUME NEW r \in Requests, Begin(w, r) PROVE AllOutputs'
      <3>1. doc' = doc /\ uploads' = uploads /\ tmp' = tmp /\ tmp[w] = {}
          BY <2>3 DEF Begin, At, Directory
      <3>2. Outputs(w)'
          BY <2>3, <3>1, BeginForm DEF Outputs
      <3>3. ASSUME NEW v \in Workers \ {w} PROVE Outputs(v)'
        <4>1. proc'[v] = proc[v] /\ tmp'[v] = tmp[v] /\ Outputs(v)
            BY <2>3, <3>1, BeginForm
        <4> QED
            BY <3>1, <4>1 DEF Outputs, FileOf, CurrentFile
      <3> QED
          BY <3>2, <3>3
    <2> QED
        BY <1>2, <2>1, <2>2, <2>3 DEF WorkerStep
  <1> QED
      BY <1>1, <1>2 DEF Step

(* The only step of process() that adds a webhook call is CallWebhook.      *)
LEMMA HooksWritten ==
  ASSUME NEW w \in Workers, ProcessStep(w), NEW h \in hooks', h \notin hooks
  PROVE  proc[w].pc = "webhook" /\ h = [req |-> proc[w].req, out |-> proc[w].out]
  BY DEF ProcessStep, SetProcessing, AwaitFile, MakeDir, UploadFile, DropOutput,
     CleanUp, SetSucceeded, CallWebhook, CallRejects, CleanUpFailed, SetFailed,
     At, Req

LEMMA NextPublished ==
  Typed /\ Private /\ AllOutputs /\ Published /\ Step => Published'
  <1> SUFFICES ASSUME Typed, Private, AllOutputs, Published, Step
               PROVE  Published'
      OBVIOUS
  <1> USE DEF Typed, Private, AllOutputs
  <1>1. CASE doc' = doc /\ hooks' = hooks /\ uploads' = uploads
      BY <1>1 DEF Published, Complete
  <1>2. ASSUME NEW w \in Workers, ProcessStep(w) PROVE Published'
    <2>0. uploads \subseteq uploads' /\ hooks \subseteq WebhookCall
        BY <1>2, UploadsGrow DEF TypeOK
    <2>1. ASSUME NEW r \in Requests, doc'[r].outputs # << >>
          PROVE  Complete(r, doc[r].outputs)'
      <3>1. CASE doc'[r].outputs = doc[r].outputs
          BY <2>0, <2>1, <3>1 DEF Published, Complete
      <3>2. CASE /\ r = proc[w].req /\ proc[w].pc = "setSucceeded"
                 /\ doc'[r].outputs = proc[w].out
          BY <2>0, <3>2, ListsComplete DEF Complete
      <3> QED
          BY <1>2, <3>1, <3>2, OutputsWritten
    <2>2. ASSUME NEW r \in Requests, doc'[r].status = "Succeeded"
          PROVE  doc'[r].outputs # << >>
      <3>1. CASE doc[r].status = "Succeeded"
          BY <1>2, <3>1, OutputsStay DEF Published
      <3>2. CASE SetSucceeded(w) /\ r = proc[w].req
        <4>1. doc'[r].outputs = proc[w].out /\ Len(proc[w].out) > 0
            BY <3>2 DEF SetSucceeded, TypeOK, At, Req, Outputs
        <4> QED
            BY <4>1
      <3> QED
          BY <1>2, <2>2, <3>1, <3>2, StatusWritten DEF ProcessStep, SetProcessing,
             AwaitFile, AfterAwait, MakeDir, UploadFile, DropOutput, CleanUp,
             CallWebhook, CallRejects, CleanUpFailed, SetFailed, At
    <2>3. ASSUME NEW h \in hooks'
          PROVE  Complete(h.req, h.out)' /\ doc'[h.req].outputs # << >>
      <3>1. CASE h \in hooks
        <4>1. h.req \in Requests
            BY <2>0, <3>1 DEF WebhookCall
        <4>2. Complete(h.req, h.out) /\ doc[h.req].outputs # << >>
            BY <3>1 DEF Published
        <4> QED
            BY <1>2, <2>0, <4>1, <4>2, OutputsStay DEF Complete
      <3>2. CASE h \notin hooks
        <4>1. /\ proc[w].pc = "webhook" /\ h.req = proc[w].req /\ h.out = proc[w].out
              /\ proc[w].req \in Requests /\ doc[proc[w].req].outputs # << >>
            BY <1>2, <2>3, <3>2, HooksWritten DEF InRange, Outputs
        <4>2. Complete(h.req, h.out)
            BY <4>1, ListsComplete
        <4> QED
            BY <1>2, <2>0, <4>1, <4>2, OutputsStay DEF Complete
      <3> QED
          BY <3>1, <3>2
    <2> QED
        BY <2>1, <2>2, <2>3 DEF Published
  <1>3. ASSUME NEW w \in Workers, WorkerStep(w), ~ProcessStep(w)
        PROVE  doc' = doc /\ hooks' = hooks /\ uploads' = uploads
      BY <1>3 DEF WorkerStep, Return, Crash, Begin
  <1> QED
      BY <1>1, <1>2, <1>3 DEF Step, Quiet

IInv == Typed /\ Private /\ AllBegun /\ AllOutputs /\ Published

LEMMA InitIInv == Init => IInv
  BY InitTyped, InitPrivate, InitBegun, InitOutputs DEF IInv

LEMMA NextIInv == IInv /\ Step => IInv'
  BY NextTyped, NextPrivate, NextBegun, NextOutputs, NextPublished DEF IInv

LEMMA Invariants == Spec => []IInv
  <1>1. IInv /\ [Next]_vars => IInv'
      BY NextIInv, NextIsStep DEF IInv
  <1> QED
      BY InitIInv, <1>1, PTL DEF Spec

(* A document that says Succeeded lists an uploaded output of every image.  *)
THEOREM SucceededComplete == Spec => []SucceededIsComplete
  <1>1. IInv => SucceededIsComplete
      BY DEF IInv, Published, SucceededIsComplete
  <1> QED
      BY Invariants, <1>1, PTL

(* A webhook only announces what was stored, and the document keeps it.     *)
THEOREM WebhookComplete == Spec => []WebhookAfterOutputsStored
  <1>1. IInv => WebhookAfterOutputsStored
      BY DEF IInv, Typed, TypeOK, WebhookCall, Published, WebhookAfterOutputsStored
  <1> QED
      BY Invariants, <1>1, PTL

-------------------------------------------------------------------------------
(* The lifecycle *)

(* In a reachable state a document is stored once it has outputs.           *)
LEMMA StoredMeans ==
  ASSUME Published
  PROVE  Stored = {r \in Requests : doc[r].outputs # << >>}
  BY DEF Stored, Published

LEMMA InitLifecycle == Init => Lifecycle!Init
  <1> SUFFICES ASSUME Init PROVE Lifecycle!Init
      OBVIOUS
  <1>1. /\ StatusSeen = [r \in Requests |-> "Accepted"]
        /\ \A r \in Requests : doc[r].outputs = << >>
        /\ hooks = {}
      BY DEF Init, StatusSeen
  <1>2. Stored = {} /\ Notified = {}
      BY <1>1 DEF Stored, Notified
  <1> QED
      BY <1>1, <1>2 DEF Lifecycle!Init

(* In the next state too.                                                   *)
LEMMA StoredMeansNext ==
  ASSUME Published'
  PROVE  Stored' = {r \in Requests : doc'[r].outputs # << >>}
  BY DEF Stored, Published

(* The steps of process() that a client sees.                               *)
LEMMA StartSeen ==
  ASSUME Typed, Published, Published', NEW w \in Workers, SetProcessing(w)
  PROVE  /\ Req(w) \in Requests
         /\ StatusSeen' = [StatusSeen EXCEPT ![Req(w)] = "Processing"]
         /\ Stored' = Stored /\ Notified' = Notified
  <1> DEFINE r == proc[w].req
  <1>1. /\ doc \in [Requests -> Document] /\ r \in Requests
        /\ doc' = [doc EXCEPT ![r].status = "Processing"]
        /\ hooks' = hooks
      BY DEF Typed, TypeOK, InRange, SetProcessing, At, Req
  <1> HIDE DEF r
  <1>2. /\ doc'[r].status = "Processing"
        /\ \A s \in Requests : /\ doc'[s].outputs = doc[s].outputs
                               /\ s # r => doc'[s] = doc[s]
      BY <1>1 DEF Document
  <1>3. StatusSeen' = [StatusSeen EXCEPT ![r] = "Processing"]
      BY <1>1, <1>2 DEF StatusSeen
  <1>4. Stored' = Stored
    <2>1. \A s \in Requests : doc'[s].outputs # << >> <=> doc[s].outputs # << >>
        BY <1>2
    <2> QED
        BY <2>1, StoredMeans, StoredMeansNext
  <1>5. Notified' = Notified
      BY <1>1 DEF Notified
  <1> QED
      BY <1>1, <1>3, <1>4, <1>5 DEF r, Req

LEMMA SucceedSeen ==
  ASSUME Typed, AllBegun, AllOutputs, Published, Published', NEW w \in Workers,
         SetSucceeded(w)
  PROVE  /\ Req(w) \in Requests
         /\ StatusSeen[Req(w)] = doc[Req(w)].status /\ StatusSeen[Req(w)] # "Accepted"
         /\ StatusSeen' = [StatusSeen EXCEPT ![Req(w)] = "Succeeded"]
         /\ Stored' = Stored \cup {Req(w)} /\ Notified' = Notified
  <1> DEFINE r == proc[w].req
  <1>1. /\ doc \in [Requests -> Document] /\ r \in Requests
        /\ doc' = [doc EXCEPT ![r] = [status |-> "Succeeded", outputs |-> proc[w].out]]
        /\ hooks' = hooks
        /\ Len(proc[w].out) > 0 /\ doc[r].status # "Accepted"
      BY DEF Typed, TypeOK, InRange, SetSucceeded, At, Req, AllOutputs, Outputs,
         AllBegun, Begun
  <1> HIDE DEF r
  <1>2. /\ doc'[r].status = "Succeeded" /\ doc'[r].outputs # << >>
        /\ \A s \in Requests : s # r => doc'[s] = doc[s]
      BY <1>1
  <1>3. /\ StatusSeen' = [StatusSeen EXCEPT ![r] = "Succeeded"]
        /\ StatusSeen[r] = doc[r].status /\ StatusSeen[r] # "Accepted"
      BY <1>1, <1>2 DEF StatusSeen
  <1>4. Stored' = Stored \cup {r} /\ Notified' = Notified
      BY <1>1, <1>2, StoredMeans, StoredMeansNext DEF Notified
  <1> QED
      BY <1>1, <1>3, <1>4 DEF r, Req

LEMMA NotifySeen ==
  ASSUME Typed, AllOutputs, Published, Published', NEW w \in Workers, CallWebhook(w)
  PROVE  /\ Req(w) \in Stored /\ Req(w) \in Requests
         /\ Notified' = Notified \cup {Req(w)}
         /\ StatusSeen' = StatusSeen /\ Stored' = Stored
  <1> DEFINE r == proc[w].req
  <1>1. /\ doc' = doc /\ r \in Requests /\ doc[r].outputs # << >>
        /\ hooks' = hooks \cup {[req |-> r, out |-> proc[w].out]}
      BY DEF Typed, InRange, CallWebhook, At, Req, AllOutputs, Outputs
  <1> HIDE DEF r
  <1>2. StatusSeen' = StatusSeen
      BY <1>1 DEF StatusSeen
  <1>3. r \in Stored /\ Stored' = Stored
      BY <1>1, StoredMeans, StoredMeansNext
  <1>4. Notified' = Notified \cup {r}
    <2> DEFINE call == [req |-> r, out |-> proc[w].out]
    <2>1. call.req = r /\ hooks' = hooks \cup {call}
        BY <1>1
    <2> HIDE DEF call
    <2> QED
        BY <2>1 DEF Notified
  <1> QED
      BY <1>1, <1>2, <1>3, <1>4 DEF r, Req

LEMMA FailSeen ==
  ASSUME Typed, AllBegun, Published, Published', NEW w \in Workers, SetFailed(w),
         doc' # doc
  PROVE  /\ Req(w) \in Requests
         /\ StatusSeen[Req(w)] = doc[Req(w)].status /\ StatusSeen[Req(w)] # "Accepted"
         /\ StatusSeen' = [StatusSeen EXCEPT ![Req(w)] = "Failed"]
         /\ Stored' = Stored /\ Notified' = Notified
  <1> DEFINE r == proc[w].req
  <1>1. /\ doc \in [Requests -> Document] /\ r \in Requests
        /\ doc' = [doc EXCEPT ![r].status = "Failed"]
        /\ hooks' = hooks /\ doc[r].status # "Accepted"
      BY DEF Typed, TypeOK, InRange, SetFailed, At, Req, AllBegun, Begun
  <1> HIDE DEF r
  <1>2. /\ doc'[r].status = "Failed"
        /\ \A s \in Requests : /\ doc'[s].outputs = doc[s].outputs
                               /\ s # r => doc'[s] = doc[s]
      BY <1>1 DEF Document
  <1>3. /\ StatusSeen' = [StatusSeen EXCEPT ![r] = "Failed"]
        /\ StatusSeen[r] = doc[r].status /\ StatusSeen[r] # "Accepted"
      BY <1>1, <1>2 DEF StatusSeen
  <1>4. Stored' = Stored
    <2>1. \A s \in Requests : doc'[s].outputs # << >> <=> doc[s].outputs # << >>
        BY <1>2
    <2> QED
        BY <2>1, StoredMeans, StoredMeansNext
  <1>5. Notified' = Notified
      BY <1>1 DEF Notified
  <1> QED
      BY <1>1, <1>3, <1>4, <1>5 DEF r, Req

(* A step that leaves the documents and the webhook calls is not seen.      *)
LEMMA Unseen ==
  ASSUME Published, Published', doc' = doc, hooks' = hooks
  PROVE  UNCHANGED Lifecycle!vars
  BY StoredMeans, StoredMeansNext DEF Lifecycle!vars, StatusSeen, Notified

(* Only these are seen.                                                     *)
LEMMA SeenSteps ==
  ASSUME Step, ~(doc' = doc /\ hooks' = hooks)
  PROVE  \E w \in Workers :
            \/ SetProcessing(w) \/ SetSucceeded(w) \/ CallWebhook(w)
            \/ SetFailed(w) /\ doc' # doc
  BY DEF Step, Quiet, WorkerStep, Return, Crash, Begin, ProcessStep, AwaitFile, MakeDir,
     UploadFile, DropOutput, CleanUp, CallRejects, CleanUpFailed, SetFailed

LEMMA NextLifecycle ==
  ASSUME IInv, IInv', Step
  PROVE  [Lifecycle!Next]_(Lifecycle!vars)
  <1> USE DEF IInv, Lifecycle!Next, Lifecycle!Started
  <1>1. CASE doc' = doc /\ hooks' = hooks
      BY <1>1, Unseen
  <1>2. ASSUME NEW w \in Workers, SetProcessing(w) PROVE Lifecycle!Next
      BY <1>2, StartSeen DEF Lifecycle!Start
  <1>3. ASSUME NEW w \in Workers, SetSucceeded(w) PROVE Lifecycle!Next
      BY <1>3, SucceedSeen DEF Lifecycle!Succeed
  <1>4. ASSUME NEW w \in Workers, CallWebhook(w) PROVE Lifecycle!Next
      BY <1>4, NotifySeen DEF Lifecycle!Notify
  <1>5. ASSUME NEW w \in Workers, SetFailed(w), doc' # doc PROVE Lifecycle!Next
      BY <1>5, FailSeen DEF Lifecycle!Fail
  <1> QED
      BY <1>1, <1>2, <1>3, <1>4, <1>5, SeenSteps

(* A client of process() sees the lifecycle it was promised, however many   *)
(* workers attempt a request at the same time.                              *)
THEOREM LifecycleImplemented == Spec => ImplementsLifecycle
  <1>1. IInv /\ IInv' /\ [Next]_vars => [Lifecycle!Next]_(Lifecycle!vars)
      BY NextLifecycle, NextIsStep DEF IInv
  <1> QED
      BY Invariants, InitLifecycle, <1>1, PTL
      DEF Spec, ImplementsLifecycle, Lifecycle!Spec

=================================================================================
