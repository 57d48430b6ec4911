---------------------------- MODULE ImageProcessor ----------------------------
(***************************************************************************)
(* ImageProcessor.process of the consumer app                              *)
(* (app/src/modules/image-processing/processors/image.processor.ts), run   *)
(* by several workers (consumer pods) over the request documents they      *)
(* share.  A worker makes one attempt at a time at a request; the same     *)
(* request may be attempted again, by the same worker or, after its        *)
(* partition moved, by another one while the first is still busy.          *)
(*                                                                         *)
(* Every await of the code is one step, so that the steps of two workers   *)
(* interleave where the code yields.  An awaited call may reject before    *)
(* it did anything, or after it took effect (the answer was lost).         *)
(***************************************************************************)
EXTENDS Integers, Sequences

CONSTANTS
    Workers,        \* the consumer processes
    Requests,       \* the request ids
    NoRequest,      \* the request of a worker that has none
    NumImages,      \* [Requests -> Nat]: the images of all its products
    FaultKinds,     \* what may go wrong in this instance
    MaxFaults,      \* bound: how often something goes wrong
    MaxAttempts     \* bound: how often process() is called

ASSUME ConstantsAssumption ==
    /\ NoRequest \notin Requests
    /\ NumImages \in [Requests -> Nat]
    /\ MaxFaults \in Nat
    /\ MaxAttempts \in Nat

VARIABLES
    doc,        \* the request documents of MongoDB: status and outputs
    proc,       \* the attempt each worker is making
    tmp,        \* [Workers -> SUBSET Requests]: the directories under tmpdir()
    uploads,    \* the files stored by the upload service
    hooks,      \* the webhook calls received: request and the outputs of its csv
    faults,     \* bounded by MaxFaults: the faults so far
    attempts    \* bounded by MaxAttempts: the calls of process() so far

vars == <<doc, proc, tmp, uploads, hooks, faults, attempts>>

-------------------------------------------------------------------------------
(* Data *)

Status == {"Accepted", "Processing", "Succeeded", "Failed"}

(* An uploaded image.  Its name is a fresh uuid (getFileName), so two       *)
(* attempts never upload to the same path: att stands for the attempt's.    *)
File == {f \in [req : Requests, img : Nat, att : Nat] :
            f.img \in 1..NumImages[f.req]}

(* A request document: its products come with the outputs of all of them.   *)
Document == [status : Status, outputs : Seq(File)]

(* The csv a webhook is called with lists the outputs.                      *)
WebhookCall == [req : Requests, out : Seq(File)]

(* Where an attempt stands: the await it is blocked in.                     *)
ImageSteps == {"getImage", "makeDir", "saveImage", "convert", "dropInput",
               "upload", "dropOutput"}     \* processImage
TrySteps == ImageSteps \cup {"setProcessing", "cleanUp", "setSucceeded", "webhook"}
PC == TrySteps \cup {"idle", "cleanUpFailed", "setFailed", "resolved", "rejected"}

(* out is the concatenation of the outputImageUrls of the products; wrote   *)
(* is the last status this attempt wrote to the document.                   *)
Attempt == [pc : PC, req : Requests \cup {NoRequest}, id : Nat,
            out : Seq(File), wrote : Status \cup {"nothing"}]

Idle == [pc |-> "idle", req |-> NoRequest, id |-> 0, out |-> << >>,
         wrote |-> "nothing"]

TypeOK ==
    /\ doc \in [Requests -> Document]
    /\ proc \in [Workers -> Attempt]
    /\ tmp \in [Workers -> SUBSET Requests]
    /\ uploads \subseteq File
    /\ hooks \subseteq WebhookCall
    /\ faults \in Nat
    /\ attempts \in Nat

Init ==
    /\ doc = [r \in Requests |-> [status |-> "Accepted", outputs |-> << >>]]
    /\ proc = [w \in Workers |-> Idle]
    /\ tmp = [w \in Workers |-> {}]
    /\ uploads = {}
    /\ hooks = {}
    /\ faults = 0
    /\ attempts = 0

-------------------------------------------------------------------------------
(* How an await ends *)

At(w, pc) == proc[w].pc = pc
Req(w) == proc[w].req

Fault(kind) ==
    /\ kind \in FaultKinds
    /\ faults < MaxFaults
    /\ faults' = faults + 1

(* The kind of fault that hits the call an attempt is blocked in.           *)
CallFault(w) == Fault(IF At(w, "webhook") THEN "webhook" ELSE "call")

(* An awaited call of the try block that took effect: the attempt goes on   *)
(* as p, or its answer is lost and the catch at line 112 runs.              *)
Await(w, p) ==
    \/ /\ proc' = [proc EXCEPT ![w] = p]
       /\ UNCHANGED faults
    \/ /\ CallFault(w)
       /\ proc' = [proc EXCEPT ![w] = [p EXCEPT !.pc = "cleanUpFailed"]]

Goto(w, pc) ==
    /\ proc' = [proc EXCEPT ![w].pc = pc]
    /\ UNCHANGED faults

(* The image being processed: the next one without an output.               *)
CurrentFile(p) == [req |-> p.req, img |-> Len(p.out) + 1, att |-> p.id]

(* Mutants: one image too few; one too many.                                *)
NextImageStopsEarly(p) ==
    IF Len(p.out) + 1 < NumImages[p.req] THEN "getImage" ELSE "cleanUp"
NextImageRunsOver(p) ==
    IF Len(p.out) <= NumImages[p.req] THEN "getImage" ELSE "cleanUp"

(* The loops over products and urls.                                        *)
NextImage(p) ==
    IF Len(p.out) < NumImages[p.req] THEN "getImage" ELSE "cleanUp"

-------------------------------------------------------------------------------
(* process() *)

(* RequestRepository: findOneAndUpdate of the status, or of the fields that *)
(* are given.  The document is there (QueuedIsCreated of ImagePipeline).    *)
UpdateStatus(r, status) == doc' = [doc EXCEPT ![r].status = status]
UpdateRequest(r, status, outputs) ==
    doc' = [doc EXCEPT ![r] = [status |-> status, outputs |-> outputs]]

(* The consumer calls process(request).                                     *)
Begin(w, r) ==
    /\ At(w, "idle")
    /\ attempts' = attempts + 1
    /\ proc' = [proc EXCEPT ![w] = [Idle EXCEPT !.pc = "setProcessing",
                                                !.req = r, !.id = attempts']]
    /\ UNCHANGED <<doc, tmp, uploads, hooks, faults>>

(* Mutant: the first status update is forgotten.                            *)
SetProcessingForgotten(w) ==
    /\ At(w, "setProcessing")
    /\ Goto(w, NextImage(proc[w]))
    /\ UNCHANGED <<doc, tmp, uploads, hooks, attempts>>

SetProcessing(w) ==
    /\ At(w, "setProcessing")
    /\ UpdateStatus(Req(w), "Processing")
    /\ Await(w, [proc[w] EXCEPT !.pc = NextImage(proc[w]), !.wrote = "Processing"])
    /\ UNCHANGED <<tmp, uploads, hooks, attempts>>

(* mkdir(dirPath, { recursive: true }): no error when the directory exists. *)
MakeDir(w) ==
    /\ At(w, "makeDir")
    /\ tmp' = [tmp EXCEPT ![w] = @ \cup {Req(w)}]
    /\ Goto(w, "saveImage")
    /\ UNCHANGED <<doc, uploads, hooks, attempts>>

(* The other awaits of processImage before its upload touch only files of   *)
(* the directory: the GET that precedes it, the stream into a file, the     *)
(* conversion by sharp, the deletion of the input file.                     *)
AfterAwait == [getImage |-> "makeDir", saveImage |-> "convert",
               convert |-> "dropInput", dropInput |-> "upload"]

AwaitFile(w) ==
    /\ proc[w].pc \in DOMAIN AfterAwait
    /\ Goto(w, AfterAwait[proc[w].pc])
    /\ UNCHANGED <<doc, tmp, uploads, hooks, attempts>>

(* Mutant: the url is reported although nothing was stored.                 *)
UploadNotAwaited(w) ==
    /\ At(w, "upload")
    /\ Goto(w, "dropOutput")
    /\ UNCHANGED <<doc, tmp, uploads, hooks, attempts>>

UploadFile(w) ==
    /\ At(w, "upload")
    /\ uploads' = uploads \cup {CurrentFile(proc[w])}
    /\ Await(w, [proc[w] EXCEPT !.pc = "dropOutput"])
    /\ UNCHANGED <<doc, tmp, hooks, attempts>>

(* Mutant: the url is not pushed, so the loop never gets past the image.    *)
OutputNotPushed(w) ==
    /\ At(w, "dropOutput")
    /\ Goto(w, NextImage(proc[w]))
    /\ UNCHANGED <<doc, tmp, uploads, hooks, attempts>>

(* The output file is deleted, processImage returns and its url is pushed.  *)
DropOutput(w) ==
    /\ At(w, "dropOutput")
    /\ LET p == [proc[w] EXCEPT !.out = Append(@, CurrentFile(proc[w]))]
       IN  proc' = [proc EXCEPT ![w] = [p EXCEPT !.pc = NextImage(p)]]
    /\ UNCHANGED <<doc, tmp, uploads, hooks, faults, attempts>>

(* rmdir(dirPath, { recursive: true }) rejects with ENOENT when there is no *)
(* such directory, as after a request without images.                       *)
CleanUp(w) ==
    /\ At(w, "cleanUp")
    /\ tmp' = [tmp EXCEPT ![w] = @ \ {Req(w)}]
    /\ Goto(w, IF Req(w) \in tmp[w] THEN "setSucceeded" ELSE "cleanUpFailed")
    /\ UNCHANGED <<doc, uploads, hooks, attempts>>

(* Mutant: only the status is written, as updateStatus would.               *)
SetSucceededStatusOnly(w) ==
    /\ At(w, "setSucceeded")
    /\ UpdateStatus(Req(w), "Succeeded")
    /\ Await(w, [proc[w] EXCEPT !.pc = "webhook", !.wrote = "Succeeded"])
    /\ UNCHANGED <<tmp, uploads, hooks, attempts>>

(* One findOneAndUpdate writes the status and the products.                 *)
SetSucceeded(w) ==
    /\ At(w, "setSucceeded")
    /\ UpdateRequest(Req(w), "Succeeded", proc[w].out)
    /\ Await(w, [proc[w] EXCEPT !.pc = "webhook", !.wrote = "Succeeded"])
    /\ UNCHANGED <<tmp, uploads, hooks, attempts>>

(* buildCSV and callWebhook: a single POST of the csv of this attempt.      *)
CallWebhook(w) ==
    /\ At(w, "webhook")
    /\ hooks' = hooks \cup {[req |-> Req(w), out |-> proc[w].out]}
    /\ Await(w, [proc[w] EXCEPT !.pc = "resolved"])
    /\ UNCHANGED <<doc, tmp, uploads, attempts>>

(* An awaited call of the try block rejects and changed nothing.  In        *)
(* processImage the error is wrapped and thrown again.  A rmdir rejects     *)
(* only as CleanUp says.                                                    *)
CallRejects(w) ==
    /\ proc[w].pc \in TrySteps \ {"cleanUp"}
    /\ CallFault(w)
    /\ proc' = [proc EXCEPT ![w].pc = "cleanUpFailed"]
    /\ UNCHANGED <<doc, tmp, uploads, hooks, attempts>>

-------------------------------------------------------------------------------
(* handleError() *)

(* Mutants: a directory that is missing is no error (rm with force); the    *)
(* directory is left behind; the error of the rmdir is swallowed.           *)
CleanUpFailedForced(w) ==
    /\ At(w, "cleanUpFailed")
    /\ tmp' = [tmp EXCEPT ![w] = @ \ {Req(w)}]
    /\ Goto(w, "setFailed")
    /\ UNCHANGED <<doc, uploads, hooks, attempts>>
CleanUpFailedSkipped(w) ==
    /\ At(w, "cleanUpFailed")
    /\ Goto(w, IF Req(w) \in tmp[w] THEN "setFailed" ELSE "rejected")
    /\ UNCHANGED <<doc, tmp, uploads, hooks, attempts>>
CleanUpFailedSwallowed(w) ==
    /\ At(w, "cleanUpFailed")
    /\ tmp' = [tmp EXCEPT ![w] = @ \ {Req(w)}]
    /\ Goto(w, IF Req(w) \in tmp[w] THEN "setFailed" ELSE "resolved")
    /\ UNCHANGED <<doc, uploads, hooks, attempts>>

(* The directory is deleted first; when it does not exist the rejection     *)
(* leaves handleError and process() before any status is written.           *)
CleanUpFailed(w) ==
    /\ At(w, "cleanUpFailed")
    /\ tmp' = [tmp EXCEPT ![w] = @ \ {Req(w)}]
    /\ Goto(w, IF Req(w) \in tmp[w] THEN "setFailed" ELSE "rejected")
    /\ UNCHANGED <<doc, uploads, hooks, attempts>>

SetFailed(w) ==
    /\ At(w, "setFailed")
    /\ \/ /\ UpdateStatus(Req(w), "Failed")
          /\ \/ /\ proc' = [proc EXCEPT ![w] = [@ EXCEPT !.pc = "resolved",
                                                         !.wrote = "Failed"]]
                /\ UNCHANGED faults
             \/ /\ CallFault(w)
                /\ proc' = [proc EXCEPT ![w] = [@ EXCEPT !.pc = "rejected",
                                                         !.wrote = "Failed"]]
       \/ /\ CallFault(w)
          /\ proc' = [proc EXCEPT ![w].pc = "rejected"]
          /\ UNCHANGED doc
    /\ UNCHANGED <<tmp, uploads, hooks, attempts>>

(* The consumer takes the outcome of process().                             *)
Return(w) ==
    /\ proc[w].pc \in {"resolved", "rejected"}
    /\ proc' = [proc EXCEPT ![w] = Idle]
    /\ UNCHANGED <<doc, tmp, uploads, hooks, faults, attempts>>

(* The process dies; its container is replaced, with an empty tmpdir().     *)
Crash(w) ==
    /\ Fault("crash")
    /\ proc' = [proc EXCEPT ![w] = Idle]
    /\ tmp' = [tmp EXCEPT ![w] = {}]
    /\ UNCHANGED <<doc, uploads, hooks, attempts>>

-------------------------------------------------------------------------------
(* The steps process() takes by itself, from its call to its outcome.       *)
ProcessStep(w) ==
    \/ SetProcessing(w)
    \/ AwaitFile(w)
    \/ MakeDir(w)
    \/ UploadFile(w)
    \/ DropOutput(w)
    \/ CleanUp(w)
    \/ SetSucceeded(w)
    \/ CallWebhook(w)
    \/ CallRejects(w)
    \/ CleanUpFailed(w)
    \/ SetFailed(w)

Next ==
    \E w \in Workers :
        \/ \E r \in Requests : attempts < MaxAttempts /\ Begin(w, r)
        \/ ProcessStep(w)
        \/ Return(w)
        \/ Crash(w)

Spec == Init /\ [][Next]_vars

(* The event loop resumes an attempt whose await has settled.  That every   *)
(* await settles is assumed of the services called.                         *)
FairSpec == Spec /\ \A w \in Workers : WF_vars(ProcessStep(w) \/ Return(w))

-------------------------------------------------------------------------------
(* Properties *)

(* The outputs of every image of r, each one stored by the upload service,  *)
(* in the order of the images and all of the same attempt.                  *)
Complete(r, out) ==
    /\ Len(out) = NumImages[r]
    /\ \A i \in 1..Len(out) :
          /\ out[i] = [req |-> r, img |-> i, att |-> out[1].att]
          /\ out[i] \in uploads

(* A document that says Succeeded lists an uploaded output for every image  *)
(* of the request, never a mix of the outputs of two attempts.              *)
SucceededIsComplete ==
    \A r \in Requests :
        doc[r].status = "Succeeded" => Complete(r, doc[r].outputs)

(* A webhook only ever announces a complete csv, and from then on the       *)
(* document lists complete outputs too, whatever later attempts do to its   *)
(* status: products are stored before callWebhook and never cleared.        *)
WebhookAfterOutputsStored ==
    \A h \in hooks :
        Complete(h.req, h.out) /\ Complete(h.req, doc[h.req].outputs)

(* When process() settles, its directory under tmpdir() is gone, on every   *)
(* path through its error handling (image.processor.ts:99 and 275).         *)
TempDirReleased ==
    \A w \in Workers :
        proc[w].pc \in {"idle", "resolved", "rejected"} => tmp[w] = {}

(* process() resolves only after it wrote a final status; whatever leaves   *)
(* the status open rejects, so that the consumer dead-letters the message.  *)
ResolvedIsFinal ==
    \A w \in Workers :
        At(w, "resolved") => proc[w].wrote \in {"Succeeded", "Failed"}

(* An attempt that stored Succeeded never records Failed after it, although *)
(* handleError runs when the webhook fails: only the ENOENT of the second   *)
(* rmdir prevents the write at line 282.                                    *)
SuccessNotRevoked ==
    [][\A w \in Workers :
          proc[w].wrote = "Succeeded" => proc'[w].wrote # "Failed"]_vars

(* No attempt records an outcome for a request nobody has seen Processing.  *)
AcceptedOnlyToProcessing ==
    [][\A r \in Requests :
          doc[r].status = "Accepted"
            => doc'[r].status \in {"Accepted", "Processing"}]_vars

(* Every call of process() settles, whatever fails on the way.              *)
AttemptSettles == \A w \in Workers : ~At(w, "idle") ~> At(w, "idle")

(* image.processor.ts:282, "Updating Status to Failed in DB": an attempt    *)
(* that ends without success leaves the request Failed.                     *)
FailureIsRecorded ==
    \A w \in Workers :
        proc[w].pc \in {"resolved", "rejected"}
            => doc[Req(w)].status \in {"Succeeded", "Failed"}

-------------------------------------------------------------------------------
(* What a client observes of it. *)

StatusSeen == [r \in Requests |-> doc[r].status]
Stored == {r \in Requests : doc[r].outputs # << >> /\ Complete(r, doc[r].outputs)}
Notified == {h.req : h \in hooks}

Lifecycle == INSTANCE RequestLifecycle WITH Exclusive <- FALSE,
    status <- StatusSeen, stored <- Stored, notified <- Notified
ExclusiveLifecycle == INSTANCE RequestLifecycle WITH Exclusive <- TRUE,
    status <- StatusSeen, stored <- Stored, notified <- Notified

(* Attempts that overlap keep the lifecycle a client is promised.           *)
ImplementsLifecycle == Lifecycle!Spec

(* Attempts that do not overlap write a final status only over Processing.  *)
ImplementsExclusiveLifecycle == ExclusiveLifecycle!Spec
===============================================================================
