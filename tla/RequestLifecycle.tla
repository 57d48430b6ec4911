--------------------------- MODULE RequestLifecycle ---------------------------
(***************************************************************************)
(* What a client may observe of its request: the status document that     *)
(* GET status/:requestId reads (status.service.ts), the products with     *)
(* their output URLs in that document, and the webhook call.  Nothing is  *)
(* said here of workers, retries, temporary files or Kafka: the modules   *)
(* ImageProcessor and ImagePipeline are shown to implement this one.      *)
(***************************************************************************)
CONSTANTS
    Requests,     \* the requests the API accepted
    Exclusive     \* TRUE when no two attempts at a request ever overlap

VARIABLES
    status,       \* [Requests -> Status], RequestStatus of request.schema.ts
    stored,       \* the requests whose document holds every output image
    notified      \* the requests whose webhook was called with the output csv

vars == <<status, stored, notified>>

Status == {"Accepted", "Processing", "Succeeded", "Failed"}

TypeOK ==
    /\ status \in [Requests -> Status]
    /\ stored \subseteq Requests
    /\ notified \subseteq stored

Init ==
    /\ status = [r \in Requests |-> "Accepted"]
    /\ stored = {}
    /\ notified = {}

(* A final status is written only on a request that has been started; when *)
(* attempts do not overlap, only on one that is being processed.           *)
Started(r) ==
    IF Exclusive THEN status[r] = "Processing" ELSE status[r] # "Accepted"

Start(r) ==
    /\ status' = [status EXCEPT ![r] = "Processing"]
    /\ UNCHANGED <<stored, notified>>

Succeed(r) ==
    /\ Started(r)
    /\ status' = [status EXCEPT ![r] = "Succeeded"]
    /\ stored' = stored \cup {r}
    /\ UNCHANGED notified

Fail(r) ==
    /\ Started(r)
    /\ status' = [status EXCEPT ![r] = "Failed"]
    /\ UNCHANGED <<stored, notified>>

Notify(r) ==
    /\ r \in stored
    /\ notified' = notified \cup {r}
    /\ UNCHANGED <<status, stored>>

Next == \E r \in Requests : Start(r) \/ Succeed(r) \/ Fail(r) \/ Notify(r)

Spec == Init /\ [][Next]_vars
===============================================================================
