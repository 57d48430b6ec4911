---------------------------- MODULE MessageQueue ----------------------------
(***************************************************************************)
(* What the two services of packages/queue-service promise their users,    *)
(* whichever of them is configured: a message is handled at least once,    *)
(* and is removed only when it was.  Nothing is said here of deliveries,   *)
(* locks, offsets, members, caches or faults.                              *)
(*                                                                         *)
(* A partition of a Kafka topic is Ordered: its messages are named by      *)
(* their offsets, and each is handled for the first time, and removed,     *)
(* after those before it.  A queue of Azure Service Bus is not.            *)
(***************************************************************************)
EXTENDS Integers

CONSTANTS
    Names,        \* the names of the messages
    Ordered       \* TRUE when they are handled in the order of their names

VARIABLES
    published,    \* the messages that are in the queue or beyond
    handled,      \* those that were handled, as often as it may have been
    removed       \* those that are never delivered again to a new receiver

vars == <<published, handled, removed>>

Before(m) == IF Ordered THEN 0..(m - 1) ELSE {}

Init == published = {} /\ handled = {} /\ removed = {}

Publish(m) ==
    /\ m \notin published /\ Before(m) \subseteq published
    /\ published' = published \cup {m}
    /\ UNCHANGED <<handled, removed>>

(* A message that is handled again leaves no trace.                         *)
Handle(m) ==
    /\ Before(m) \subseteq handled
    /\ handled' = handled \cup {m}
    /\ UNCHANGED <<published, removed>>

Remove(M) ==
    /\ removed' = removed \cup M
    /\ \A m \in M : Before(m) \subseteq removed'
    /\ UNCHANGED <<published, handled>>

Next ==
    \/ \E m \in Names : Publish(m)
    \/ \E m \in published : Handle(m)
    \/ \E M \in SUBSET handled : Remove(M)

Spec == Init /\ [][Next]_vars
=============================================================================
