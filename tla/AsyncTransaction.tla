-------------------------- MODULE AsyncTransaction --------------------------
(***************************************************************************)
(* What an asynchronous transaction promises to the consumer of connio     *)
(* (the description of ConnASubmit in connio.h).  The consumer queues      *)
(* events and submits them.  They end one by one, or the first problem     *)
(* ends some of them early.  When the transaction is submitted and nothing *)
(* of it is pending, the consumer is called back once, with the verdict.   *)
(***************************************************************************)
CONSTANT Event

VARIABLES phase,    \* "idle", "building" (queueing events) or "submitted"
          pending,  \* the events that are queued or in progress
          verdict   \* "none", or the first problem

vars == <<phase, pending, verdict>>

Problem == {"FAILED", "TIMED_OUT", "KILLED", "PARTIAL"}

Init == phase = "idle" /\ pending = {} /\ verdict = "none"

\* New events are accepted before the submit, and not after a problem.
Accept ==
    /\ phase \in {"idle", "building"}
    /\ phase' = "building"
    /\ pending' \in SUBSET Event
    /\ pending \subseteq pending'
    /\ verdict # "none" => pending' = pending
    /\ verdict' \in {verdict} \cup (IF verdict = "none" THEN Problem ELSE {})

\* The conn is given to connio.  Without events that is a failure.
Submit ==
    /\ phase \in {"idle", "building"}
    /\ phase' = "submitted"
    /\ verdict' = IF phase = "idle" /\ verdict = "none" THEN "FAILED" ELSE verdict
    /\ UNCHANGED pending

\* An event ends, well or after the verdict is known.
End ==
    /\ \E e \in pending : pending' = pending \ {e}
    /\ UNCHANGED <<phase, verdict>>

\* The first problem: events are cancelled.
Fail ==
    /\ phase' = IF phase = "idle" THEN "building" ELSE phase
    /\ verdict = "none"
    /\ verdict' \in Problem
    /\ pending' \subseteq pending

\* The callback gives the conn back to the consumer.
Callback ==
    /\ phase = "submitted"
    /\ pending = {}
    /\ phase' = "idle"
    /\ verdict' = "none"
    /\ UNCHANGED pending

Next == Accept \/ Submit \/ End \/ Fail \/ Callback

Spec == Init /\ [][Next]_vars

\* Every submitted transaction is called back.
Delivery == phase = "submitted" ~> phase = "idle"
=============================================================================
