----------------------------- MODULE AsyncFifo -----------------------------
(***************************************************************************)
(* What a client of the non-blocking PassThru relies on, whatever the      *)
(* host controller driver does inside: requests wait in the order they     *)
(* were accepted, each is signalled once, and requests leave from the      *)
(* front, one at a time or all of them at once.                            *)
(***************************************************************************)
EXTENDS Sequences

CONSTANT Requests   \* identities of requests; a request is reused once signalled

VARIABLES
    pending,        \* accepted and not yet signalled, oldest first
    event           \* what the client's event has seen of each request

vars == <<pending, event>>

Waiting(r) == \E i \in DOMAIN pending : pending[i] = r

Init == /\ pending = <<>>
        /\ event = [r \in Requests |-> "idle"]

\* The client prepares a request it has no answer outstanding for.
Prepare(r) == /\ event[r] # "pending"
              /\ event' = [event EXCEPT ![r] = "idle"]
              /\ UNCHANGED pending

Accept(r) == /\ event[r] # "pending"
             /\ pending' = Append(pending, r)
             /\ event' = [event EXCEPT ![r] = "pending"]

Complete == /\ pending # <<>>
            /\ pending' = Tail(pending)
            /\ event' = [event EXCEPT ![Head(pending)] = "signalled"]

Flush == /\ pending' = <<>>
         /\ event' = [r \in Requests |->
                        IF Waiting(r) THEN "signalled" ELSE event[r]]

Next == \/ \E r \in Requests : Prepare(r) \/ Accept(r)
        \/ Complete \/ Flush

Spec == Init /\ [][Next]_vars
=============================================================================
