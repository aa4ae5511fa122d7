-------------------------- MODULE PaymentLifecycle --------------------------
(***************************************************************************)
(* What the gateway promises about a payment, without workers, queues,     *)
(* locks or webhooks: its status moves along the status machine, every     *)
(* entry to PROCESSING is worth at most one call of the payment gateway    *)
(* and the call is made while the payment is PROCESSING, a failure is      *)
(* retried at most MaxRetries times, and a final status is final.          *)
(***************************************************************************)
EXTENDS Naturals

CONSTANTS Payments, MaxRetries

VARIABLES
    status,         \* status[p]
    retries,        \* retries[p]: how often a retry of p was scheduled
    called          \* called[p]: this attempt has called the gateway

vars == <<status, retries, called>>

Init ==
    /\ status = [p \in Payments |-> "ABSENT"]
    /\ retries = [p \in Payments |-> 0]
    /\ called = [p \in Payments |-> FALSE]

Move(p, from, to) ==
    /\ status[p] = from
    /\ status' = [status EXCEPT ![p] = to]
    /\ called' = [called EXCEPT ![p] = FALSE]

Open(p) == Move(p, "ABSENT", "PENDING") /\ UNCHANGED retries
Cancel(p) == Move(p, "PENDING", "CANCELLED") /\ UNCHANGED retries
Start(p) == Move(p, "PENDING", "PROCESSING") /\ UNCHANGED retries

CallGateway(p) ==
    /\ status[p] = "PROCESSING" /\ ~called[p]
    /\ called' = [called EXCEPT ![p] = TRUE]
    /\ UNCHANGED <<status, retries>>

Settle(p) ==
    /\ Move(p, "PROCESSING", "SUCCESS") \/ Move(p, "PROCESSING", "FAILED")
    /\ UNCHANGED retries

GiveUp(p) == Move(p, "FAILED", "PERMANENTLY_FAILED") /\ UNCHANGED retries

ScheduleRetry(p) ==
    /\ retries[p] < MaxRetries
    /\ Move(p, "FAILED", "RETRY_SCHEDULED")
    /\ retries' = [retries EXCEPT ![p] = @ + 1]

Requeue(p) == Move(p, "RETRY_SCHEDULED", "PENDING") /\ UNCHANGED retries

Next == \E p \in Payments :
    \/ Open(p) \/ Cancel(p) \/ Start(p) \/ CallGateway(p) \/ Settle(p)
    \/ GiveUp(p) \/ ScheduleRetry(p) \/ Requeue(p)

Spec == Init /\ [][Next]_vars
=============================================================================
