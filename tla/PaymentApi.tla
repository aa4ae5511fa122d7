----------------------------- MODULE PaymentApi -----------------------------
(***************************************************************************)
(* The requests of PaymentService that change a payment: createPayment and *)
(* cancelPayment.  A payment is created once (its id is fresh); it may be  *)
(* cancelled as often as the client asks, one request at a time.           *)
(***************************************************************************)
EXTENDS WebhookService

CONSTANT Cancellable    \* bound: the payments a client may want to cancel

VARIABLES
    creating,       \* creating[p]: how far createPayment(p) has come
    cancelling      \* cancelling[p]: version a cancel request read, or 0

ApiTypeOK ==
    /\ creating \in [Payments -> {"new", "enqueue", "done"}]
    /\ cancelling \in [Payments -> Nat]
ApiInit ==
    /\ creating = [p \in Payments |-> "new"]
    /\ cancelling = [p \in Payments |-> 0]
-----------------------------------------------------------------------------
CreatePayment(p) ==
    /\ creating[p] = "new"
    /\ InsertPayment(p)
    /\ creating' = [creating EXCEPT ![p] = "enqueue"]
    /\ UNCHANGED <<responses, webhookEvent, job, faults, cancelling>>

(* After the commit; when it fails the client gets an error and the        *)
(* payment stays PENDING without a job.                                    *)
EnqueuePayment(p) ==
    /\ creating[p] = "enqueue"
    /\ creating' = [creating EXCEPT ![p] = "done"]
    /\ \/ Add(ProcessJob(p)) /\ UNCHANGED faults
       \/ UNCHANGED job /\ SpendFault
    /\ UNCHANGED <<storeVars, cancelling>>

(* A payment is never seen in CREATED, so PENDING is what is left of the   *)
(* checks before the update.                                               *)
ReadForCancel(p) ==
    /\ p \in Cancellable
    /\ cancelling[p] = 0
    /\ row[p].status \in {"CREATED", "PENDING"}
    /\ cancelling' = [cancelling EXCEPT ![p] = row[p].version]
    /\ UNCHANGED <<storeVars, job, faults, creating>>

(* Bug: the version that was read is not tested.                           *)
CancelAnyVersion(p) ==
    /\ cancelling[p] # 0
    /\ cancelling' = [cancelling EXCEPT ![p] = 0]
    /\ TransitionState(p, "PENDING", "CANCELLED", None)
    /\ UNCHANGED <<responses, webhookEvent, job, faults, creating>>

CancelPayment(p) ==
    /\ cancelling[p] # 0
    /\ cancelling' = [cancelling EXCEPT ![p] = 0]
    /\ IF CanTransition(p, "PENDING", "CANCELLED", cancelling[p])
       THEN TransitionState(p, "PENDING", "CANCELLED", None)
       ELSE UNCHANGED <<row, trail>>
    /\ UNCHANGED <<responses, webhookEvent, job, faults, creating>>

ApiStep(p) ==
    \/ CreatePayment(p) \/ EnqueuePayment(p)
    \/ ReadForCancel(p) \/ CancelPayment(p)
=============================================================================
