---------------------------- MODULE RetryWorker ----------------------------
(***************************************************************************)
(* A run of the retry worker (queue/payment.worker.ts): when the delay of  *)
(* a retry job has elapsed it calls RetryService.executeRetry, which moves *)
(* the payment back to PENDING and adds its process job again.  It takes   *)
(* no lock.  The delay itself is not modelled: a waiting job may be taken  *)
(* at any time.                                                            *)
(***************************************************************************)
EXTENDS ProcessWorker

VARIABLE retrying   \* retrying[r]: the local state of retry slot r

RetryPC == {"idle", "read", "requeue", "enqueue", "finish"}
RetryType == [pc : RetryPC, pay : Payments \cup {None}, attempt : Nat,
              ver : Nat]

RetryIdle == [pc |-> "idle", pay |-> None, attempt |-> 0, ver |-> 0]

RetryTypeOK == retrying \in [RetrySlots -> RetryType]
RetryInit == retrying = [r \in RetrySlots |-> RetryIdle]

RetryGoto(r, next) == retrying' = [retrying EXCEPT ![r] = next]
RetryLocal(r, pc, ver) ==
    [pc |-> pc, pay |-> retrying[r].pay, attempt |-> retrying[r].attempt,
     ver |-> ver]
RetryFinishes(r) == RetryGoto(r, RetryLocal(r, "finish", 0))

RetryReturns(r, next) ==
    \/ RetryGoto(r, next) /\ UNCHANGED faults
    \/ RetryFinishes(r) /\ SpendFault

RetryCallFails(r) ==
    /\ retrying[r].pc \in {"read", "requeue", "enqueue"}
    /\ SpendFault
    /\ RetryFinishes(r)
    /\ UNCHANGED <<storeVars, job>>
-----------------------------------------------------------------------------
TakeRetryJob(r, p, a) ==
    /\ retrying[r].pc = "idle"
    /\ Take(RetryJob(p, a), r)
    /\ RetryGoto(r, [pc |-> "read", pay |-> p, attempt |-> a, ver |-> 0])
    /\ UNCHANGED <<storeVars, faults>>

(* Bug: a retry is expected to find the payment still FAILED.              *)
IsFailed(status) == status = "FAILED"

IsScheduled(status) == status = "RETRY_SCHEDULED"

ReadForRetry(r) ==
    LET current == row[retrying[r].pay] IN
    /\ retrying[r].pc = "read"
    /\ IF IsScheduled(current.status)
       THEN RetryGoto(r, RetryLocal(r, "requeue", current.version))
       ELSE RetryFinishes(r)
    /\ UNCHANGED <<storeVars, job, faults>>

Requeue(r) ==
    LET p == retrying[r].pay IN
    /\ retrying[r].pc = "requeue"
    /\ IF VersionMatches(p, retrying[r].ver)
       THEN /\ TransitionState(p, "RETRY_SCHEDULED", "PENDING", None)
            /\ RetryReturns(r, RetryLocal(r, "enqueue", 0))
       ELSE /\ RetryFinishes(r)
            /\ UNCHANGED <<row, trail, faults>>
    /\ UNCHANGED <<responses, webhookEvent, job>>

EnqueueAgain(r) ==
    /\ retrying[r].pc = "enqueue"
    /\ Add(ProcessJob(retrying[r].pay))
    /\ RetryFinishes(r)
    /\ UNCHANGED faults
    /\ UNCHANGED storeVars

FinishRetryJob(r) ==
    /\ retrying[r].pc = "finish"
    /\ Finish(RetryJob(retrying[r].pay, retrying[r].attempt), r)
    /\ RetryGoto(r, RetryIdle)
    /\ UNCHANGED <<storeVars, faults>>

RetryStep(r) ==
    \/ \E p \in Payments, a \in 1..MaxRetries : TakeRetryJob(r, p, a)
    \/ ReadForRetry(r) \/ Requeue(r) \/ EnqueueAgain(r) \/ FinishRetryJob(r)
=============================================================================
