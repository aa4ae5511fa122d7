--------------------------- MODULE ProcessWorker ---------------------------
(***************************************************************************)
(* A run of the process worker (queue/payment.worker.ts): it takes a job,  *)
(* calls PaymentService.processPayment under the payment's lock and, when  *)
(* that throws, RetryService.handleFailedProcessing, which runs outside    *)
(* the lock.  Every await is a step of its own, so anything may happen     *)
(* between two of them.  run[w].pc names the await the run is at:          *)
(*                                                                         *)
(*   acquire fetch begin gateway record                processPayment      *)
(*   markSuccess markPending markFailed recheck giveUp handlePaymentResult *)
(*   release | abort             withLock's finally, after return | throw  *)
(*   triage exhaust              handleFailedProcessing                    *)
(*   reread schedule enqueue     scheduleRetry                             *)
(*   complete | reject           the job's promise, resolved | rejected    *)
(***************************************************************************)
EXTENDS JobQueue, DistributedLock

CONSTANT GatewayCodes   \* the error codes the gateway may answer with

ASSUME GatewayAssumption == GatewayCodes \subseteq GatewayErrorCode

VARIABLES
    run,            \* run[w]: the local state of slot w
    calls           \* calls[p]: the gateway's ledger of the calls it got

Answers == {"success", "pending"} \cup GatewayCodes

InLock == {"fetch", "begin", "gateway", "record", "markSuccess",
           "markPending", "markFailed", "recheck", "giveUp", "release",
           "abort"}
InTriage == {"triage", "exhaust", "reread", "schedule", "enqueue"}
RunPC == {"idle", "acquire", "complete", "reject"} \cup InLock \cup InTriage

RunType == [pc      : RunPC,
            pay     : Payments \cup {None},
            ver     : Nat,      \* the version the next update expects
            result  : {"success", "pending", None} \cup GatewayErrorCode,
            attempt : Nat]      \* currentAttempt of scheduleRetry
CallType == [attempt : Nat,     \* version of the row when PROCESSING began
             answer : Answers]

Idle == [pc |-> "idle", pay |-> None, ver |-> 0, result |-> None,
         attempt |-> 0]

WorkerTypeOK ==
    /\ run \in [Slots -> RunType]
    /\ calls \in [Payments -> Seq(CallType)]

WorkerInit ==
    /\ run = [w \in Slots |-> Idle]
    /\ calls = [p \in Payments |-> <<>>]

workerVars == <<run, calls>>
-----------------------------------------------------------------------------
At(w, pc) == run[w].pc = pc
Goto(w, next) == run' = [run EXCEPT ![w] = next]

(* Where an exception takes a run: withLock releases the lock first, the   *)
(* worker's catch block calls handleFailedProcessing, and its own catch    *)
(* only logs.                                                              *)
Handler(pc) ==
    IF pc \in {"acquire", "release", "abort"} THEN "triage"
    ELSE IF pc \in InLock THEN "abort" ELSE "reject"

(* The local state of a run at an await: its payment, and what it still    *)
(* needs of the rest.                                                      *)
Local(w, pc, ver, result, attempt) ==
    [pc |-> pc, pay |-> run[w].pay, ver |-> ver, result |-> result,
     attempt |-> attempt]

Ends(w, pc) == Local(w, pc, 0, None, 0)

Thrown(w) == Ends(w, Handler(run[w].pc))
Throws(w) == Goto(w, Thrown(w)) /\ UNCHANGED faults

(* A call with an effect returns, or its reply is lost and it throws.      *)
Returns(w, next) ==
    \/ Goto(w, next) /\ UNCHANGED faults
    \/ Goto(w, Thrown(w)) /\ SpendFault

(* A call that fails before it has any effect.                             *)
CallFails(w) ==
    /\ run[w].pc \in InLock \cup InTriage \cup {"acquire"}
    /\ ~At(w, "gateway")
    /\ SpendFault
    /\ Goto(w, Thrown(w))
    /\ UNCHANGED <<storeVars, job, lock, calls>>
-----------------------------------------------------------------------------
TakeProcessJob(w, p) ==
    /\ At(w, "idle")
    /\ Take(ProcessJob(p), w)
    /\ Goto(w, [pc |-> "acquire", pay |-> p, ver |-> 0, result |-> None,
                attempt |-> 0])
    /\ UNCHANGED <<storeVars, lock, calls, faults>>

AcquireLock(w) ==
    LET p == run[w].pay IN
    /\ At(w, "acquire")
    /\ IF LockFree(p)
       THEN SetLock(p, w) /\ Returns(w, Ends(w, "fetch"))
       ELSE Throws(w) /\ UNCHANGED lock
    /\ UNCHANGED <<storeVars, job, calls>>

(* Bug: the payment is processed whatever its status.                      *)
IsThere(status) == status # "ABSENT"

IsPending(status) == status = "PENDING"

FetchPayment(w) ==
    LET current == row[run[w].pay] IN
    /\ At(w, "fetch")
    /\ IF IsPending(current.status)
       THEN Goto(w, Local(w, "begin", current.version, None, 0))
       ELSE Goto(w, Ends(w, IF current.status = "ABSENT" THEN "abort"
                                                         ELSE "release"))
    /\ UNCHANGED <<storeVars, job, lock, calls, faults>>

(* A status change by a run: when it commits the run goes to `next`, when  *)
(* the version moved (P2025) it throws.                                    *)
Transition(w, from, to, code, next) ==
    LET p == run[w].pay IN
    /\ IF CanTransition(p, from, to, run[w].ver)
       THEN TransitionState(p, from, to, code) /\ Returns(w, next)
       ELSE Throws(w) /\ UNCHANGED <<row, trail>>
    /\ UNCHANGED <<responses, webhookEvent, lock, calls>>

BeginProcessing(w) ==
    /\ At(w, "begin")
    /\ Transition(w, "PENDING", "PROCESSING", None,
                  Local(w, "gateway", run[w].ver + 1, None, 0))
    /\ UNCHANGED job

GatewayAnswers(w) ==
    LET p == run[w].pay IN
    /\ At(w, "gateway")
    /\ \E answer \in Answers :
          /\ calls' = [calls EXCEPT ![p] =
                         Append(@, [attempt |-> run[w].ver,
                                    answer |-> answer])]
          /\ Goto(w, Local(w, "record", run[w].ver, answer, 0))
    /\ UNCHANGED <<storeVars, job, lock, faults>>

(* CircuitBreakerOpenError is not a GatewayError: it becomes the retryable *)
(* INTERNAL_ERROR without any call.                                        *)
BreakerRejects(w) ==
    /\ At(w, "gateway")
    /\ Goto(w, Local(w, "record", run[w].ver, "INTERNAL_ERROR", 0))
    /\ UNCHANGED <<storeVars, job, lock, calls, faults>>

(* Bug: an answer that announces a webhook is taken for a success, or for  *)
(* a failure.                                                              *)
PendingIsSuccess(result) ==
    IF result \in {"success", "pending"} THEN "markSuccess" ELSE "markFailed"
PendingIsFailure(result) ==
    IF result = "success" THEN "markSuccess" ELSE "markFailed"

AfterRecord(result) ==
    IF result = "success" THEN "markSuccess"
    ELSE IF result = "pending" THEN "markPending" ELSE "markFailed"

RecordResponse(w) ==
    /\ At(w, "record")
    /\ responses' = [responses EXCEPT ![run[w].pay] = @ \cup {run[w].ver}]
    /\ Returns(w, Local(w, AfterRecord(run[w].result), run[w].ver,
                        run[w].result, 0))
    /\ UNCHANGED <<row, trail, webhookEvent, job, lock, calls>>

MarkSuccess(w) ==
    /\ At(w, "markSuccess")
    /\ Transition(w, "PROCESSING", "SUCCESS", None,
                  Ends(w, "release"))
    /\ UNCHANGED job

(* The gateway reference is stored without a new version.                  *)
MarkPending(w) ==
    /\ At(w, "markPending")
    /\ IF VersionMatches(run[w].pay, run[w].ver)
       THEN Returns(w, Ends(w, "release"))
       ELSE Throws(w)
    /\ UNCHANGED <<storeVars, job, lock, calls>>

MarkFailed(w) ==
    /\ At(w, "markFailed")
    /\ Transition(w, "PROCESSING", "FAILED", run[w].result,
                  Local(w, "recheck", 0, run[w].result, 0))
    /\ UNCHANGED job

(* The status of the row read here is not looked at.                       *)
Recheck(w) ==
    LET p == run[w].pay IN
    /\ At(w, "recheck")
    /\ Goto(w, IF CanRetry(p, run[w].result)
               THEN Ends(w, "release")
               ELSE Local(w, "giveUp", row[p].version, None, 0))
    /\ UNCHANGED <<storeVars, job, lock, calls, faults>>

GiveUp(w) ==
    /\ At(w, "giveUp")
    /\ Transition(w, "FAILED", "PERMANENTLY_FAILED", None,
                  Ends(w, "release"))
    /\ UNCHANGED job

(* withLock's finally.                                                     *)
Release(w) ==
    /\ run[w].pc \in {"release", "abort"}
    /\ ReleaseLock(run[w].pay, w)
    /\ Returns(w, Ends(w, IF At(w, "abort") THEN "triage" ELSE "complete"))
    /\ UNCHANGED <<storeVars, job, calls>>
-----------------------------------------------------------------------------
(* handleFailedProcessing reads the payment and decides.                   *)
Triage(w) ==
    LET p == run[w].pay IN
    /\ At(w, "triage")
    /\ Goto(w, IF row[p].status # "FAILED" THEN Ends(w, "reject")
               ELSE IF CanRetry(p, row[p].errorCode)
               THEN Local(w, "reread", 0, None, row[p].retryCount)
               ELSE Local(w, "exhaust", row[p].version, None, 0))
    /\ UNCHANGED <<storeVars, job, lock, calls, faults>>

Exhaust(w) ==
    /\ At(w, "exhaust")
    /\ Transition(w, "FAILED", "PERMANENTLY_FAILED", None,
                  Ends(w, "reject"))
    /\ UNCHANGED job

(* scheduleRetry reads the payment again; it tests the status again but    *)
(* not the retry count.                                                    *)
Reread(w) ==
    LET current == row[run[w].pay] IN
    /\ At(w, "reread")
    /\ Goto(w, IF current.status = "FAILED"
               THEN Local(w, "schedule", current.version, None, run[w].attempt)
               ELSE Ends(w, "reject"))
    /\ UNCHANGED <<storeVars, job, lock, calls, faults>>

ScheduleRetry(w) ==
    /\ At(w, "schedule")
    /\ Transition(w, "FAILED", "RETRY_SCHEDULED", None,
                  Local(w, "enqueue", 0, None, run[w].attempt))
    /\ UNCHANGED job

EnqueueRetry(w) ==
    /\ At(w, "enqueue")
    /\ Add(RetryJob(run[w].pay, run[w].attempt + 1))
    /\ Returns(w, Ends(w, "reject"))
    /\ UNCHANGED <<storeVars, lock, calls>>

(* Bug: the promise of a job that failed is never settled.                 *)
Resolved(pc) == pc = "complete"

Settled(pc) == pc \in {"complete", "reject"}

FinishProcessJob(w) ==
    /\ Settled(run[w].pc)
    /\ Finish(ProcessJob(run[w].pay), w)
    /\ Goto(w, Idle)
    /\ UNCHANGED <<storeVars, lock, calls, faults>>

WorkerStep(w) ==
    \/ \E p \in Payments : TakeProcessJob(w, p)
    \/ AcquireLock(w) \/ FetchPayment(w) \/ BeginProcessing(w)
    \/ GatewayAnswers(w) \/ BreakerRejects(w) \/ RecordResponse(w)
    \/ MarkSuccess(w) \/ MarkPending(w) \/ MarkFailed(w)
    \/ Recheck(w) \/ GiveUp(w) \/ Release(w)
    \/ Triage(w) \/ Exhaust(w) \/ Reread(w) \/ ScheduleRetry(w)
    \/ EnqueueRetry(w) \/ FinishProcessJob(w)
=============================================================================
