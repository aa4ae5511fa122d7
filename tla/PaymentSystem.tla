--------------------------- MODULE PaymentSystem ---------------------------
(***************************************************************************)
(* The payment gateway: API, process workers, retry workers and webhook    *)
(* requests over the store, the queues and the lock, with what the         *)
(* environment does to them - lock keys that expire, jobs that stall,      *)
(* finished jobs that are evicted, processes that die.                     *)
(***************************************************************************)
EXTENDS PaymentApi

CONSTANTS
    LockLapses,     \* a key may expire while its critical section runs
    LiveStalls      \* a job may be redelivered while its run still works

ASSUME ToggleAssumption == LockLapses \in BOOLEAN /\ LiveStalls \in BOOLEAN

apiVars == <<creating, cancelling>>
vars == <<storeVars, job, lock, workerVars, retrying, hook, apiVars, faults>>

TypeOK ==
    /\ StoreTypeOK /\ QueueTypeOK /\ LockTypeOK /\ WorkerTypeOK
    /\ RetryTypeOK /\ HookTypeOK /\ ApiTypeOK /\ FaultsTypeOK

Init ==
    /\ StoreInit /\ QueueInit /\ LockInit /\ WorkerInit
    /\ RetryInit /\ HookInit /\ ApiInit /\ FaultsInit
-----------------------------------------------------------------------------
(* A task is in the critical section of p.                                 *)
InCritical(t, p) ==
    \/ t \in Slots /\ run[t].pay = p /\ run[t].pc \in InLock
    \/ /\ t \in Hooks /\ hook[t].pc \in HookInLock
       /\ Payload[hook[t].event].pay = p

RunsJob(t, id) ==
    \/ t \in Slots /\ run[t].pc # "idle" /\ ProcessJob(run[t].pay) = id
    \/ /\ t \in RetrySlots /\ retrying[t].pc # "idle"
       /\ RetryJob(retrying[t].pay, retrying[t].attempt) = id

ExpireLock(p) ==
    /\ LockLapses \/ ~InCritical(lock[p], p)
    /\ LoseLock(p)
    /\ UNCHANGED <<storeVars, job, workerVars, retrying, hook, apiVars,
                   faults>>

RedeliverJob(id) ==
    /\ LiveStalls \/ ~RunsJob(job[id].owner, id)
    /\ Stall(id)
    /\ UNCHANGED <<storeVars, lock, workerVars, retrying, hook, apiVars,
                   faults>>

EvictJob(id) ==
    /\ Evict(id)
    /\ UNCHANGED <<storeVars, lock, workerVars, retrying, hook, apiVars,
                   faults>>

(* Some tasks die; what they held in memory is gone, what they wrote to    *)
(* Postgres and Redis stays.                                               *)
Crash(dead, clients) ==
    /\ SpendFault
    /\ run' = [w \in Slots |-> IF w \in dead THEN Idle ELSE run[w]]
    /\ retrying' = [r \in RetrySlots |->
                      IF r \in dead THEN RetryIdle ELSE retrying[r]]
    /\ hook' = [h \in Hooks |-> IF h \in dead THEN HookIdle ELSE hook[h]]
    /\ creating' = [p \in Payments |->
                      IF p \in clients /\ creating[p] = "enqueue"
                      THEN "done" ELSE creating[p]]
    /\ cancelling' = [p \in Payments |->
                        IF p \in clients THEN 0 ELSE cancelling[p]]
    /\ UNCHANGED <<storeVars, job, lock, calls>>

Worker(w) ==
    /\ WorkerStep(w) \/ CallFails(w)
    /\ UNCHANGED <<retrying, hook, apiVars>>
Retry(r) ==
    /\ RetryStep(r) \/ RetryCallFails(r)
    /\ UNCHANGED <<lock, workerVars, hook, apiVars>>
Webhook(h) ==
    /\ HookStep(h) \/ HookCallFails(h)
    /\ UNCHANGED <<job, workerVars, retrying, apiVars>>
Send(h, e) ==
    /\ Deliver(h, e)
    /\ UNCHANGED <<job, workerVars, retrying, apiVars>>
Api(p) ==
    /\ ApiStep(p)
    /\ UNCHANGED <<lock, workerVars, retrying, hook>>

Next ==
    \/ \E p \in Payments : Api(p)
    \/ \E w \in Slots : Worker(w)
    \/ \E r \in RetrySlots : Retry(r)
    \/ \E h \in Hooks : Webhook(h)
    \/ \E h \in Hooks, e \in Events : Send(h, e)
    \/ \E p \in Payments : ExpireLock(p)
    \/ \E id \in JobIds : RedeliverJob(id)
    \/ \E id \in JobIds : EvictJob(id)
    \/ \E dead \in SUBSET Tasks, clients \in SUBSET Payments :
          Crash(dead, clients)

Spec == Init /\ [][Next]_vars

(* A task that is running keeps running, a key that nobody uses expires,   *)
(* a job whose worker is gone is found stalled.  Nothing makes the gateway *)
(* deliver a webhook, a client cancel, or a finished job leave Redis.      *)
Fairness ==
    /\ \A p \in Payments :
          /\ WF_vars(EnqueuePayment(p) /\ UNCHANGED <<lock, workerVars,
                                                     retrying, hook>>)
          /\ WF_vars(ExpireLock(p))
    /\ \A w \in Slots : WF_vars(Worker(w))
    /\ \A r \in RetrySlots : WF_vars(Retry(r))
    /\ \A h \in Hooks : WF_vars(Webhook(h))
    /\ \A id \in JobIds : WF_vars(RedeliverJob(id))

FairSpec == Spec /\ Fairness
-----------------------------------------------------------------------------
LastOf(p) == trail[p][Len(trail[p])]

(* The audit trail of a payment is its history: it has an entry for every  *)
(* version, the last one is the current status, each entry starts where    *)
(* the one before it ended, and every change is a valid transition.        *)
(* (transitionStateInTx: "Validates the transition, uses optimistic        *)
(* locking, and creates an audit event".)                                  *)
TrailIsHistory ==
    \A p \in Payments :
        /\ Len(trail[p]) = row[p].version
        /\ trail[p] # <<>> =>
              /\ LastOf(p).to = row[p].status
              /\ trail[p][1].from = None
        /\ \A i \in 2..Len(trail[p]) :
              /\ trail[p][i].from = trail[p][i - 1].to
              /\ IsValidStateTransition(trail[p][i].from, trail[p][i].to)

(* One entry to PROCESSING is worth one gateway call: whatever is          *)
(* redelivered, repeated or run twice, the gateway never gets two calls    *)
(* for the same attempt at a payment.                                      *)
OneCallPerAttempt ==
    \A p \in Payments : \A i, j \in 1..Len(calls[p]) :
        calls[p][i].attempt = calls[p][j].attempt => i = j

(* A payment is retried at most MaxRetries times (payments.max_retries),   *)
(* although scheduleRetry does not test the count it increments.           *)
RetryBudget == \A p \in Payments : row[p].retryCount <= MaxRetries

(* The gateway is called at most once more than a retry was scheduled,     *)
(* through every crash, redelivery and lapsed lock.                        *)
CallsArePaidFor ==
    \A p \in Payments : Len(calls[p]) <= 1 + row[p].retryCount

(* However often an event is delivered, and however deliveries overlap, it *)
(* changes its payment once if it is recorded PROCESSED and never if it is *)
(* not, and it is never both PROCESSED and REJECTED.                       *)
WebhookExactlyOnce ==
    \A e \in Events :
        /\ ~({"PROCESSED", "REJECTED"} \subseteq webhookEvent[e])
        /\ LET applied == {i \in 1..Len(trail[Payload[e].pay]) :
                             trail[Payload[e].pay][i].by = e}
           IN  IF "PROCESSED" \in webhookEvent[e]
               THEN \E i \in applied : applied = {i}
               ELSE applied = {}

(* webhook.controller.ts: "Always return 200 to acknowledge receipt".  A   *)
(* delivery that is answered 200 (its critical section returned, or the    *)
(* duplicate was recorded) has left its event on record, whatever else     *)
(* happened to it: an event nobody applied or rejected is answered with an *)
(* error, so that the gateway delivers it again.                           *)
AckedIsRecorded ==
    [][\A h \in Hooks :
          /\ hook[h].pc \in {"duplicate", "release"}
          /\ hook'[h].pc = "idle" /\ faults' = faults
          => EventRecorded(hook[h].event)]_vars

(* While locks outlive their critical sections, an event is recorded       *)
(* REJECTED only when at that moment it does not apply: rejecting is final *)
(* (a redelivery is a duplicate), so it must not be decided on a status    *)
(* that has changed since it was read.                                     *)
RejectedDoesNotApply ==
    [][\A e \in Events :
          "REJECTED" \in webhookEvent'[e] \ webhookEvent[e]
              => ~Accepts(row[Payload[e].pay].status, TargetStatus(e))]_vars

(* No two tasks are in the critical section of one payment (withLock).     *)
MutualExclusion ==
    \A p \in Payments : \A s, t \in Slots \cup Hooks :
        InCritical(s, p) /\ InCritical(t, p) => s = t

(* A key is not taken away from a task in its critical section but by its  *)
(* TTL, whatever other tasks release meanwhile: a task whose own key has   *)
(* lapsed does not delete the key of the one that came after               *)
(* (distributedLock.ts: "Only releases the lock if the stored token        *)
(* matches the provided token").                                           *)
KeyIsNotTakenAway ==
    [][\A p \in Payments : \A t \in Slots \cup Hooks :
          lock[p] = t /\ lock'[p] # t /\ InCritical(t, p)'
              => ExpireLock(p)]_vars

(* While no call has failed and no process has died, a key does not        *)
(* outlive the critical section of its owner, exceptions inside of it      *)
(* included (withLock: "releases the lock regardless of outcome"): nobody  *)
(* waits for a TTL.                                                        *)
NoKeyIsLeft ==
    faults = MaxFaults =>
        \A p \in Payments : lock[p] # None => InCritical(lock[p], p)

(* The gateway is never called for a payment that is already settled,      *)
(* cancelled or permanently failed.                                        *)
NoCallOnceFinal ==
    [][\A p \in Payments :
          row[p].status \in TerminalStates => calls'[p] = calls[p]]_vars

(* A SUCCESS entry of the trail is backed: when the service wrote it, the  *)
(* attempt it settles (the version before it) was answered "success" by    *)
(* the gateway and has its gateway_response event; otherwise a success     *)
(* webhook of this payment wrote it.                                       *)
SuccessIsBacked ==
    \A p \in Payments : \A i \in 1..Len(trail[p]) :
        trail[p][i].to = "SUCCESS" =>
            IF trail[p][i].by = "service"
            THEN /\ i - 1 \in responses[p]
                 /\ \E j \in 1..Len(calls[p]) :
                       calls[p][j] = [attempt |-> i - 1, answer |-> "success"]
            ELSE LET e == trail[p][i].by
                 IN  Payload[e].pay = p /\ Payload[e].status = "success"

Lifecycle == INSTANCE PaymentLifecycle WITH
    status  <- [p \in Payments |-> row[p].status],
    retries <- [p \in Payments |-> row[p].retryCount],
    called  <- [p \in Payments |->
                  /\ row[p].status = "PROCESSING"
                  /\ \E i \in 1..Len(calls[p]) :
                        calls[p][i].attempt = row[p].version]

(* While locks outlive their critical sections, the system does what       *)
(* PaymentLifecycle promises.                                              *)
ImplementsLifecycle == Lifecycle!Spec
-----------------------------------------------------------------------------
(* Every job that waits is eventually finished, whatever its run meets.    *)
JobsFinish ==
    \A id \in JobIds :
        job[id].state = "waiting" ~> job[id].state \in {"finished", "absent"}

(* A lock that is taken is eventually free again, also when its owner died *)
(* or never learned that it had it.                                        *)
LocksAreFreed == \A p \in Payments : lock[p] # None ~> lock[p] = None

(* A retry whose job was queued moves the payment back to PENDING, unless  *)
(* a failure hits the retry worker.                                        *)
RetryIsExecuted ==
    \A p \in Payments : \A a \in 1..MaxRetries :
        (job[RetryJob(p, a)].state = "waiting" /\ faults = 0)
            ~> row[p].status # "RETRY_SCHEDULED"

(* A payment the gateway left pending waits for a webhook (README.md,      *)
(* payment flow: "Pending -> awaits webhook"): while an event about it     *)
(* that was not recorded yet keeps being delivered and no call fails, the  *)
(* payment leaves PROCESSING.                                              *)
PendingIsSettled ==
    \A e \in Events :
        []<>(\E h \in Hooks : HookAt(h, "dedup") /\ hook[h].event = e) =>
            ((/\ row[Payload[e].pay].status = "PROCESSING"
              /\ ~EventRecorded(e)
              /\ faults = 0)
                ~> row[Payload[e].pay].status # "PROCESSING")

(* README.md, payment flow, step 5: "Failure (retryable) ->                *)
(* retryService.scheduleRetry()".  (The code reaches scheduleRetry only    *)
(* from the catch block of the worker, that is when processPayment throws; *)
(* a declined call does not throw.)                                        *)
RetryableFailureIsRetried ==
    \A p \in Payments :
        (row[p].status = "FAILED" /\ CanRetry(p, row[p].errorCode))
            ~> row[p].status = "RETRY_SCHEDULED"

(* README.md, retry flow: the retry worker moves the payment to PENDING    *)
(* and enqueues a processing job, then the process worker processes it.    *)
RetriedPaymentIsProcessed ==
    \A p \in Payments :
        (row[p].status = "PENDING" /\ row[p].retryCount > 0)
            ~> row[p].status # "PENDING"

(* constants.ts, VALID_TRANSITIONS: "set of allowed next states".          *)
(* transitionStateInTx validates the transition its caller claims, not the *)
(* one the row makes.                                                      *)
StatusMovesAreValid ==
    [][\A p \in Payments :
          row[p].status \notin {"ABSENT", row'[p].status} =>
              IsValidStateTransition(row[p].status, row'[p].status)]_vars
=============================================================================
