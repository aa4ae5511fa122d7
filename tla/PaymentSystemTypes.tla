------------------------- MODULE PaymentSystemTypes -------------------------
(***************************************************************************)
(* TypeOK is an invariant of PaymentSystem.  Its inductive form says in    *)
(* addition that a task which is not idle has a subject - a run and a      *)
(* retry run their payment, a webhook request its event - that a run which *)
(* has called the gateway holds an answer, and that one about to mark its  *)
(* payment FAILED holds an error code.                                     *)
(***************************************************************************)
EXTENDS PaymentSystem, TLAPS

RunOK(r) ==
    /\ r \in RunType
    /\ r.pc # "idle" => r.pay \in Payments
    /\ r.pc = "record" => r.result # None
    /\ r.pc = "markFailed" => r.result \in GatewayErrorCode
RetryOK(r) ==
    /\ r \in RetryType
    /\ r.pc # "idle" => r.pay \in Payments /\ r.attempt \in 1..MaxRetries
HookOK(r) ==
    /\ r \in HookType
    /\ r.pc # "idle" => r.event \in Events

RunsOK == run \in [Slots -> RunType] /\ \A w \in Slots : RunOK(run[w])
RetriesOK == /\ retrying \in [RetrySlots -> RetryType]
             /\ \A r \in RetrySlots : RetryOK(retrying[r])
HooksOK == hook \in [Hooks -> HookType] /\ \A h \in Hooks : HookOK(hook[h])
CallsOK == calls \in [Payments -> Seq(CallType)]

TypeInv ==
    /\ StoreTypeOK /\ QueueTypeOK /\ LockTypeOK /\ CallsOK /\ RunsOK
    /\ RetriesOK /\ HooksOK /\ ApiTypeOK /\ FaultsTypeOK

(* The inductive form implies the invariant.                               *)
LEMMA TypeInvImplies == TypeInv => TypeOK
  BY DEF TypeInv, TypeOK, RunsOK, RetriesOK, HooksOK, CallsOK, WorkerTypeOK,
         RetryTypeOK, HookTypeOK
-----------------------------------------------------------------------------
(* What the operators of the components keep.                              *)

LEMMA WriteTypes ==
    ASSUME StoreTypeOK,
           NEW p \in Payments, NEW from \in PaymentStatus \cup {None},
           NEW to \in PaymentStatus, NEW by \in Events \cup {"service"},
           NEW code \in GatewayErrorCode \cup {None},
           Write(p, from, to, by, code)
    PROVE  /\ row' \in [Payments -> RowType]
           /\ trail' \in [Payments -> Seq(TrailType)]
  <1>1. /\ row \in [Payments -> RowType]
        /\ trail \in [Payments -> Seq(TrailType)]
    BY DEF StoreTypeOK
  <1>2. [from |-> from, to |-> to, by |-> by] \in TrailType
    BY DEF TrailType
  <1>3. Append(trail[p], [from |-> from, to |-> to, by |-> by])
          \in Seq(TrailType)
    BY <1>1, <1>2
  <1>4. trail' \in [Payments -> Seq(TrailType)]
    BY <1>1, <1>3 DEF Write
  <1>5. row[p] \in RowType
    BY <1>1
  <1>6. row' \in [Payments -> RowType]
    BY <1>1, <1>5 DEF Write, RowType
  <1> QED BY <1>4, <1>6

(* Moving a job between its states keeps the queue well typed.             *)
LEMMA QueueTypes ==
    ASSUME QueueTypeOK, NEW id \in JobIds,
           \/ Add(id)
           \/ \E slot \in Slots \cup RetrySlots : Take(id, slot)
           \/ \E slot \in Slots \cup RetrySlots : Finish(id, slot)
           \/ Evict(id)
           \/ Stall(id)
    PROVE  QueueTypeOK'
  <1>1. job \in [JobIds -> JobType] /\ job[id] \in JobType
    BY DEF QueueTypeOK
  <1>2. ASSUME NEW state \in {"absent", "waiting", "active", "finished"},
               NEW owner \in Slots \cup RetrySlots \cup {None},
               NEW stalls \in 0..MaxStalled, Become(id, state, owner, stalls)
        PROVE  QueueTypeOK'
    BY <1>1, <1>2 DEF Become, QueueTypeOK, JobType
  <1>3. job[id].stalls \in 0..MaxStalled /\ 0 \in 0..MaxStalled
    BY <1>1, QueueAssumption DEF JobType
  <1>4. UNCHANGED job => QueueTypeOK'
    BY DEF QueueTypeOK
  <1>5. CASE Add(id)
    BY <1>2, <1>3, <1>4, <1>5 DEF Add
  <1>6. CASE \E slot \in Slots \cup RetrySlots : Take(id, slot)
    BY <1>2, <1>3, <1>6 DEF Take
  <1>7. CASE \E slot \in Slots \cup RetrySlots : Finish(id, slot)
    BY <1>2, <1>3, <1>4, <1>7 DEF Finish
  <1>8. CASE Evict(id)
    BY <1>2, <1>3, <1>8 DEF Evict
  <1>9. CASE Stall(id)
    <2>1. job[id].stalls < MaxStalled => job[id].stalls + 1 \in 0..MaxStalled
      BY <1>3, QueueAssumption
    <2> QED BY <1>2, <1>3, <1>9, <2>1 DEF Stall
  <1> QED BY <1>5, <1>6, <1>7, <1>8, <1>9

(* The lock holds the token of a slot, of a webhook request, or nothing.   *)
LEMMA LockTypes ==
    ASSUME LockTypeOK, NEW p \in Payments, NEW t \in Slots \cup Hooks,
           SetLock(p, t) \/ ReleaseLock(p, t) \/ LoseLock(p)
    PROVE  LockTypeOK'
  BY DEF LockTypeOK, SetLock, ReleaseLock, LoseLock

LEMMA FaultTypes ==
    ASSUME FaultsTypeOK, SpendFault \/ UNCHANGED faults
    PROVE  FaultsTypeOK'
  BY FaultsAssumption DEF FaultsTypeOK, SpendFault

(* A run's next local state: its payment stays, the rest is well typed.    *)
LEMMA LocalTypes ==
    ASSUME NEW w \in Slots, RunOK(run[w]), run[w].pc # "idle",
           NEW pc \in RunPC, NEW ver \in Nat, NEW attempt \in Nat,
           NEW result \in {"success", "pending", None} \cup GatewayErrorCode,
           pc = "record" => result # None,
           pc = "markFailed" => result \in GatewayErrorCode
    PROVE  RunOK(Local(w, pc, ver, result, attempt))
  BY DEF RunOK, Local, RunType

LEMMA EndTypes ==
    ASSUME NEW w \in Slots, RunOK(run[w]), run[w].pc # "idle",
           NEW pc \in RunPC \ {"record", "markFailed"}
    PROVE  RunOK(Ends(w, pc))
  BY LocalTypes DEF Ends

LEMMA ThrownTypes ==
    ASSUME NEW w \in Slots, RunOK(run[w]), run[w].pc # "idle"
    PROVE  RunOK(Thrown(w))
  <1>1. run[w].pc \in RunPC
    BY DEF RunOK, RunType
  <1>2. Handler(run[w].pc) \in RunPC \ {"record", "markFailed"}
    BY <1>1 DEF Handler, RunPC, InLock, InTriage
  <1> QED BY <1>2, EndTypes DEF Thrown

LEMMA GotoTypes ==
    ASSUME RunsOK, NEW w \in Slots, NEW next, RunOK(next), Goto(w, next)
    PROVE  RunsOK'
  BY DEF RunsOK, Goto, RunOK

(* Whether a call returns or throws, the run stays well typed.             *)
LEMMA ReturnTypes ==
    ASSUME RunsOK, FaultsTypeOK, NEW w \in Slots, run[w].pc # "idle",
           NEW next, RunOK(next), Returns(w, next) \/ Throws(w)
    PROVE  RunsOK' /\ FaultsTypeOK'
  <1>1. RunOK(Thrown(w))
    BY ThrownTypes DEF RunsOK
  <1>2. CASE Goto(w, next) /\ UNCHANGED faults
    BY <1>2, GotoTypes, FaultTypes
  <1>3. CASE Goto(w, Thrown(w)) /\ (SpendFault \/ UNCHANGED faults)
    BY <1>1, <1>3, GotoTypes, FaultTypes
  <1> QED BY <1>2, <1>3 DEF Returns, Throws
-----------------------------------------------------------------------------
(* The steps of the process worker.                                        *)

LEMMA StoreFrame ==
    ASSUME StoreTypeOK, UNCHANGED storeVars
    PROVE  StoreTypeOK'
  BY DEF StoreTypeOK, storeVars

(* A run's status change, committed or refused.                            *)
LEMMA TransitionTypes ==
    ASSUME StoreTypeOK, LockTypeOK, CallsOK, RunsOK, FaultsTypeOK,
           NEW w \in Slots, run[w].pc # "idle",
           NEW from \in PaymentStatus, NEW to \in PaymentStatus,
           NEW code \in GatewayErrorCode \cup {None},
           NEW next, RunOK(next), Transition(w, from, to, code, next)
    PROVE  StoreTypeOK' /\ LockTypeOK' /\ CallsOK' /\ RunsOK'
           /\ FaultsTypeOK'
  <1> DEFINE p == run[w].pay
  <1>1. p \in Payments
    BY DEF RunsOK, RunOK
  <1>2. LockTypeOK' /\ CallsOK'
    BY DEF Transition, LockTypeOK, CallsOK
  <1>3. RunsOK' /\ FaultsTypeOK'
    BY ReturnTypes DEF Transition
  <1>u. UNCHANGED <<responses, webhookEvent>>
    BY DEF Transition
  <1>s. ASSUME row' \in [Payments -> RowType],
               trail' \in [Payments -> Seq(TrailType)]
        PROVE  StoreTypeOK'
    <2>1. /\ responses \in [Payments -> SUBSET Nat]
          /\ webhookEvent \in
                [Events -> SUBSET {"PROCESSED", "REJECTED", "DUPLICATE"}]
      BY DEF StoreTypeOK
    <2> QED BY <1>s, <1>u, <2>1 DEF StoreTypeOK
  <1>4. CASE UNCHANGED <<row, trail>>
    <2>1. /\ row \in [Payments -> RowType]
          /\ trail \in [Payments -> Seq(TrailType)]
      BY DEF StoreTypeOK
    <2> QED BY <1>2, <1>3, <1>4, <1>s, <2>1
  <1>5. CASE TransitionState(p, from, to, code)
    <2>1. Write(p, from, to, "service", code)
      BY <1>5 DEF TransitionState
    <2>2. /\ row' \in [Payments -> RowType]
          /\ trail' \in [Payments -> Seq(TrailType)]
      BY <1>1, <2>1, WriteTypes
    <2> QED BY <1>2, <1>3, <1>s, <2>2
  <1> QED BY <1>2, <1>3, <1>4, <1>5 DEF Transition

(* What the steps of a run may disturb.                                    *)
WorkerView == /\ StoreTypeOK /\ QueueTypeOK /\ LockTypeOK /\ CallsOK
              /\ RunsOK /\ FaultsTypeOK

LEMMA WorkerTypes ==
    ASSUME WorkerView, NEW w \in Slots, WorkerStep(w) \/ CallFails(w)
    PROVE  WorkerView'
  <1> USE DEF WorkerView
  <1> DEFINE p == run[w].pay
  <1>r. RunOK(run[w]) /\ run[w] \in RunType
    BY DEF RunsOK, RunOK
  <1>p. run[w].pc # "idle" =>
          p \in Payments /\ row[p] \in RowType /\ ProcessJob(p) \in JobIds
    BY <1>r DEF RunOK, StoreTypeOK, JobIds, ProcessJobs
  <1>l. UNCHANGED lock => LockTypeOK'
    BY DEF LockTypeOK
  <1>c. UNCHANGED calls => CallsOK'
    BY DEF CallsOK
  <1>q. UNCHANGED job => QueueTypeOK'
    BY DEF QueueTypeOK
  <1>a. ASSUME NEW q \in Payments, TakeProcessJob(w, q)
        PROVE  WorkerView'
    <2>1. ProcessJob(q) \in JobIds
      BY DEF JobIds, ProcessJobs
    <2>2. QueueTypeOK'
      BY <1>a, <2>1, QueueTypes DEF TakeProcessJob
    <2>3. RunOK([pc |-> "acquire", pay |-> q, ver |-> 0, result |-> None,
                 attempt |-> 0])
      BY DEF RunOK, RunType, RunPC
    <2>4. RunsOK'
      BY <1>a, <2>3, GotoTypes DEF TakeProcessJob
    <2> QED BY <1>a, <1>l, <1>c, <2>2, <2>4, StoreFrame, FaultTypes
            DEF TakeProcessJob
  <1>b. CASE AcquireLock(w)
    <2>1. run[w].pc # "idle"
      BY <1>b DEF AcquireLock, At
    <2>2. RunOK(Ends(w, "fetch"))
      BY <1>r, <2>1, EndTypes DEF RunPC, InLock
    <2>3. RunsOK' /\ FaultsTypeOK'
      BY <1>b, <2>1, <2>2, ReturnTypes DEF AcquireLock
    <2>4. LockTypeOK'
      BY <1>b, <1>p, <1>l, <2>1, LockTypes DEF AcquireLock
    <2> QED BY <1>b, <1>q, <1>c, <2>3, <2>4, StoreFrame DEF AcquireLock
  <1>d. CASE FetchPayment(w)
    <2>1. run[w].pc # "idle"
      BY <1>d DEF FetchPayment, At
    <2>2. row[p].version \in Nat
      BY <1>p, <2>1 DEF RowType
    <2>3. RunOK(Local(w, "begin", row[p].version, None, 0))
      BY <1>r, <2>1, <2>2, LocalTypes DEF RunPC, InLock
    <2>4. RunOK(Ends(w, "abort")) /\ RunOK(Ends(w, "release"))
      BY <1>r, <2>1, EndTypes DEF RunPC, InLock
    <2>5. RunsOK'
      BY <1>d, <2>3, <2>4, GotoTypes DEF FetchPayment
    <2> QED BY <1>d, <1>l, <1>q, <1>c, <2>5, StoreFrame, FaultTypes
            DEF FetchPayment
  <1>e. CASE BeginProcessing(w)
    <2>1. run[w].pc # "idle"
      BY <1>e DEF BeginProcessing, At
    <2>2. run[w].ver \in Nat /\ run[w].ver + 1 \in Nat
      BY <1>r DEF RunType
    <2>3. RunOK(Local(w, "gateway", run[w].ver + 1, None, 0))
      BY <1>r, <2>1, <2>2, LocalTypes DEF RunPC, InLock
    <2> QED BY <1>e, <1>q, <2>1, <2>3, TransitionTypes
            DEF BeginProcessing, PaymentStatus
  <1>f. CASE GatewayAnswers(w)
    <2>1. run[w].pc # "idle"
      BY <1>f DEF GatewayAnswers, At
    <2>2. PICK answer \in Answers :
            /\ calls' = [calls EXCEPT ![p] =
                           Append(@, [attempt |-> run[w].ver,
                                      answer |-> answer])]
            /\ Goto(w, Local(w, "record", run[w].ver, answer, 0))
      BY <1>f DEF GatewayAnswers
    <2>3. answer \in ({"success", "pending"} \cup GatewayErrorCode) \ {None}
      BY GatewayAssumption DEF Answers, None, GatewayErrorCode,
         NonRetryableErrors, RetryableErrors
    <2>4. RunOK(Local(w, "record", run[w].ver, answer, 0))
      BY <1>r, <2>1, <2>3, LocalTypes DEF RunPC, InLock, RunType
    <2>5. RunsOK'
      BY <2>2, <2>4, GotoTypes
    <2>6. [attempt |-> run[w].ver, answer |-> answer] \in CallType
      BY <1>r DEF CallType, RunType
    <2>7. CallsOK'
      BY <1>p, <2>1, <2>2, <2>6 DEF CallsOK
    <2> QED BY <1>f, <1>l, <1>q, <2>5, <2>7, StoreFrame, FaultTypes
            DEF GatewayAnswers
  <1>g. CASE BreakerRejects(w)
    <2>1. run[w].pc # "idle"
      BY <1>g DEF BreakerRejects, At
    <2>2. RunOK(Local(w, "record", run[w].ver, "INTERNAL_ERROR", 0))
      BY <1>r, <2>1, LocalTypes DEF RunPC, InLock, RunType,
           GatewayErrorCode, RetryableErrors, None
    <2>3. RunsOK'
      BY <1>g, <2>2, GotoTypes DEF BreakerRejects
    <2> QED BY <1>g, <1>l, <1>c, <1>q, <2>3, StoreFrame, FaultTypes
            DEF BreakerRejects
  <1>h. CASE RecordResponse(w)
    <2>1. run[w].pc = "record"
      BY <1>h DEF RecordResponse, At
    <2>2. RunOK(Local(w, AfterRecord(run[w].result), run[w].ver,
                      run[w].result, 0))
      <3>1. AfterRecord(run[w].result) \in RunPC \ {"record"}
        BY DEF AfterRecord, RunPC, InLock
      <3>2. AfterRecord(run[w].result) = "markFailed" =>
              run[w].result \in GatewayErrorCode
        BY <1>r, <2>1 DEF AfterRecord, RunOK, RunType
      <3> QED BY <1>r, <2>1, <3>1, <3>2, LocalTypes DEF RunType
    <2>3. RunsOK' /\ FaultsTypeOK'
      BY <1>h, <2>1, <2>2, ReturnTypes DEF RecordResponse
    <2>4. StoreTypeOK'
      <3>1. run[w].ver \in Nat /\ responses[p] \in SUBSET Nat
        BY <1>r, <1>p, <2>1 DEF RunType, StoreTypeOK
      <3> QED BY <1>h, <1>p, <2>1, <3>1 DEF RecordResponse, StoreTypeOK
    <2> QED BY <1>h, <1>l, <1>c, <1>q, <2>3, <2>4 DEF RecordResponse
  <1>i. CASE MarkSuccess(w)
    <2>1. run[w].pc # "idle"
      BY <1>i DEF MarkSuccess, At
    <2>2. RunOK(Ends(w, "release"))
      BY <1>r, <2>1, EndTypes DEF RunPC, InLock
    <2> QED BY <1>i, <1>q, <2>1, <2>2, TransitionTypes
            DEF MarkSuccess, PaymentStatus
  <1>j. CASE MarkPending(w)
    <2>1. run[w].pc # "idle"
      BY <1>j DEF MarkPending, At
    <2>2. RunOK(Ends(w, "release"))
      BY <1>r, <2>1, EndTypes DEF RunPC, InLock
    <2>3. RunsOK' /\ FaultsTypeOK'
      BY <1>j, <2>1, <2>2, ReturnTypes DEF MarkPending
    <2> QED BY <1>j, <1>l, <1>c, <1>q, <2>3, StoreFrame DEF MarkPending
  <1>k. CASE MarkFailed(w)
    <2>1. run[w].pc = "markFailed" /\ run[w].result \in GatewayErrorCode
      BY <1>k, <1>r DEF MarkFailed, At, RunOK
    <2>2. RunOK(Local(w, "recheck", 0, run[w].result, 0))
      BY <1>r, <2>1, LocalTypes DEF RunPC, InLock
    <2> QED BY <1>k, <1>q, <2>1, <2>2, TransitionTypes
            DEF MarkFailed, PaymentStatus
  <1>m. CASE Recheck(w)
    <2>1. run[w].pc # "idle"
      BY <1>m DEF Recheck, At
    <2>2. RunOK(Ends(w, "release"))
      BY <1>r, <2>1, EndTypes DEF RunPC, InLock
    <2>3. row[p].version \in Nat
      BY <1>p, <2>1 DEF RowType
    <2>4. RunOK(Local(w, "giveUp", row[p].version, None, 0))
      BY <1>r, <2>1, <2>3, LocalTypes DEF RunPC, InLock
    <2>5. RunsOK'
      BY <1>m, <2>2, <2>4, GotoTypes DEF Recheck
    <2> QED BY <1>m, <1>l, <1>c, <1>q, <2>5, StoreFrame, FaultTypes
            DEF Recheck
  <1>n. CASE GiveUp(w)
    <2>1. run[w].pc # "idle"
      BY <1>n DEF GiveUp, At
    <2>2. RunOK(Ends(w, "release"))
      BY <1>r, <2>1, EndTypes DEF RunPC, InLock
    <2> QED BY <1>n, <1>q, <2>1, <2>2, TransitionTypes
            DEF GiveUp, PaymentStatus
  <1>o. CASE Release(w)
    <2>1. run[w].pc # "idle"
      BY <1>o DEF Release
    <2>2. RunOK(Ends(w, IF At(w, "abort") THEN "triage" ELSE "complete"))
      BY <1>r, <2>1, EndTypes DEF RunPC, InTriage
    <2>3. RunsOK' /\ FaultsTypeOK'
      BY <1>o, <2>1, <2>2, ReturnTypes DEF Release
    <2>4. LockTypeOK'
      BY <1>o, <1>p, <2>1, LockTypes DEF Release
    <2> QED BY <1>o, <1>c, <1>q, <2>3, <2>4, StoreFrame DEF Release
  <1>s. CASE Triage(w)
    <2>1. run[w].pc # "idle"
      BY <1>s DEF Triage, At
    <2>2. row[p].version \in Nat /\ row[p].retryCount \in Nat
      BY <1>p, <2>1 DEF RowType
    <2>3. /\ RunOK(Ends(w, "reject"))
          /\ RunOK(Local(w, "reread", 0, None, row[p].retryCount))
          /\ RunOK(Local(w, "exhaust", row[p].version, None, 0))
      BY <1>r, <2>1, <2>2, LocalTypes, EndTypes DEF RunPC, InTriage
    <2>4. RunsOK'
      BY <1>s, <2>3, GotoTypes DEF Triage
    <2> QED BY <1>s, <1>l, <1>c, <1>q, <2>4, StoreFrame, FaultTypes
            DEF Triage
  <1>t. CASE Exhaust(w)
    <2>1. run[w].pc # "idle"
      BY <1>t DEF Exhaust, At
    <2>2. RunOK(Ends(w, "reject"))
      BY <1>r, <2>1, EndTypes DEF RunPC
    <2> QED BY <1>t, <1>q, <2>1, <2>2, TransitionTypes
            DEF Exhaust, PaymentStatus
  <1>u. CASE Reread(w)
    <2>1. run[w].pc # "idle"
      BY <1>u DEF Reread, At
    <2>2. row[p].version \in Nat /\ run[w].attempt \in Nat
      BY <1>p, <1>r, <2>1 DEF RowType, RunType
    <2>3. /\ RunOK(Ends(w, "reject"))
          /\ RunOK(Local(w, "schedule", row[p].version, None,
                         run[w].attempt))
      BY <1>r, <2>1, <2>2, LocalTypes, EndTypes DEF RunPC, InTriage
    <2>4. RunsOK'
      BY <1>u, <2>3, GotoTypes DEF Reread
    <2> QED BY <1>u, <1>l, <1>c, <1>q, <2>4, StoreFrame, FaultTypes
            DEF Reread
  <1>v. CASE ScheduleRetry(w)
    <2>1. run[w].pc # "idle"
      BY <1>v DEF ScheduleRetry, At
    <2>2. RunOK(Local(w, "enqueue", 0, None, run[w].attempt))
      BY <1>r, <2>1, LocalTypes DEF RunPC, InTriage, RunType
    <2> QED BY <1>v, <1>q, <2>1, <2>2, TransitionTypes
            DEF ScheduleRetry, PaymentStatus
  <1>w. CASE EnqueueRetry(w)
    <2>1. run[w].pc # "idle"
      BY <1>w DEF EnqueueRetry, At
    <2>2. RunOK(Ends(w, "reject"))
      BY <1>r, <2>1, EndTypes DEF RunPC
    <2>3. RunsOK' /\ FaultsTypeOK'
      BY <1>w, <2>1, <2>2, ReturnTypes DEF EnqueueRetry
    <2>4. QueueTypeOK'
      BY <1>w, QueueTypes DEF EnqueueRetry, Add, Become, QueueTypeOK
    <2> QED BY <1>w, <1>l, <1>c, <2>3, <2>4, StoreFrame DEF EnqueueRetry
  <1>x. CASE FinishProcessJob(w)
    <2>1. run[w].pc # "idle"
      BY <1>x DEF FinishProcessJob, Settled
    <2>2. RunOK(Idle)
      BY DEF RunOK, RunType, RunPC, Idle
    <2>3. RunsOK'
      BY <1>x, <2>2, GotoTypes DEF FinishProcessJob
    <2>4. QueueTypeOK'
      BY <1>x, <1>p, <2>1, QueueTypes DEF FinishProcessJob
    <2> QED BY <1>x, <1>l, <1>c, <2>3, <2>4, StoreFrame, FaultTypes
            DEF FinishProcessJob
  <1>y. CASE CallFails(w)
    <2>1. run[w].pc # "idle"
      BY <1>y DEF CallFails, InLock, InTriage
    <2>2. RunOK(Thrown(w))
      BY <1>r, <2>1, ThrownTypes
    <2>3. RunsOK'
      BY <1>y, <2>2, GotoTypes DEF CallFails
    <2> QED BY <1>y, <1>l, <1>c, <1>q, <2>3, StoreFrame, FaultTypes
            DEF CallFails
  <1> QED BY <1>a, <1>b, <1>d, <1>e, <1>f, <1>g, <1>h, <1>i, <1>j, <1>k,
             <1>m, <1>n, <1>o, <1>s, <1>t, <1>u, <1>v, <1>w, <1>x, <1>y
          DEF WorkerStep
-----------------------------------------------------------------------------
(* The steps of the retry worker.                                          *)

LEMMA RetryMoveTypes ==
    ASSUME RetriesOK, NEW r \in RetrySlots, NEW next, RetryOK(next),
           RetryGoto(r, next)
    PROVE  RetriesOK'
  BY DEF RetriesOK, RetryGoto, RetryOK

LEMMA RetryLocalTypes ==
    ASSUME RetriesOK, NEW r \in RetrySlots, retrying[r].pc # "idle",
           NEW pc \in RetryPC, NEW ver \in Nat
    PROVE  RetryOK(RetryLocal(r, pc, ver))
  BY DEF RetriesOK, RetryOK, RetryLocal, RetryType

RetryView == /\ StoreTypeOK /\ QueueTypeOK /\ RetriesOK /\ FaultsTypeOK

LEMMA RetryTypes ==
    ASSUME RetryView, NEW r \in RetrySlots, RetryStep(r) \/ RetryCallFails(r)
    PROVE  RetryView'
  <1> USE DEF RetryView
  <1> DEFINE p == retrying[r].pay
             a == retrying[r].attempt
  <1>q. UNCHANGED job => QueueTypeOK'
    BY DEF QueueTypeOK
  <1>p. retrying[r].pc # "idle" =>
          /\ p \in Payments /\ row[p] \in RowType
          /\ ProcessJob(p) \in JobIds /\ RetryJob(p, a) \in JobIds
          /\ RetryOK(RetryLocal(r, "finish", 0))
    <2> HAVE retrying[r].pc # "idle"
    <2>1. p \in Payments /\ a \in 1..MaxRetries
      BY DEF RetriesOK, RetryOK
    <2>2. row[p] \in RowType
      BY <2>1 DEF StoreTypeOK
    <2>3. ProcessJob(p) \in JobIds /\ RetryJob(p, a) \in JobIds
      BY <2>1 DEF JobIds, ProcessJobs, RetryJobs
    <2>4. RetryOK(RetryLocal(r, "finish", 0))
      BY RetryLocalTypes DEF RetryPC
    <2> QED BY <2>1, <2>2, <2>3, <2>4
  <1>1. ASSUME NEW q \in Payments, NEW b \in 1..MaxRetries,
               TakeRetryJob(r, q, b)
        PROVE  RetryView'
    <2>1. RetryJob(q, b) \in JobIds
      BY DEF JobIds, RetryJobs
    <2>2. QueueTypeOK'
      BY <1>1, <2>1, QueueTypes DEF TakeRetryJob
    <2>3. RetryOK([pc |-> "read", pay |-> q, attempt |-> b, ver |-> 0])
      BY StoreAssumption DEF RetryOK, RetryType, RetryPC
    <2>4. RetriesOK'
      BY <1>1, <2>3, RetryMoveTypes DEF TakeRetryJob
    <2> QED BY <1>1, <2>2, <2>4, StoreFrame, FaultTypes DEF TakeRetryJob
  <1>2. CASE ReadForRetry(r)
    <2>1. retrying[r].pc # "idle" /\ row[p].version \in Nat
      BY <1>2, <1>p DEF ReadForRetry, RowType
    <2>2. RetryOK(RetryLocal(r, "requeue", row[p].version))
      BY <2>1, RetryLocalTypes DEF RetryPC
    <2>3. RetriesOK'
      BY <1>2, <1>p, <2>1, <2>2, RetryMoveTypes
      DEF ReadForRetry, RetryFinishes
    <2> QED BY <1>2, <1>q, <2>3, StoreFrame, FaultTypes DEF ReadForRetry
  <1>3. CASE Requeue(r)
    <2>1. retrying[r].pc # "idle"
      BY <1>3 DEF Requeue
    <2>2. RetryOK(RetryLocal(r, "enqueue", 0))
      BY <2>1, RetryLocalTypes DEF RetryPC
    <2>3. RetriesOK' /\ FaultsTypeOK'
      BY <1>3, <1>p, <2>1, <2>2, RetryMoveTypes, FaultTypes
      DEF Requeue, RetryReturns, RetryFinishes
    <2>4. /\ row' \in [Payments -> RowType]
          /\ trail' \in [Payments -> Seq(TrailType)]
      <3>1. CASE UNCHANGED <<row, trail>>
        BY <3>1 DEF StoreTypeOK
      <3>2. CASE Write(p, "RETRY_SCHEDULED", "PENDING", "service", None)
        BY <3>2, <1>p, <2>1, WriteTypes DEF PaymentStatus
      <3> QED BY <1>3, <3>1, <3>2 DEF Requeue, TransitionState
    <2>5. StoreTypeOK'
      BY <1>3, <2>4 DEF StoreTypeOK, Requeue
    <2> QED BY <1>3, <1>q, <2>3, <2>5 DEF Requeue
  <1>4. CASE EnqueueAgain(r)
    <2>1. retrying[r].pc # "idle"
      BY <1>4 DEF EnqueueAgain
    <2>2. RetriesOK'
      BY <1>4, <1>p, <2>1, RetryMoveTypes DEF EnqueueAgain, RetryFinishes
    <2>3. QueueTypeOK'
      BY <1>4, <1>p, <2>1, QueueTypes DEF EnqueueAgain
    <2> QED BY <1>4, <2>2, <2>3, StoreFrame, FaultTypes DEF EnqueueAgain
  <1>5. CASE FinishRetryJob(r)
    <2>1. retrying[r].pc # "idle"
      BY <1>5 DEF FinishRetryJob
    <2>2. RetryOK(RetryIdle)
      BY DEF RetryOK, RetryType, RetryPC, RetryIdle
    <2>3. RetriesOK'
      BY <1>5, <2>2, RetryMoveTypes DEF FinishRetryJob
    <2>4. QueueTypeOK'
      BY <1>5, <1>p, <2>1, QueueTypes DEF FinishRetryJob
    <2> QED BY <1>5, <2>3, <2>4, StoreFrame, FaultTypes DEF FinishRetryJob
  <1>6. CASE RetryCallFails(r)
    <2>1. retrying[r].pc # "idle"
      BY <1>6 DEF RetryCallFails
    <2>2. RetriesOK'
      BY <1>6, <1>p, <2>1, RetryMoveTypes DEF RetryCallFails, RetryFinishes
    <2> QED BY <1>6, <1>q, <2>2, StoreFrame, FaultTypes DEF RetryCallFails
  <1> QED BY <1>1, <1>2, <1>3, <1>4, <1>5, <1>6 DEF RetryStep
-----------------------------------------------------------------------------
(* The steps of a webhook request.                                         *)

LEMMA HookMoveTypes ==
    ASSUME HooksOK, NEW h \in Hooks, NEW pc \in HookPC,
           hook[h].pc # "idle", HookGoto(h, pc)
    PROVE  HooksOK'
  <1>1. hook \in [Hooks -> HookType] /\ HookOK(hook[h])
    BY DEF HooksOK
  <1>2. PICK next : /\ hook' = [hook EXCEPT ![h] = next]
                    /\ next = IF pc = "idle" THEN HookIdle
                              ELSE [pc |-> pc, event |-> hook[h].event,
                                    ver |-> 0, from |-> None]
    BY DEF HookGoto
  <1>3. HookOK(HookIdle)
    BY DEF HookOK, HookType, HookIdle, HookPC
  <1>4. HookOK([pc |-> pc, event |-> hook[h].event, ver |-> 0,
                from |-> None])
    BY <1>1 DEF HookOK, HookType
  <1>5. HookOK(next)
    BY <1>2, <1>3, <1>4
  <1> QED BY <1>1, <1>2, <1>5 DEF HooksOK, HookOK

LEMMA HookReturnTypes ==
    ASSUME HooksOK, FaultsTypeOK, NEW h \in Hooks, hook[h].pc # "idle",
           NEW pc \in HookPC, HookReturns(h, pc) \/ HookThrows(h)
    PROVE  HooksOK' /\ FaultsTypeOK'
  <1>1. HookHandler(hook[h].pc) \in HookPC
    BY DEF HookHandler, HookPC, HookInLock
  <1> QED BY <1>1, HookMoveTypes, FaultTypes DEF HookReturns, HookThrows

HookView == /\ StoreTypeOK /\ LockTypeOK /\ HooksOK /\ FaultsTypeOK
LEMMA RecordEventTypes ==
    ASSUME StoreTypeOK, NEW e \in Events,
           NEW status \in {"PROCESSED", "REJECTED", "DUPLICATE"},
           RecordEvent(e, status)
    PROVE  webhookEvent' \in
               [Events -> SUBSET {"PROCESSED", "REJECTED", "DUPLICATE"}]
  BY DEF StoreTypeOK, RecordEvent

LEMMA HookTypes ==
    ASSUME HookView, NEW h \in Hooks,
           \/ \E e \in Events : Deliver(h, e)
           \/ HookStep(h)
           \/ HookCallFails(h)
    PROVE  HookView'
  <1> USE DEF HookView
  <1> DEFINE e == hook[h].event
             p == Payload[e].pay
  <1>l. UNCHANGED lock => LockTypeOK'
    BY DEF LockTypeOK
  <1>p. hook[h].pc # "idle" =>
          /\ e \in Events /\ p \in Payments
          /\ row[p] \in RowType
          /\ Payload[e].code \in GatewayErrorCode \cup {None}
    BY PayloadAssumption DEF HooksOK, HookOK, StoreTypeOK
  <1>pc. /\ HookInLock \subseteq HookPC
         /\ {"idle", "duplicate", "acquire", "fetch", "reject", "release",
             "abort"} \subseteq HookPC
    BY DEF HookPC, HookInLock
  <1>1. ASSUME NEW f \in Events, Deliver(h, f)
        PROVE  HookView'
    <2>1. HookOK([pc |-> "dedup", event |-> f, ver |-> 0, from |-> None])
      BY DEF HookOK, HookType, HookPC
    <2>2. HooksOK'
      BY <1>1, <2>1 DEF Deliver, HooksOK, HookOK
    <2> QED BY <1>1, <1>l, <2>2, StoreFrame, FaultTypes DEF Deliver
  <1>2. CASE Dedup(h)
    <2>1. HooksOK'
      BY <1>2, <1>pc, HookMoveTypes DEF Dedup, HookAt
    <2> QED BY <1>2, <1>l, <2>1, StoreFrame, FaultTypes DEF Dedup
  <1>3. CASE RecordDuplicate(h)
    <2>1. hook[h].pc # "idle"
      BY <1>3 DEF RecordDuplicate, HookAt
    <2>2. HooksOK'
      BY <1>3, <1>pc, <2>1, HookMoveTypes DEF RecordDuplicate
    <2>3. StoreTypeOK'
      BY <1>3, <1>p, <2>1, RecordEventTypes DEF RecordDuplicate, StoreTypeOK
    <2> QED BY <1>3, <1>l, <2>2, <2>3, FaultTypes DEF RecordDuplicate
  <1>4. CASE AcquireForHook(h)
    <2>1. hook[h].pc # "idle"
      BY <1>4 DEF AcquireForHook, HookAt
    <2>2. HooksOK' /\ FaultsTypeOK'
      BY <1>4, <1>pc, <2>1, HookReturnTypes DEF AcquireForHook
    <2>3. LockTypeOK'
      BY <1>4, <1>p, <1>l, <2>1, LockTypes DEF AcquireForHook
    <2> QED BY <1>4, <2>2, <2>3, StoreFrame DEF AcquireForHook
  <1>5. CASE FetchForHook(h)
    <2>1. hook[h].pc # "idle"
      BY <1>5 DEF FetchForHook, HookAt
    <2>2. CASE HookGoto(h, "reject")
      <3>1. HooksOK'
        BY <1>pc, <2>1, <2>2, HookMoveTypes
      <3> QED BY <1>5, <1>l, <3>1, StoreFrame, FaultTypes DEF FetchForHook
    <2>3. CASE ~HookGoto(h, "reject")
      <3>1. /\ Accepts(row[p].status, TargetStatus(e))
            /\ hook' = [hook EXCEPT ![h] =
                          [pc |-> "apply", event |-> e,
                           ver |-> row[p].version, from |-> row[p].status]]
        BY <1>5, <2>3 DEF FetchForHook
      <3>2. row[p].status \in PaymentStatus /\ row[p].version \in Nat
        BY <1>p, <2>1, <3>1 DEF Accepts, RowType
      <3>3. HookOK([pc |-> "apply", event |-> e, ver |-> row[p].version,
                    from |-> row[p].status])
        BY <1>p, <2>1, <3>2 DEF HookOK, HookType, HookPC, HookInLock
      <3>4. HooksOK'
        BY <3>1, <3>3 DEF HooksOK, HookOK
      <3> QED BY <1>5, <1>l, <3>4, StoreFrame, FaultTypes DEF FetchForHook
    <2> QED BY <2>2, <2>3
  <1>6. CASE RejectEvent(h)
    <2>1. hook[h].pc # "idle"
      BY <1>6 DEF RejectEvent, HookAt
    <2>2. HooksOK' /\ FaultsTypeOK'
      BY <1>6, <1>pc, <2>1, HookReturnTypes DEF RejectEvent
    <2>3. webhookEvent' \in
            [Events -> SUBSET {"PROCESSED", "REJECTED", "DUPLICATE"}]
      BY <1>6, <1>p, <2>1, RecordEventTypes DEF RejectEvent, StoreTypeOK
    <2>4. StoreTypeOK'
      BY <1>6, <2>3 DEF RejectEvent, StoreTypeOK
    <2> QED BY <1>6, <1>l, <2>2, <2>4 DEF RejectEvent
  <1>7. CASE ApplyEvent(h)
    <2>1. hook[h].pc # "idle"
      BY <1>7 DEF ApplyEvent, HookAt
    <2>2. HooksOK' /\ FaultsTypeOK'
      BY <1>7, <1>pc, <2>1, HookReturnTypes DEF ApplyEvent
    <2>3. CASE UNCHANGED <<row, trail, webhookEvent>>
      <3>1. StoreTypeOK'
        BY <1>7, <2>3 DEF StoreTypeOK, ApplyEvent
      <3> QED BY <1>7, <1>l, <2>2, <3>1 DEF ApplyEvent
    <2>4. CASE ~UNCHANGED <<row, trail, webhookEvent>>
      <3>1. /\ Write(p, hook[h].from, TargetStatus(e), e, Payload[e].code)
            /\ RecordEvent(e, "PROCESSED")
        BY <1>7, <2>4 DEF ApplyEvent
      <3>2. /\ hook[h].from \in PaymentStatus \cup {None}
            /\ TargetStatus(e) \in PaymentStatus
        BY DEF HooksOK, HookType, TargetStatus, PaymentStatus
      <3>3. /\ row' \in [Payments -> RowType]
            /\ trail' \in [Payments -> Seq(TrailType)]
        BY <1>p, <2>1, <3>1, <3>2, WriteTypes
      <3>4. webhookEvent' \in
              [Events -> SUBSET {"PROCESSED", "REJECTED", "DUPLICATE"}]
        BY <1>p, <2>1, <3>1, RecordEventTypes
      <3>5. StoreTypeOK'
        BY <1>7, <3>3, <3>4 DEF StoreTypeOK, ApplyEvent
      <3> QED BY <1>7, <1>l, <2>2, <3>5 DEF ApplyEvent
    <2> QED BY <2>3, <2>4
  <1>8. CASE ReleaseHook(h)
    <2>1. hook[h].pc # "idle"
      BY <1>8 DEF ReleaseHook, HookAt
    <2>2. HooksOK' /\ FaultsTypeOK'
      BY <1>8, <1>pc, <2>1, HookReturnTypes DEF ReleaseHook
    <2>3. LockTypeOK'
      BY <1>8, <1>p, <2>1, LockTypes DEF ReleaseHook
    <2> QED BY <1>8, <2>2, <2>3, StoreFrame DEF ReleaseHook
  <1>9. CASE HookCallFails(h)
    <2>1. hook[h].pc # "idle"
      BY <1>9 DEF HookCallFails, HookAt
    <2>2. HookHandler(hook[h].pc) \in HookPC
      BY <1>pc DEF HookHandler
    <2>3. HooksOK'
      BY <1>9, <2>1, <2>2, HookMoveTypes DEF HookCallFails
    <2> QED BY <1>9, <1>l, <2>3, StoreFrame, FaultTypes DEF HookCallFails
  <1> QED BY <1>1, <1>2, <1>3, <1>4, <1>5, <1>6, <1>7, <1>8, <1>9
          DEF HookStep
-----------------------------------------------------------------------------
(* The steps of the API and of the environment, and the theorem.           *)

ApiView == /\ StoreTypeOK /\ QueueTypeOK /\ ApiTypeOK /\ FaultsTypeOK

LEMMA ApiTypes ==
    ASSUME ApiView, NEW p \in Payments, ApiStep(p)
    PROVE  ApiView'
  <1> USE DEF ApiView
  <1>q. UNCHANGED job => QueueTypeOK'
    BY DEF QueueTypeOK
  <1>p. row[p] \in RowType /\ row[p].version \in Nat
    BY DEF StoreTypeOK, RowType
  <1>1. CASE CreatePayment(p)
    <2>1. [status |-> "PENDING", version |-> 2, retryCount |-> 0,
           errorCode |-> None] \in RowType
      BY DEF RowType, PaymentStatus
    <2>2. <<[from |-> None, to |-> "CREATED", by |-> "service"],
            [from |-> "CREATED", to |-> "PENDING", by |-> "service"]>>
            \in Seq(TrailType)
      BY DEF TrailType, PaymentStatus
    <2>3. StoreTypeOK'
      BY <1>1, <2>1, <2>2 DEF StoreTypeOK, CreatePayment, InsertPayment
    <2>4. ApiTypeOK'
      BY <1>1 DEF ApiTypeOK, CreatePayment
    <2> QED BY <1>1, <1>q, <2>3, <2>4, FaultTypes DEF CreatePayment
  <1>2. CASE EnqueuePayment(p)
    <2>1. ProcessJob(p) \in JobIds
      BY DEF JobIds, ProcessJobs
    <2>2. QueueTypeOK' /\ FaultsTypeOK'
      BY <1>2, <1>q, <2>1, QueueTypes, FaultTypes DEF EnqueuePayment
    <2>3. ApiTypeOK'
      BY <1>2 DEF ApiTypeOK, EnqueuePayment
    <2> QED BY <1>2, <2>2, <2>3, StoreFrame DEF EnqueuePayment
  <1>3. CASE ReadForCancel(p)
    <2>1. ApiTypeOK'
      BY <1>3, <1>p DEF ApiTypeOK, ReadForCancel
    <2> QED BY <1>3, <1>q, <2>1, StoreFrame, FaultTypes DEF ReadForCancel
  <1>4. CASE CancelPayment(p)
    <2>1. ApiTypeOK'
      BY <1>4 DEF ApiTypeOK, CancelPayment
    <2>2. /\ row' \in [Payments -> RowType]
          /\ trail' \in [Payments -> Seq(TrailType)]
      <3>1. CASE UNCHANGED <<row, trail>>
        BY <3>1 DEF StoreTypeOK
      <3>2. CASE Write(p, "PENDING", "CANCELLED", "service", None)
        BY <3>2, WriteTypes DEF PaymentStatus
      <3> QED BY <1>4, <3>1, <3>2 DEF CancelPayment, TransitionState
    <2>3. StoreTypeOK'
      BY <1>4, <2>2 DEF StoreTypeOK, CancelPayment
    <2> QED BY <1>4, <1>q, <2>1, <2>3, FaultTypes DEF CancelPayment
  <1> QED BY <1>1, <1>2, <1>3, <1>4 DEF ApiStep

LEMMA CrashTypes ==
    ASSUME TypeInv, NEW dead \in SUBSET Tasks, NEW clients \in SUBSET Payments,
           Crash(dead, clients)
    PROVE  TypeInv'
  <1> USE DEF TypeInv
  <1>1. RunsOK'
    <2>1. RunOK(Idle)
      BY DEF RunOK, RunType, RunPC, Idle
    <2> QED BY <2>1 DEF RunsOK, RunOK, Crash
  <1>2. RetriesOK'
    <2>1. RetryOK(RetryIdle)
      BY DEF RetryOK, RetryType, RetryPC, RetryIdle
    <2> QED BY <2>1 DEF RetriesOK, RetryOK, Crash
  <1>3. HooksOK'
    <2>1. HookOK(HookIdle)
      BY DEF HookOK, HookType, HookPC, HookIdle
    <2> QED BY <2>1 DEF HooksOK, HookOK, Crash
  <1>4. ApiTypeOK'
    BY DEF ApiTypeOK, Crash
  <1>5. StoreTypeOK' /\ FaultsTypeOK'
    BY StoreFrame, FaultTypes DEF Crash
  <1>6. QueueTypeOK' /\ LockTypeOK' /\ CallsOK'
    BY DEF Crash, QueueTypeOK, LockTypeOK, CallsOK
  <1> QED BY <1>1, <1>2, <1>3, <1>4, <1>5, <1>6

LEMMA InitTypes == Init => TypeInv
  <1> SUFFICES ASSUME Init PROVE TypeInv
    OBVIOUS
  <1>1. StoreTypeOK
    BY DEF Init, StoreInit, StoreTypeOK, Absent, RowType
  <1>2. QueueTypeOK /\ LockTypeOK /\ FaultsTypeOK /\ ApiTypeOK
    BY QueueAssumption, FaultsAssumption
    DEF Init, QueueInit, QueueTypeOK, JobType, NoJob, LockInit, LockTypeOK,
        FaultsInit, FaultsTypeOK, ApiInit, ApiTypeOK
  <1>3. CallsOK /\ RunsOK
    BY DEF Init, WorkerInit, CallsOK, RunsOK, RunOK, RunType, RunPC, Idle
  <1>4. RetriesOK
    BY DEF Init, RetryInit, RetriesOK, RetryOK, RetryType, RetryPC, RetryIdle
  <1>5. HooksOK
    BY DEF Init, HookInit, HooksOK, HookOK, HookType, HookPC, HookIdle
  <1> QED BY <1>1, <1>2, <1>3, <1>4, <1>5 DEF TypeInv

LEMMA NextTypes == TypeInv /\ [Next]_vars => TypeInv'
  <1> SUFFICES ASSUME TypeInv, [Next]_vars PROVE TypeInv'
    OBVIOUS
  <1> USE DEF TypeInv
  <1>f. /\ UNCHANGED retrying => RetriesOK'
        /\ UNCHANGED hook => HooksOK'
        /\ UNCHANGED <<creating, cancelling>> => ApiTypeOK'
        /\ UNCHANGED lock => LockTypeOK'
        /\ UNCHANGED job => QueueTypeOK'
        /\ UNCHANGED faults => FaultsTypeOK'
        /\ UNCHANGED <<run, calls>> => RunsOK' /\ CallsOK'
    BY DEF RetriesOK, HooksOK, ApiTypeOK, LockTypeOK, QueueTypeOK, RunsOK,
           CallsOK, FaultsTypeOK
  <1>1. ASSUME NEW p \in Payments, Api(p) PROVE TypeInv'
    BY <1>1, <1>f, ApiTypes DEF Api, ApiView, workerVars
  <1>2. ASSUME NEW w \in Slots, Worker(w) PROVE TypeInv'
    BY <1>2, <1>f, WorkerTypes DEF Worker, WorkerView, apiVars
  <1>3. ASSUME NEW r \in RetrySlots, Retry(r) PROVE TypeInv'
    BY <1>3, <1>f, RetryTypes DEF Retry, RetryView, apiVars, workerVars
  <1>4. ASSUME NEW h \in Hooks, Webhook(h) PROVE TypeInv'
    BY <1>4, <1>f, HookTypes DEF Webhook, HookView, apiVars, workerVars
  <1>5. ASSUME NEW h \in Hooks, NEW e \in Events, Send(h, e) PROVE TypeInv'
    BY <1>5, <1>f, HookTypes DEF Send, HookView, apiVars, workerVars
  <1>6. ASSUME NEW p \in Payments, ExpireLock(p) PROVE TypeInv'
    <2>1. LockTypeOK'
      BY <1>6 DEF ExpireLock, LoseLock, LockTypeOK
    <2> QED BY <1>6, <1>f, <2>1, StoreFrame
            DEF ExpireLock, apiVars, workerVars
  <1>7. ASSUME NEW id \in JobIds, RedeliverJob(id) \/ EvictJob(id)
        PROVE  TypeInv'
    <2>1. QueueTypeOK'
      BY <1>7, QueueTypes DEF RedeliverJob, EvictJob
    <2> QED BY <1>7, <1>f, <2>1, StoreFrame
            DEF RedeliverJob, EvictJob, apiVars, workerVars
  <1>8. ASSUME NEW dead \in SUBSET Tasks, NEW clients \in SUBSET Payments,
               Crash(dead, clients)
        PROVE  TypeInv'
    BY <1>8, CrashTypes
  <1>9. CASE UNCHANGED vars
    BY <1>9, <1>f, StoreFrame DEF vars, apiVars, workerVars
  <1> QED BY <1>1, <1>2, <1>3, <1>4, <1>5, <1>6, <1>7, <1>8, <1>9 DEF Next

(* The inductive invariant of PaymentSystem that types every variable.     *)
THEOREM TypesInvariant == Spec => []TypeInv
  BY InitTypes, NextTypes, PTL DEF Spec

(* Every variable keeps its type, for any set of payments, events, workers *)
(* and webhook requests, any budget of retries and failures.               *)
THEOREM TypeCorrect == Spec => []TypeOK
  BY TypesInvariant, TypeInvImplies, PTL
=============================================================================
