------------------------ MODULE PaymentSystemVersions ------------------------
(***************************************************************************)
(* What a version is worth.  A writer is guarded by a version only, so it  *)
(* may rely on the status it once saw only as far as a version determines  *)
(* a status.  The module first summarises what any step of PaymentSystem   *)
(* does to one payment and to one task (RowMoves, RunMoves, RetryMoves,    *)
(* HookMoves, CancelMoves); KnowInv, and the invariants of the modules     *)
(* that extend this one, are proved from the summaries.                    *)
(***************************************************************************)
EXTENDS PaymentSystemTypes

Kept(p) == row'[p] = row[p] /\ trail'[p] = trail[p]

Born(p) ==
    /\ row[p] = Absent
    /\ row'[p].status = "PENDING"
    /\ row'[p].version = 2 /\ row'[p].retryCount = 0
    /\ trail'[p] = <<[from |-> None, to |-> "CREATED", by |-> "service"],
                     [from |-> "CREATED", to |-> "PENDING",
                      by |-> "service"]>>

Moved(p, from, to, by) ==
    /\ row'[p].status = to
    /\ row'[p].version = row[p].version + 1
    /\ row'[p].retryCount = row[p].retryCount
                              + (IF to = "RETRY_SCHEDULED" THEN 1 ELSE 0)
    /\ trail'[p] = Append(trail[p], [from |-> from, to |-> to, by |-> by])

(* Who updates p, and what the update claims; a run that does goes on.     *)
RunUpdates ==
    {<<"begin", "PENDING", "PROCESSING">>,
     <<"markSuccess", "PROCESSING", "SUCCESS">>,
     <<"markFailed", "PROCESSING", "FAILED">>,
     <<"giveUp", "FAILED", "PERMANENTLY_FAILED">>,
     <<"exhaust", "FAILED", "PERMANENTLY_FAILED">>,
     <<"schedule", "FAILED", "RETRY_SCHEDULED">>}

RunUpdate(w, p, from, to, by) ==
    /\ run[w].pay = p /\ VersionMatches(p, run[w].ver)
    /\ <<run[w].pc, from, to>> \in RunUpdates /\ by = "service"
    /\ run'[w].pc # run[w].pc

RetryUpdate(r, p, from, to, by) ==
    /\ retrying[r].pc = "requeue" /\ retrying[r].pay = p
    /\ VersionMatches(p, retrying[r].ver)
    /\ from = "RETRY_SCHEDULED" /\ to = "PENDING" /\ by = "service"

CancelUpdate(p, from, to, by) ==
    /\ cancelling[p] # 0 /\ VersionMatches(p, cancelling[p])
    /\ from = "PENDING" /\ to = "CANCELLED" /\ by = "service"

HookUpdate(h, p, from, to, by) ==
    /\ hook[h].pc = "apply" /\ by = hook[h].event /\ by \in Events
    /\ Payload[by].pay = p /\ VersionMatches(p, hook[h].ver)
    /\ from = hook[h].from /\ to = TargetStatus(by)

Update(p, from, to, by) ==
    \/ \E w \in Slots : RunUpdate(w, p, from, to, by)
    \/ \E r \in RetrySlots : RetryUpdate(r, p, from, to, by)
    \/ CancelUpdate(p, from, to, by)
    \/ \E h \in Hooks : HookUpdate(h, p, from, to, by)

RowMove(p) ==
    \/ Kept(p)
    \/ Born(p)
    \/ \E from, to, by : Moved(p, from, to, by) /\ Update(p, from, to, by)
-----------------------------------------------------------------------------
LEMMA KeptRows ==
    ASSUME UNCHANGED <<row, trail>>
    PROVE  \A p \in Payments : Kept(p) /\ RowMove(p)
  BY DEF Kept, RowMove

LEMMA WriteMoves ==
    ASSUME TypeInv, NEW p \in Payments, NEW from, NEW to, NEW by, NEW code,
           Write(p, from, to, by, code)
    PROVE  /\ Moved(p, from, to, by)
           /\ \A q \in Payments : q # p => Kept(q)
  <1>1. row \in [Payments -> RowType] /\ trail \in [Payments -> Seq(TrailType)]
    BY DEF TypeInv, StoreTypeOK
  <1>2. row[p].retryCount \in Nat
    BY <1>1 DEF RowType
  <1> QED BY <1>1, <1>2 DEF Write, Moved, Kept

(* A write somebody may make is a move of its row.                         *)
LEMMA UpdateMoves ==
    ASSUME TypeInv, NEW p \in Payments, NEW from, NEW to, NEW by, NEW code,
           Write(p, from, to, by, code), Update(p, from, to, by)
    PROVE  \A q \in Payments : RowMove(q)
  BY WriteMoves DEF RowMove

LEMMA TransitionMoves ==
    ASSUME TypeInv, NEW w \in Slots, run[w].pc # "idle",
           NEW from, NEW to, NEW code, NEW next,
           <<run[w].pc, from, to>> \in RunUpdates, next.pc # run[w].pc,
           Transition(w, from, to, code, next)
    PROVE  \A q \in Payments : RowMove(q)
  <1>1. run[w].pay \in Payments
    BY DEF TypeInv, RunsOK, RunOK
  <1>t. Thrown(w).pc # run[w].pc
    BY DEF RunUpdates, Thrown, Ends, Local, Handler, InLock
  <1>2. CASE CanTransition(run[w].pay, from, to, run[w].ver)
    <2>r. run'[w].pc # run[w].pc
      <3>1. PICK there : Goto(w, there) /\ there.pc # run[w].pc
        BY <1>2, <1>t DEF Transition, Returns
      <3> QED BY <3>1 DEF Goto, TypeInv, RunsOK
    <2>1. Update(run[w].pay, from, to, "service")
      BY <1>2, <2>r DEF Update, RunUpdate, CanTransition
    <2>2. Write(run[w].pay, from, to, "service", code)
      BY <1>2 DEF Transition, TransitionState
    <2> QED BY <1>1, <2>1, <2>2, UpdateMoves
  <1>3. CASE ~CanTransition(run[w].pay, from, to, run[w].ver)
    BY <1>3, KeptRows DEF Transition
  <1> QED BY <1>2, <1>3

(* What a step does to the row and the trail of a payment.                 *)
LEMMA RowMoves ==
    ASSUME TypeInv, [Next]_vars
    PROVE  \A p \in Payments : RowMove(p)
  <1>s. UNCHANGED storeVars => \A p \in Payments : RowMove(p)
    BY KeptRows DEF storeVars
  <1>1. ASSUME NEW q \in Payments, Api(q)
        PROVE  \A p \in Payments : RowMove(p)
    <2>1. CASE CreatePayment(q)
      <3>1. row \in [Payments -> RowType]
            /\ trail \in [Payments -> Seq(TrailType)]
        BY DEF TypeInv, StoreTypeOK
      <3>2. Born(q) /\ \A p \in Payments : p # q => Kept(p)
        BY <2>1, <3>1 DEF CreatePayment, InsertPayment, Born, Kept
      <3> QED BY <3>2 DEF RowMove
    <2>2. CASE CancelPayment(q)
      <3>1. CASE CanTransition(q, "PENDING", "CANCELLED", cancelling[q])
        <4>1. Update(q, "PENDING", "CANCELLED", "service")
          BY <2>2, <3>1 DEF CancelPayment, CanTransition, Update, CancelUpdate
        <4>2. Write(q, "PENDING", "CANCELLED", "service", None)
          BY <2>2, <3>1 DEF CancelPayment, TransitionState
        <4> QED BY <4>1, <4>2, UpdateMoves
      <3>2. CASE ~CanTransition(q, "PENDING", "CANCELLED", cancelling[q])
        BY <2>2, <3>2, KeptRows DEF CancelPayment
      <3> QED BY <3>1, <3>2
    <2> QED BY <1>1, <1>s, <2>1, <2>2
            DEF Api, ApiStep, EnqueuePayment, ReadForCancel
  <1>2. ASSUME NEW w \in Slots, Worker(w)
        PROVE  \A p \in Payments : RowMove(p)
    <2>1. CASE \/ BeginProcessing(w) \/ MarkSuccess(w) \/ MarkFailed(w)
               \/ GiveUp(w) \/ Exhaust(w) \/ ScheduleRetry(w)
      <3>1. PICK from, to, code, next :
              /\ <<run[w].pc, from, to>> \in RunUpdates
              /\ next.pc # run[w].pc /\ run[w].pc # "idle"
              /\ Transition(w, from, to, code, next)
        BY <2>1
        DEF BeginProcessing, MarkSuccess, MarkFailed, GiveUp, Exhaust,
            ScheduleRetry, At, RunUpdates, Ends, Local
      <3> QED BY <3>1, TransitionMoves
    <2>2. CASE RecordResponse(w)
      BY <2>2, KeptRows DEF RecordResponse
    <2>3. CASE \/ \E p \in Payments : TakeProcessJob(w, p)
               \/ AcquireLock(w) \/ FetchPayment(w) \/ GatewayAnswers(w)
               \/ BreakerRejects(w) \/ MarkPending(w) \/ Recheck(w)
               \/ Release(w) \/ Triage(w) \/ Reread(w) \/ EnqueueRetry(w)
               \/ FinishProcessJob(w) \/ CallFails(w)
      BY <2>3, <1>s
      DEF TakeProcessJob, AcquireLock, FetchPayment, GatewayAnswers,
          BreakerRejects, MarkPending, Recheck, Release, Triage, Reread,
          EnqueueRetry, FinishProcessJob, CallFails
    <2> QED BY <1>2, <2>1, <2>2, <2>3 DEF Worker, WorkerStep
  <1>3. ASSUME NEW r \in RetrySlots, Retry(r)
        PROVE  \A p \in Payments : RowMove(p)
    <2>1. CASE Requeue(r)
      <3> DEFINE p == retrying[r].pay
      <3>1. p \in Payments
        BY <2>1 DEF Requeue, TypeInv, RetriesOK, RetryOK
      <3>2. CASE VersionMatches(p, retrying[r].ver)
        <4>1. Update(p, "RETRY_SCHEDULED", "PENDING", "service")
          BY <2>1, <3>2 DEF Requeue, Update, RetryUpdate
        <4>2. Write(p, "RETRY_SCHEDULED", "PENDING", "service", None)
          BY <2>1, <3>2 DEF Requeue, TransitionState
        <4> QED BY <3>1, <4>1, <4>2, UpdateMoves
      <3>3. CASE ~VersionMatches(p, retrying[r].ver)
        BY <2>1, <3>3, KeptRows DEF Requeue
      <3> QED BY <3>2, <3>3
    <2> QED BY <1>3, <1>s, <2>1
            DEF Retry, RetryStep, RetryCallFails, TakeRetryJob,
                ReadForRetry, EnqueueAgain, FinishRetryJob
  <1>4. ASSUME NEW h \in Hooks, Webhook(h)
        PROVE  \A p \in Payments : RowMove(p)
    <2>1. CASE ApplyEvent(h)
      <3> DEFINE e == hook[h].event
                 p == Payload[e].pay
      <3>1. e \in Events /\ p \in Payments
        BY <2>1, PayloadAssumption
        DEF ApplyEvent, HookAt, TypeInv, HooksOK, HookOK
      <3>2. CASE VersionMatches(p, hook[h].ver) /\ CanRecord(e)
        <4>1. Update(p, hook[h].from, TargetStatus(e), e)
          BY <2>1, <3>1, <3>2 DEF ApplyEvent, HookAt, Update, HookUpdate
        <4>2. Write(p, hook[h].from, TargetStatus(e), e, Payload[e].code)
          BY <2>1, <3>2 DEF ApplyEvent
        <4> QED BY <3>1, <4>1, <4>2, UpdateMoves
      <3>3. CASE ~(VersionMatches(p, hook[h].ver) /\ CanRecord(e))
        BY <2>1, <3>3, KeptRows DEF ApplyEvent
      <3> QED BY <3>2, <3>3
    <2>2. CASE RecordDuplicate(h) \/ RejectEvent(h)
      BY <2>2, KeptRows DEF RecordDuplicate, RejectEvent
    <2> QED BY <1>4, <1>s, <2>1, <2>2
            DEF Webhook, HookStep, HookCallFails, Dedup, AcquireForHook,
                FetchForHook, ReleaseHook
  <1>5. CASE \/ \E h \in Hooks, e \in Events : Send(h, e)
             \/ \E p \in Payments : ExpireLock(p)
             \/ \E id \in JobIds : RedeliverJob(id) \/ EvictJob(id)
             \/ \E dead \in SUBSET Tasks, clients \in SUBSET Payments :
                   Crash(dead, clients)
             \/ UNCHANGED vars
    BY <1>5, <1>s
    DEF Send, Deliver, ExpireLock, RedeliverJob, EvictJob, Crash, vars
  <1> QED BY <1>1, <1>2, <1>3, <1>4, <1>5 DEF Next
-----------------------------------------------------------------------------
(* What a step does to a run.  An await listed here is one whose run knows *)
(* something; nothing is said of the others.                               *)
Calling == {"gateway", "record", "markSuccess", "markPending", "markFailed"}
Knowing == {"begin", "recheck", "giveUp", "reread", "exhaust", "schedule"}
             \cup Calling

(* A run reads the current version of its payment.                         *)
ReadsVersion(w) ==
    /\ run'[w].ver = row[run[w].pay].version
    /\ Kept(run[w].pay)

Advance(w, from, to) ==
    /\ run[w].pc = from /\ run'[w].pc = to
    /\ run'[w].pay = run[w].pay

RunMove(w) ==
    LET p == run[w].pay
        old == run[w]
        new == run'[w]
    IN  \/ new = old
        \/ new.pc \notin Knowing
        \/ /\ Advance(w, "fetch", "begin") /\ ReadsVersion(w)
           /\ row[p].status = "PENDING"
        \/ /\ Advance(w, "begin", "gateway") /\ VersionMatches(p, old.ver)
           /\ new.ver = old.ver + 1
           /\ Moved(p, "PENDING", "PROCESSING", "service")
        \/ /\ Advance(w, "gateway", "record") /\ Kept(p)
           /\ new.ver = old.ver
           /\ new.result = "success" =>
                 calls'[p] = Append(calls[p], [attempt |-> old.ver,
                                               answer  |-> "success"])
        \/ /\ Advance(w, "record", AfterRecord(old.result)) /\ Kept(p)
           /\ new.ver = old.ver /\ new.result = old.result
           /\ old.ver \in responses'[p]
        \/ /\ Advance(w, "markFailed", "recheck")
           /\ VersionMatches(p, old.ver)
           /\ Moved(p, "PROCESSING", "FAILED", "service")
        \/ Advance(w, "recheck", "giveUp") /\ ReadsVersion(w)
        \/ /\ Advance(w, "triage", "reread") /\ Kept(p)
           /\ row[p].status = "FAILED" /\ new.attempt = row[p].retryCount
           /\ row[p].retryCount < MaxRetries
        \/ /\ Advance(w, "triage", "exhaust") /\ ReadsVersion(w)
           /\ row[p].status = "FAILED"
        \/ /\ Advance(w, "reread", "schedule") /\ ReadsVersion(w)
           /\ row[p].status = "FAILED" /\ new.attempt = old.attempt

LEMMA GotoMoves ==
    ASSUME TypeInv, NEW w \in Slots, NEW next, Goto(w, next)
    PROVE  /\ run'[w] = next
           /\ \A v \in Slots : v # w => run'[v] = run[v]
  BY DEF TypeInv, RunsOK, Goto

LEMMA ThrownKnowsNothing == \A w : Thrown(w).pc \notin Knowing
  BY DEF Thrown, Ends, Local, Handler, Knowing, Calling

LEMMA LocalFields ==
    ASSUME NEW w, NEW pc, NEW ver, NEW result, NEW attempt
    PROVE  /\ Local(w, pc, ver, result, attempt).pc = pc
           /\ Local(w, pc, ver, result, attempt).pay = run[w].pay
           /\ Local(w, pc, ver, result, attempt).ver = ver
           /\ Local(w, pc, ver, result, attempt).result = result
           /\ Local(w, pc, ver, result, attempt).attempt = attempt
           /\ Ends(w, pc).pc = pc
  BY DEF Local, Ends

(* A run that throws, or goes where nothing is said.                       *)
LEMMA Forgets ==
    ASSUME TypeInv, NEW w \in Slots, NEW next, next.pc \notin Knowing,
           Goto(w, next) \/ Returns(w, next)
    PROVE  \A v \in Slots : RunMove(v)
  BY GotoMoves, ThrownKnowsNothing DEF Returns, RunMove

LEMMA ThrowForgets ==
    ASSUME TypeInv, NEW w \in Slots, Throws(w) \/ Goto(w, Thrown(w))
    PROVE  \A v \in Slots : RunMove(v)
  BY GotoMoves, ThrownKnowsNothing DEF Throws, RunMove

(* An update after which nothing is said of the run.                       *)
LEMMA TransitionForgets ==
    ASSUME TypeInv, NEW w \in Slots, NEW from, NEW to, NEW code, NEW next,
           Transition(w, from, to, code, next),
           \/ next.pc \notin Knowing
           \/ ~CanTransition(run[w].pay, from, to, run[w].ver)
    PROVE  \A v \in Slots : RunMove(v)
  <1>1. (Returns(w, next) /\ next.pc \notin Knowing) \/ Throws(w)
    BY DEF Transition
  <1> QED BY <1>1, Forgets, ThrowForgets

(* A run that goes to `next` or throws.                                    *)
LEMMA OneRunMoves ==
    ASSUME TypeInv, NEW w \in Slots, NEW next,
           Returns(w, next) \/ Goto(w, next) \/ Throws(w),
           Goto(w, next) => RunMove(w)
    PROVE  \A v \in Slots : RunMove(v)
  BY GotoMoves, ThrowForgets DEF Returns, RunMove

LEMMA WorkerMoves ==
    ASSUME TypeInv, NEW w \in Slots, WorkerStep(w) \/ CallFails(w)
    PROVE  \A v \in Slots : RunMove(v)
  <1> DEFINE p == run[w].pay
  <1>k. UNCHANGED storeVars \/ UNCHANGED <<row, trail>> => Kept(p)
    BY DEF storeVars, Kept
  <1>p. run[w].pc # "idle" => p \in Payments
    BY DEF TypeInv, RunsOK, RunOK
  <1>e. \A pc : Ends(w, pc).pc = pc
    BY LocalFields
  <1>n. {"acquire", "fetch", "release", "abort", "triage", "enqueue",
         "complete", "reject", "idle"} \cap Knowing = {}
    BY DEF Knowing, Calling
  <1>a. ASSUME NEW q \in Payments, TakeProcessJob(w, q)
        PROVE  \A v \in Slots : RunMove(v)
    <2>1. PICK next : Goto(w, next) /\ next.pc = "acquire"
      BY <1>a DEF TakeProcessJob
    <2> QED BY <1>n, <2>1, Forgets
  <1>b. CASE AcquireLock(w)
    <2>1. Returns(w, Ends(w, "fetch")) \/ Throws(w)
      BY <1>b DEF AcquireLock
    <2> QED BY <1>e, <1>n, <2>1, Forgets, ThrowForgets
  <1>c. CASE MarkPending(w)
    <2>1. Returns(w, Ends(w, "release")) \/ Throws(w)
      BY <1>c DEF MarkPending
    <2> QED BY <1>e, <1>n, <2>1, Forgets, ThrowForgets
  <1>d. CASE Release(w)
    <2>1. Returns(w, Ends(w, "triage")) \/ Returns(w, Ends(w, "complete"))
      BY <1>d DEF Release
    <2> QED BY <1>e, <1>n, <2>1, Forgets
  <1>f. CASE EnqueueRetry(w)
    <2>1. Returns(w, Ends(w, "reject"))
      BY <1>f DEF EnqueueRetry
    <2> QED BY <1>e, <1>n, <2>1, Forgets
  <1>g. CASE FinishProcessJob(w)
    <2>1. Goto(w, Idle) /\ Idle.pc = "idle"
      BY <1>g DEF FinishProcessJob, Idle
    <2> QED BY <1>n, <2>1, Forgets
  <1>h. CASE CallFails(w)
    BY <1>h, ThrowForgets DEF CallFails
  <1>2. CASE FetchPayment(w)
    <2> DEFINE next == Local(w, "begin", row[p].version, None, 0)
    <2>1. CASE IsPending(row[p].status)
      <3>1. Goto(w, next) /\ run[w].pc = "fetch" /\ Kept(p)
        BY <1>2, <1>k, <2>1 DEF FetchPayment, At
      <3>2. RunMove(w)
        BY <2>1, <3>1, GotoMoves, LocalFields
        DEF IsPending, RunMove, Advance, ReadsVersion
      <3> QED BY <3>1, <3>2, OneRunMoves
    <2>2. CASE ~IsPending(row[p].status)
      <3>1. Goto(w, Ends(w, "abort")) \/ Goto(w, Ends(w, "release"))
        BY <1>2, <2>2 DEF FetchPayment
      <3> QED BY <1>e, <1>n, <3>1, Forgets
    <2> QED BY <2>1, <2>2
  <1>3. CASE BeginProcessing(w)
    <2> DEFINE next == Local(w, "gateway", run[w].ver + 1, None, 0)
    <2>1. CASE CanTransition(p, "PENDING", "PROCESSING", run[w].ver)
      <3>1. /\ Moved(p, "PENDING", "PROCESSING", "service")
            /\ run[w].pc = "begin" /\ Returns(w, next)
            /\ VersionMatches(p, run[w].ver)
        BY <1>3, <1>p, <2>1, WriteMoves
        DEF BeginProcessing, Transition, TransitionState, At, CanTransition
      <3>2. Goto(w, next) => RunMove(w)
        BY <3>1, GotoMoves, LocalFields DEF RunMove, Advance
      <3> QED BY <3>1, <3>2, OneRunMoves
    <2>2. CASE ~CanTransition(p, "PENDING", "PROCESSING", run[w].ver)
      BY <1>3, <2>2, TransitionForgets DEF BeginProcessing
    <2> QED BY <2>1, <2>2
  <1>4. CASE GatewayAnswers(w)
    <2>1. PICK answer \in Answers :
            /\ calls' = [calls EXCEPT ![p] =
                           Append(@, [attempt |-> run[w].ver,
                                      answer |-> answer])]
            /\ Goto(w, Local(w, "record", run[w].ver, answer, 0))
      BY <1>4 DEF GatewayAnswers
    <2>2. run[w].pc = "gateway" /\ Kept(p)
      BY <1>4, <1>k DEF GatewayAnswers, At
    <2>3. calls'[p] = Append(calls[p], [attempt |-> run[w].ver,
                                        answer |-> answer])
      BY <1>p, <2>1, <2>2 DEF TypeInv, CallsOK
    <2>4. RunMove(w)
      BY <2>1, <2>2, <2>3, GotoMoves, LocalFields DEF RunMove, Advance
    <2> QED BY <2>1, <2>4, OneRunMoves
  <1>5. CASE BreakerRejects(w)
    <2> DEFINE next == Local(w, "record", run[w].ver, "INTERNAL_ERROR", 0)
    <2>1. run[w].pc = "gateway" /\ Kept(p) /\ Goto(w, next)
      BY <1>5, <1>k DEF BreakerRejects, At
    <2>2. RunMove(w)
      BY <2>1, GotoMoves, LocalFields DEF RunMove, Advance
    <2> QED BY <2>1, <2>2, OneRunMoves
  <1>6. CASE RecordResponse(w)
    <2> DEFINE next == Local(w, AfterRecord(run[w].result), run[w].ver,
                             run[w].result, 0)
    <2>1. run[w].pc = "record" /\ Kept(p) /\ Returns(w, next)
      BY <1>6, <1>k DEF RecordResponse, At
    <2>2. run[w].ver \in responses'[p]
      BY <1>6, <1>p, <2>1 DEF RecordResponse, TypeInv, StoreTypeOK
    <2>3. Goto(w, next) => RunMove(w)
      BY <2>1, <2>2, GotoMoves, LocalFields DEF RunMove, Advance
    <2> QED BY <2>1, <2>3, OneRunMoves
  <1>7. CASE MarkFailed(w)
    <2> DEFINE next == Local(w, "recheck", 0, run[w].result, 0)
    <2>1. CASE CanTransition(p, "PROCESSING", "FAILED", run[w].ver)
      <3>1. /\ Moved(p, "PROCESSING", "FAILED", "service")
            /\ run[w].pc = "markFailed" /\ Returns(w, next)
            /\ VersionMatches(p, run[w].ver)
        BY <1>7, <1>p, <2>1, WriteMoves
        DEF MarkFailed, Transition, TransitionState, At, CanTransition
      <3>2. Goto(w, next) => RunMove(w)
        BY <3>1, GotoMoves, LocalFields DEF RunMove, Advance
      <3> QED BY <3>1, <3>2, OneRunMoves
    <2>2. CASE ~CanTransition(p, "PROCESSING", "FAILED", run[w].ver)
      BY <1>7, <2>2, TransitionForgets DEF MarkFailed
    <2> QED BY <2>1, <2>2
  <1>8. CASE MarkSuccess(w) \/ GiveUp(w) \/ Exhaust(w) \/ ScheduleRetry(w)
    <2>1. PICK from, to, next : /\ Transition(w, from, to, None, next)
                                /\ next.pc \notin Knowing
      BY <1>8, <1>e, <1>n, LocalFields
      DEF MarkSuccess, GiveUp, Exhaust, ScheduleRetry
    <2> QED BY <2>1, TransitionForgets
  <1>9. CASE Recheck(w)
    <2> DEFINE next == Local(w, "giveUp", row[p].version, None, 0)
    <2>1. run[w].pc = "recheck" /\ Kept(p)
      BY <1>9, <1>k DEF Recheck, At
    <2>2. Goto(w, next) => RunMove(w)
      BY <2>1, GotoMoves, LocalFields DEF RunMove, Advance, ReadsVersion
    <2>3. Goto(w, next) \/ Goto(w, Ends(w, "release"))
      BY <1>9 DEF Recheck
    <2> QED BY <1>e, <1>n, <2>2, <2>3, Forgets, OneRunMoves
  <1>10. CASE Triage(w)
    <2> DEFINE again == Local(w, "reread", 0, None, row[p].retryCount)
               last == Local(w, "exhaust", row[p].version, None, 0)
    <2>1. run[w].pc = "triage" /\ Kept(p)
      BY <1>10, <1>k DEF Triage, At
    <2>2. CASE row[p].status # "FAILED"
      BY <1>10, <1>n, <2>2, LocalFields, Forgets DEF Triage
    <2>3. CASE row[p].status = "FAILED" /\ CanRetry(p, row[p].errorCode)
      <3>1. Goto(w, again) /\ row[p].retryCount < MaxRetries
        BY <1>10, <2>3 DEF Triage, CanRetry
      <3>2. RunMove(w)
        BY <2>1, <2>3, <3>1, GotoMoves, LocalFields DEF RunMove, Advance
      <3> QED BY <3>1, <3>2, OneRunMoves
    <2>4. CASE row[p].status = "FAILED" /\ ~CanRetry(p, row[p].errorCode)
      <3>1. Goto(w, last)
        BY <1>10, <2>4 DEF Triage
      <3>2. RunMove(w)
        BY <2>1, <2>4, <3>1, GotoMoves, LocalFields
        DEF RunMove, Advance, ReadsVersion
      <3> QED BY <3>1, <3>2, OneRunMoves
    <2> QED BY <2>2, <2>3, <2>4
  <1>11. CASE Reread(w)
    <2> DEFINE next == Local(w, "schedule", row[p].version, None,
                             run[w].attempt)
    <2>1. run[w].pc = "reread" /\ Kept(p)
      BY <1>11, <1>k DEF Reread, At
    <2>2. CASE row[p].status = "FAILED"
      <3>1. Goto(w, next)
        BY <1>11, <2>2 DEF Reread
      <3>2. RunMove(w)
        BY <2>1, <2>2, <3>1, GotoMoves, LocalFields
        DEF RunMove, Advance, ReadsVersion
      <3> QED BY <3>1, <3>2, OneRunMoves
    <2>3. CASE row[p].status # "FAILED"
      BY <1>11, <1>n, <2>3, LocalFields, Forgets DEF Reread
    <2> QED BY <2>2, <2>3
  <1> QED BY <1>a, <1>b, <1>c, <1>d, <1>f, <1>g, <1>h, <1>2, <1>3, <1>4,
             <1>5, <1>6, <1>7, <1>8, <1>9, <1>10, <1>11 DEF WorkerStep

LEMMA RunMoves ==
    ASSUME TypeInv, [Next]_vars
    PROVE  \A w \in Slots : RunMove(w)
  <1>u. UNCHANGED run => \A w \in Slots : RunMove(w)
    BY DEF RunMove
  <1>1. ASSUME NEW w \in Slots, Worker(w)
        PROVE  \A v \in Slots : RunMove(v)
    BY <1>1, WorkerMoves DEF Worker
  <1>2. ASSUME NEW dead \in SUBSET Tasks, NEW clients \in SUBSET Payments,
               Crash(dead, clients)
        PROVE  \A v \in Slots : RunMove(v)
    <2>1. Idle.pc \notin Knowing
      BY DEF Idle, Knowing, Calling
    <2>2. \A v \in Slots : run'[v] = Idle \/ run'[v] = run[v]
      BY <1>2 DEF Crash
    <2> QED BY <2>1, <2>2 DEF RunMove
  <1>3. CASE \/ \E p \in Payments : Api(p)
             \/ \E r \in RetrySlots : Retry(r)
             \/ \E h \in Hooks : Webhook(h)
             \/ \E h \in Hooks, e \in Events : Send(h, e)
             \/ \E p \in Payments : ExpireLock(p)
             \/ \E id \in JobIds : RedeliverJob(id) \/ EvictJob(id)
             \/ UNCHANGED vars
    BY <1>3, <1>u
    DEF Api, Retry, Webhook, Send, ExpireLock, RedeliverJob, EvictJob, vars,
        workerVars
  <1> QED BY <1>1, <1>2, <1>3 DEF Next
-----------------------------------------------------------------------------
(* What a step does to a retry run, a webhook request, a cancel request.   *)
RetryMove(r) ==
    LET p == retrying[r].pay
        new == retrying'[r]
    IN  \/ new = retrying[r]
        \/ new.pc # "requeue"
        \/ /\ new.pay = p /\ p \in Payments /\ Kept(p)
           /\ new.ver = row[p].version /\ row[p].status = "RETRY_SCHEDULED"

HookMove(h) ==
    LET e == hook[h].event
        current == row[Payload[e].pay]
        new == hook'[h]
    IN  \/ new = hook[h]
        \/ new.pc \notin {"apply", "reject"}
        \/ /\ hook[h].pc = "fetch" /\ new.event = e
           /\ e \in Events /\ Kept(Payload[e].pay)
           /\ \/ /\ new.pc = "apply"
                 /\ Accepts(current.status, TargetStatus(e))
                 /\ new.ver = current.version /\ new.from = current.status
              \/ /\ new.pc = "reject"
                 /\ ~Accepts(current.status, TargetStatus(e))

CancelMove(p) ==
    \/ cancelling'[p] \in {0, cancelling[p]}
    \/ /\ cancelling'[p] = row[p].version /\ Kept(p)
       /\ row[p].status \in {"CREATED", "PENDING"}

LEMMA RetryMoves ==
    ASSUME TypeInv, [Next]_vars
    PROVE  \A r \in RetrySlots : RetryMove(r)
  <1>t. retrying \in [RetrySlots -> RetryType]
    BY DEF TypeInv, RetriesOK
  <1>u. UNCHANGED retrying => \A r \in RetrySlots : RetryMove(r)
    BY DEF RetryMove
  <1>1. ASSUME NEW r \in RetrySlots, Retry(r)
        PROVE  \A s \in RetrySlots : RetryMove(s)
    <2> DEFINE p == retrying[r].pay
    <2>1. \A s \in RetrySlots : s # r => retrying'[s] = retrying[s]
      BY <1>1, <1>t
      DEF Retry, RetryStep, RetryCallFails, TakeRetryJob, ReadForRetry,
          Requeue, EnqueueAgain, FinishRetryJob, RetryReturns, RetryFinishes,
          RetryGoto
    <2>2. ASSUME ReadForRetry(r), IsScheduled(row[p].status)
          PROVE  RetryMove(r)
      <3>1. retrying'[r] = RetryLocal(r, "requeue", row[p].version)
        BY <1>t, <2>2 DEF ReadForRetry, RetryGoto
      <3>2. p \in Payments
        BY <2>2 DEF ReadForRetry, TypeInv, RetriesOK, RetryOK
      <3>3. Kept(p)
        BY <2>2 DEF ReadForRetry, storeVars, Kept
      <3> QED BY <2>2, <3>1, <3>2, <3>3
              DEF RetryLocal, RetryMove, IsScheduled
    <2>3. ASSUME ~(ReadForRetry(r) /\ IsScheduled(row[p].status))
          PROVE  retrying'[r].pc # "requeue"
      BY <1>1, <1>t, <2>3
      DEF Retry, RetryStep, RetryCallFails, TakeRetryJob, ReadForRetry,
          Requeue, EnqueueAgain, FinishRetryJob, RetryReturns, RetryFinishes,
          RetryGoto, RetryLocal, RetryIdle
    <2> QED BY <2>1, <2>2, <2>3 DEF RetryMove
  <1>2. ASSUME NEW dead \in SUBSET Tasks, NEW clients \in SUBSET Payments,
               Crash(dead, clients)
        PROVE  \A r \in RetrySlots : RetryMove(r)
    BY <1>2 DEF Crash, RetryIdle, RetryMove
  <1>3. CASE \/ \E p \in Payments : Api(p)
             \/ \E w \in Slots : Worker(w)
             \/ \E h \in Hooks : Webhook(h)
             \/ \E h \in Hooks, e \in Events : Send(h, e)
             \/ \E p \in Payments : ExpireLock(p)
             \/ \E id \in JobIds : RedeliverJob(id) \/ EvictJob(id)
             \/ UNCHANGED vars
    BY <1>3, <1>u
    DEF Api, Worker, Webhook, Send, ExpireLock, RedeliverJob, EvictJob, vars
  <1> QED BY <1>1, <1>2, <1>3 DEF Next

LEMMA HookMoves ==
    ASSUME TypeInv, [Next]_vars
    PROVE  \A h \in Hooks : HookMove(h)
  <1>t. hook \in [Hooks -> HookType]
    BY DEF TypeInv, HooksOK
  <1>u. UNCHANGED hook => \A h \in Hooks : HookMove(h)
    BY DEF HookMove
  <1>g. ASSUME NEW h \in Hooks, NEW pc, HookGoto(h, pc)
        PROVE  /\ hook'[h].pc = pc
               /\ pc # "idle" => hook'[h].event = hook[h].event
               /\ \A g \in Hooks : g # h => hook'[g] = hook[g]
    BY <1>g, <1>t DEF HookGoto, HookIdle
  <1>e. ASSUME NEW h \in Hooks, NEW pc, pc \notin {"apply", "reject"},
               HookGoto(h, pc) \/ HookThrows(h) \/ HookReturns(h, pc)
        PROVE  \A g \in Hooks : HookMove(g)
    <2>1. PICK to : HookGoto(h, to) /\ to \notin {"apply", "reject"}
      BY <1>e DEF HookThrows, HookReturns, HookHandler
    <2> QED BY <1>g, <2>1 DEF HookMove
  <1>1. ASSUME NEW h \in Hooks, Webhook(h)
        PROVE  \A g \in Hooks : HookMove(g)
    <2> DEFINE e == hook[h].event
               p == Payload[e].pay
               fits == Accepts(row[p].status, TargetStatus(e))
    <2>1. CASE FetchForHook(h)
      <3>1. hook[h].pc = "fetch" /\ e \in Events /\ Kept(p)
        BY <2>1
        DEF FetchForHook, HookAt, TypeInv, HooksOK, HookOK, storeVars, Kept
      <3>2. CASE fits
        <4>1. /\ hook'[h] = [pc |-> "apply", event |-> e,
                             ver |-> row[p].version, from |-> row[p].status]
              /\ \A g \in Hooks : g # h => hook'[g] = hook[g]
          BY <1>t, <2>1, <3>2 DEF FetchForHook
        <4> QED BY <3>1, <3>2, <4>1 DEF HookMove
      <3>3. CASE ~fits
        <4>1. HookGoto(h, "reject")
          BY <2>1, <3>3 DEF FetchForHook
        <4> QED BY <1>g, <3>1, <3>3, <4>1 DEF HookMove
      <3> QED BY <3>2, <3>3
    <2>2. CASE Dedup(h)
      BY <1>e, <2>2 DEF Dedup
    <2>3. CASE \/ RecordDuplicate(h) \/ AcquireForHook(h) \/ RejectEvent(h)
               \/ ApplyEvent(h) \/ ReleaseHook(h)
      <3>1. PICK pc : /\ pc \notin {"apply", "reject"}
                      /\ \/ HookGoto(h, pc) \/ HookThrows(h)
                         \/ HookReturns(h, pc)
        BY <2>3
        DEF RecordDuplicate, AcquireForHook, RejectEvent, ApplyEvent,
            ReleaseHook
      <3> QED BY <1>e, <3>1
    <2>4. CASE HookCallFails(h)
      BY <1>e, <2>4 DEF HookCallFails, HookHandler
    <2> QED BY <1>1, <2>1, <2>2, <2>3, <2>4 DEF Webhook, HookStep
  <1>2. ASSUME NEW h \in Hooks, NEW e \in Events, Send(h, e)
        PROVE  \A g \in Hooks : HookMove(g)
    BY <1>2, <1>t DEF Send, Deliver, HookMove
  <1>3. ASSUME NEW dead \in SUBSET Tasks, NEW clients \in SUBSET Payments,
               Crash(dead, clients)
        PROVE  \A h \in Hooks : HookMove(h)
    BY <1>3 DEF Crash, HookIdle, HookMove
  <1>4. CASE \/ \E p \in Payments : Api(p)
             \/ \E w \in Slots : Worker(w)
             \/ \E r \in RetrySlots : Retry(r)
             \/ \E p \in Payments : ExpireLock(p)
             \/ \E id \in JobIds : RedeliverJob(id) \/ EvictJob(id)
             \/ UNCHANGED vars
    BY <1>4, <1>u
    DEF Api, Worker, Retry, ExpireLock, RedeliverJob, EvictJob, vars
  <1> QED BY <1>1, <1>2, <1>3, <1>4 DEF Next

LEMMA CancelMoves ==
    ASSUME TypeInv, [Next]_vars
    PROVE  \A p \in Payments : CancelMove(p)
  <1>t. cancelling \in [Payments -> Nat]
    BY DEF TypeInv, ApiTypeOK
  <1>u. UNCHANGED cancelling => \A p \in Payments : CancelMove(p)
    BY DEF CancelMove
  <1>1. ASSUME NEW q \in Payments, Api(q)
        PROVE  \A p \in Payments : CancelMove(p)
    <2>1. CASE ReadForCancel(q)
      <3>1. Kept(q)
        BY <2>1 DEF ReadForCancel, storeVars, Kept
      <3> QED BY <1>t, <2>1, <3>1 DEF ReadForCancel, CancelMove
    <2>2. CASE CancelPayment(q)
      BY <1>t, <2>2 DEF CancelPayment, CancelMove
    <2> QED BY <1>1, <1>u, <2>1, <2>2
            DEF Api, ApiStep, CreatePayment, EnqueuePayment
  <1>2. ASSUME NEW dead \in SUBSET Tasks, NEW clients \in SUBSET Payments,
               Crash(dead, clients)
        PROVE  \A p \in Payments : CancelMove(p)
    BY <1>2 DEF Crash, CancelMove
  <1>3. CASE \/ \E w \in Slots : Worker(w)
             \/ \E r \in RetrySlots : Retry(r)
             \/ \E h \in Hooks : Webhook(h)
             \/ \E h \in Hooks, e \in Events : Send(h, e)
             \/ \E p \in Payments : ExpireLock(p)
             \/ \E id \in JobIds : RedeliverJob(id) \/ EvictJob(id)
             \/ UNCHANGED vars
    BY <1>3, <1>u
    DEF Worker, Retry, Webhook, Send, ExpireLock, RedeliverJob, EvictJob,
        vars, apiVars
  <1> QED BY <1>1, <1>2, <1>3 DEF Next
-----------------------------------------------------------------------------
(* The version is one p has or had, and if p still has it its status is    *)
(* the one that was seen with it.                                          *)
Knows(p, ver, status) ==
    /\ ver <= row[p].version
    /\ ver = row[p].version => row[p].status = status

(* A run knows the status its next update will claim, except at recheck    *)
(* and giveUp, where it knows no more than that the payment exists.        *)
RunKnows(w) ==
    LET p == run[w].pay
        ver == run[w].ver
    IN  /\ run[w].pc = "begin" => Knows(p, ver, "PENDING")
        /\ run[w].pc \in Calling => Knows(p, ver, "PROCESSING")
        /\ run[w].pc \in {"exhaust", "schedule"} => Knows(p, ver, "FAILED")
        /\ run[w].pc \in {"recheck", "giveUp"} => row[p].status # "ABSENT"

RetryKnows(r) ==
    retrying[r].pc = "requeue" =>
        Knows(retrying[r].pay, retrying[r].ver, "RETRY_SCHEDULED")

HookKnows(h) ==
    hook[h].pc = "apply" =>
        /\ Knows(Payload[hook[h].event].pay, hook[h].ver, hook[h].from)
        /\ Accepts(hook[h].from, TargetStatus(hook[h].event))

CancelKnows(p) == cancelling[p] # 0 => Knows(p, cancelling[p], "PENDING")

(* The trail has an entry for every version and ends in the status.        *)
RowOK(p) ==
    /\ row[p].status # "CREATED"
    /\ row[p].status = "ABSENT" <=> row[p].version = 0
    /\ Len(trail[p]) = row[p].version
    /\ trail[p] # <<>> => /\ LastOf(p).to = row[p].status
                          /\ trail[p][1].from = None

KnowInv ==
    /\ \A p \in Payments : RowOK(p) /\ CancelKnows(p)
    /\ \A w \in Slots : RunKnows(w)
    /\ \A r \in RetrySlots : RetryKnows(r)
    /\ \A h \in Hooks : HookKnows(h)

(* A run gives up on a version whose status it has not looked at.          *)
GivesUpBlindly(p, from, to, by) ==
    /\ from = "FAILED" /\ to = "PERMANENTLY_FAILED" /\ by = "service"
    /\ \E w \in Slots : /\ run[w].pc = "giveUp" /\ run[w].pay = p
                        /\ VersionMatches(p, run[w].ver)

(* Every other update makes the transition it claims.                      *)
LEMMA UpdatesAreHonest ==
    ASSUME TypeInv, KnowInv, NEW p \in Payments, NEW from, NEW to, NEW by,
           Update(p, from, to, by)
    PROVE  /\ row[p].status # "ABSENT" /\ to \notin {"CREATED", "ABSENT"}
           /\ by \in Events \cup {"service"}
           /\ \/ row[p].status = from /\ IsValidStateTransition(from, to)
              \/ GivesUpBlindly(p, from, to, by)
  <1>v. /\ IsValidStateTransition("PENDING", "PROCESSING")
        /\ IsValidStateTransition("PENDING", "CANCELLED")
        /\ IsValidStateTransition("PROCESSING", "SUCCESS")
        /\ IsValidStateTransition("PROCESSING", "FAILED")
        /\ IsValidStateTransition("FAILED", "PERMANENTLY_FAILED")
        /\ IsValidStateTransition("FAILED", "RETRY_SCHEDULED")
        /\ IsValidStateTransition("RETRY_SCHEDULED", "PENDING")
    BY DEF IsValidStateTransition, ValidTransitions
  <1>1. ASSUME NEW w \in Slots, RunUpdate(w, p, from, to, by),
               run[w].pc # "giveUp"
        PROVE  /\ row[p].status = from /\ IsValidStateTransition(from, to)
               /\ to \notin {"CREATED", "ABSENT"}
               /\ from # "ABSENT"
    <2>1. RunKnows(w) /\ run[w].pay = p /\ run[w].ver = row[p].version
      BY <1>1 DEF KnowInv, RunUpdate, VersionMatches
    <2> QED BY <1>1, <1>v, <2>1
            DEF RunUpdate, RunUpdates, RunKnows, Knows, Calling
  <1>2. ASSUME NEW w \in Slots, RunUpdate(w, p, from, to, by),
               run[w].pc = "giveUp"
        PROVE  /\ row[p].status # "ABSENT"
               /\ to \notin {"CREATED", "ABSENT"}
               /\ GivesUpBlindly(p, from, to, by)
    <2>1. RunKnows(w)
      BY DEF KnowInv
    <2> QED BY <1>2, <2>1
            DEF RunUpdate, RunUpdates, RunKnows, GivesUpBlindly
  <1>3. ASSUME NEW r \in RetrySlots, RetryUpdate(r, p, from, to, by)
        PROVE  /\ row[p].status = from /\ from = "RETRY_SCHEDULED"
               /\ to = "PENDING"
    BY <1>3 DEF KnowInv, RetryUpdate, RetryKnows, Knows, VersionMatches
  <1>4. ASSUME CancelUpdate(p, from, to, by)
        PROVE  /\ row[p].status = from /\ from = "PENDING"
               /\ to = "CANCELLED"
    BY <1>4 DEF KnowInv, CancelUpdate, CancelKnows, Knows, VersionMatches
  <1>5. ASSUME NEW h \in Hooks, HookUpdate(h, p, from, to, by)
        PROVE  /\ row[p].status = from /\ IsValidStateTransition(from, to)
               /\ from # "ABSENT" /\ to \in {"SUCCESS", "FAILED"}
    <2>1. HookKnows(h)
      BY DEF KnowInv
    <2> QED BY <1>5, <2>1
            DEF HookUpdate, HookKnows, Knows, VersionMatches, Accepts,
                TargetStatus
  <1>6. by \in Events \cup {"service"}
    BY DEF Update, RunUpdate, RetryUpdate, CancelUpdate, HookUpdate
  <1> QED BY <1>v, <1>1, <1>2, <1>3, <1>4, <1>5, <1>6 DEF Update

(* A payment moves on or stays as it is.                                   *)
LEMMA VersionsMove ==
    ASSUME TypeInv, TypeInv', KnowInv, [Next]_vars, NEW p \in Payments
    PROVE  /\ row[p].version \in Nat /\ row'[p].version \in Nat
           /\ row'[p] = row[p] \/ row'[p].version > row[p].version
           /\ row[p].status # "ABSENT" => row'[p].status # "ABSENT"
  <1>1. row[p].version \in Nat /\ row'[p].version \in Nat
    BY DEF TypeInv, StoreTypeOK, RowType
  <1>2. RowMove(p)
    BY RowMoves
  <1>3. CASE Born(p)
    BY <1>1, <1>3 DEF Born, Absent
  <1>4. CASE Kept(p)
    BY <1>1, <1>4 DEF Kept
  <1>5. ASSUME NEW from, NEW to, NEW by, Moved(p, from, to, by),
               Update(p, from, to, by)
        PROVE  row'[p].version > row[p].version /\ row'[p].status # "ABSENT"
    BY <1>1, <1>5, UpdatesAreHonest DEF Moved
  <1> QED BY <1>1, <1>2, <1>3, <1>4, <1>5 DEF RowMove

(* What is known stays known, whatever anybody does.                       *)
LEMMA KnowledgeStays ==
    ASSUME TypeInv, TypeInv', KnowInv, [Next]_vars, NEW p \in Payments,
           NEW ver \in Nat, NEW status, Knows(p, ver, status)
    PROVE  /\ ver <= row'[p].version
           /\ ver = row'[p].version => row'[p].status = status
  <1>1. ver <= row[p].version
    BY DEF Knows
  <1>2. CASE row'[p] = row[p]
    BY <1>2 DEF Knows
  <1>3. CASE row'[p].version > row[p].version
    BY <1>1, <1>3, VersionsMove
  <1> QED BY <1>2, <1>3, VersionsMove
-----------------------------------------------------------------------------
(* KnowInv is inductive: its parts, one holder of a version after another. *)

LEMMA RowsStayOK ==
    ASSUME TypeInv, TypeInv', KnowInv, [Next]_vars, NEW p \in Payments
    PROVE  RowOK(p)'
  <1>1. /\ row[p].version \in Nat /\ trail[p] \in Seq(TrailType)
        /\ RowOK(p) /\ RowMove(p)
    BY RowMoves DEF TypeInv, StoreTypeOK, RowType, KnowInv
  <1>2. CASE Kept(p)
    BY <1>1, <1>2 DEF Kept, RowOK, LastOf
  <1>3. CASE Born(p)
    BY <1>3 DEF Born, RowOK, LastOf
  <1>4. ASSUME NEW from, NEW to, NEW by, Moved(p, from, to, by),
               Update(p, from, to, by)
        PROVE  RowOK(p)'
    <2> DEFINE entry == [from |-> from, to |-> to, by |-> by]
               n == Len(trail[p])
    <2>1. row[p].status # "ABSENT" /\ to \notin {"CREATED", "ABSENT"}
      BY <1>4, UpdatesAreHonest
    <2>2. n = row[p].version /\ n > 0 /\ trail[p][1].from = None
      BY <1>1, <2>1 DEF RowOK
    <2>3. trail'[p] = Append(trail[p], entry)
      BY <1>4 DEF Moved
    <2> HIDE DEF entry
    <2>4. /\ Len(trail'[p]) = n + 1 /\ trail'[p][n + 1] = entry
          /\ trail'[p][1] = trail[p][1]
      BY <1>1, <2>2, <2>3
    <2>5. entry.to = to
      BY DEF entry
    <2> QED BY <1>1, <1>4, <2>1, <2>2, <2>4, <2>5
            DEF Moved, RowOK, LastOf
  <1> QED BY <1>1, <1>2, <1>3, <1>4 DEF RowMove

LEMMA RunsStayKnowing ==
    ASSUME TypeInv, TypeInv', KnowInv, [Next]_vars, NEW w \in Slots
    PROVE  RunKnows(w)'
  <1> DEFINE p == run[w].pay
             n == row[p].version
  <1>1. RunKnows(w) /\ RunMove(w)
    BY RunMoves DEF KnowInv
  <1>n. Knowing = {"begin", "recheck", "giveUp", "reread", "exhaust",
                   "schedule", "gateway", "record", "markSuccess",
                   "markPending", "markFailed"}
    BY DEF Knowing, Calling
  <1>2. run'[w].ver \in Nat /\ run[w].ver \in Nat
    BY DEF TypeInv, RunsOK, RunOK, RunType
  <1>3. CASE run'[w].pc \notin Knowing
    BY <1>3, <1>n DEF RunKnows, Calling
  <1>4. CASE run'[w].pc \in Knowing
    <2>1. run[w].pc # "idle"
      BY <1>1, <1>4, <1>n DEF RunMove, Advance
    <2>2. p \in Payments
      BY <2>1 DEF TypeInv, RunsOK, RunOK
    <2>3. n \in Nat /\ row'[p].version \in Nat
      BY <2>2, VersionsMove
    <2>s. \A status : Knows(p, run[w].ver, status) =>
             /\ run[w].ver <= row'[p].version
             /\ run[w].ver = row'[p].version => row'[p].status = status
      BY <1>2, <2>2, KnowledgeStays
    <2>4. CASE run'[w] = run[w]
      BY <1>1, <2>2, <2>4, <2>s, VersionsMove DEF RunKnows, Knows
    <2>5. ASSUME ReadsVersion(w), run'[w].pay = p
          PROVE  Knows(p, run[w].ver, row[p].status)'
      BY <2>3, <2>5 DEF ReadsVersion, Kept, Knows
    <2>a. CASE /\ Advance(w, "fetch", "begin") /\ ReadsVersion(w)
               /\ row[p].status = "PENDING"
      BY <2>5, <2>a DEF Advance, ReadsVersion, Kept, RunKnows, Calling
    <2>b. CASE Advance(w, "recheck", "giveUp") /\ ReadsVersion(w)
      BY <1>1, <2>b DEF Advance, ReadsVersion, Kept, RunKnows, Calling
    <2>c. CASE /\ \/ Advance(w, "triage", "exhaust")
                  \/ Advance(w, "reread", "schedule")
               /\ ReadsVersion(w) /\ row[p].status = "FAILED"
      BY <2>5, <2>c DEF Advance, ReadsVersion, Kept, RunKnows, Calling
    <2>6. CASE /\ Advance(w, "begin", "gateway")
               /\ VersionMatches(p, run[w].ver)
               /\ run'[w].ver = run[w].ver + 1
               /\ Moved(p, "PENDING", "PROCESSING", "service")
      BY <2>3, <2>6
      DEF Advance, VersionMatches, Moved, RunKnows, Knows, Calling
    <2>7. CASE /\ run[w].pc \in Calling /\ run'[w].pc \in Calling
               /\ run'[w].pay = p /\ run'[w].ver = run[w].ver
      BY <1>1, <2>7, <2>s DEF RunKnows, Knows, Calling
    <2>8. CASE /\ Advance(w, "markFailed", "recheck")
               /\ Moved(p, "PROCESSING", "FAILED", "service")
      BY <2>8 DEF Advance, Moved, RunKnows, Calling
    <2>9. CASE run'[w].pc = "reread"
      BY <2>9 DEF RunKnows, Calling
    <2> QED
      BY <1>1, <1>4, <2>4, <2>a, <2>b, <2>c, <2>6, <2>7, <2>8, <2>9
      DEF RunMove, Advance, Calling, AfterRecord
  <1> QED BY <1>3, <1>4

LEMMA OthersStayKnowing ==
    ASSUME TypeInv, TypeInv', KnowInv, [Next]_vars
    PROVE  /\ \A r \in RetrySlots : RetryKnows(r)'
           /\ \A h \in Hooks : HookKnows(h)'
           /\ \A p \in Payments : CancelKnows(p)'
  <1>1. ASSUME NEW r \in RetrySlots, retrying'[r].pc = "requeue"
        PROVE  Knows(retrying[r].pay, retrying[r].ver, "RETRY_SCHEDULED")'
    <2> DEFINE p == retrying[r].pay
    <2>1. RetryMove(r) /\ RetryKnows(r)
      BY RetryMoves DEF KnowInv
    <2>2. CASE retrying'[r] = retrying[r]
      <3>1. p \in Payments /\ retrying[r].ver \in Nat
        BY <1>1, <2>2 DEF TypeInv, RetriesOK, RetryOK, RetryType
      <3> QED BY <1>1, <2>1, <2>2, <3>1, KnowledgeStays
              DEF RetryKnows, Knows
    <2>3. CASE retrying'[r] # retrying[r]
      <3>1. /\ retrying'[r].pay = p /\ p \in Payments /\ Kept(p)
            /\ retrying'[r].ver = row[p].version
            /\ row[p].status = "RETRY_SCHEDULED"
        BY <1>1, <2>1, <2>3 DEF RetryMove
      <3> QED BY <3>1, VersionsMove DEF Knows, Kept
    <2> QED BY <2>2, <2>3
  <1>2. ASSUME NEW h \in Hooks, hook'[h].pc = "apply"
        PROVE  /\ Knows(Payload[hook[h].event].pay, hook[h].ver,
                        hook[h].from)'
               /\ Accepts(hook[h].from, TargetStatus(hook[h].event))'
    <2> DEFINE e == hook[h].event
               p == Payload[e].pay
    <2>1. HookMove(h) /\ HookKnows(h)
      BY HookMoves DEF KnowInv
    <2>2. CASE hook'[h] = hook[h]
      <3>1. p \in Payments /\ hook[h].ver \in Nat
        BY <1>2, <2>2, PayloadAssumption
        DEF TypeInv, HooksOK, HookOK, HookType
      <3>2. Knows(p, hook[h].ver, hook[h].from)
        BY <1>2, <2>1, <2>2 DEF HookKnows
      <3>3. /\ hook[h].ver <= row'[p].version
            /\ hook[h].ver = row'[p].version =>
                  row'[p].status = hook[h].from
        BY <3>1, <3>2, KnowledgeStays
      <3> QED BY <1>2, <2>1, <2>2, <3>3
              DEF HookKnows, Knows, Accepts, TargetStatus
    <2>3. CASE hook'[h] # hook[h]
      <3>1. /\ hook'[h].event = e /\ e \in Events /\ Kept(p)
            /\ Accepts(row[p].status, TargetStatus(e))
            /\ hook'[h].ver = row[p].version
            /\ hook'[h].from = row[p].status
        BY <1>2, <2>1, <2>3 DEF HookMove
      <3>2. p \in Payments
        BY <3>1, PayloadAssumption
      <3> QED BY <3>1, <3>2, VersionsMove
              DEF Knows, Kept, Accepts, TargetStatus
    <2> QED BY <2>2, <2>3
  <1>3. ASSUME NEW p \in Payments, cancelling'[p] # 0
        PROVE  Knows(p, cancelling[p], "PENDING")'
    <2>1. CancelMove(p) /\ CancelKnows(p) /\ RowOK(p)
      BY CancelMoves DEF KnowInv
    <2>2. CASE cancelling'[p] = cancelling[p]
      <3>1. cancelling[p] \in Nat
        BY DEF TypeInv, ApiTypeOK
      <3> QED BY <1>3, <2>1, <2>2, <3>1, KnowledgeStays
              DEF CancelKnows, Knows
    <2>3. CASE cancelling'[p] # cancelling[p]
      BY <1>3, <2>1, <2>3, VersionsMove DEF CancelMove, RowOK, Kept, Knows
    <2> QED BY <2>2, <2>3
  <1> QED BY <1>1, <1>2, <1>3 DEF RetryKnows, HookKnows, CancelKnows

LEMMA InitKnow == Init => KnowInv
  <1> SUFFICES ASSUME Init PROVE KnowInv
    OBVIOUS
  <1>1. \A p \in Payments : RowOK(p) /\ CancelKnows(p)
    BY DEF Init, StoreInit, ApiInit, Absent, RowOK, CancelKnows
  <1>2. \A w \in Slots : RunKnows(w)
    BY DEF Init, WorkerInit, Idle, RunKnows, Calling
  <1>3. /\ \A r \in RetrySlots : RetryKnows(r)
        /\ \A h \in Hooks : HookKnows(h)
    BY DEF Init, RetryInit, RetryIdle, HookInit, HookIdle, RetryKnows,
           HookKnows
  <1> QED BY <1>1, <1>2, <1>3 DEF KnowInv

LEMMA NextKnow == TypeInv /\ TypeInv' /\ KnowInv /\ [Next]_vars => KnowInv'
  BY RowsStayOK, RunsStayKnowing, OthersStayKnowing DEF KnowInv

(* What every holder of a version may rely on, with locks that lapse and   *)
(* jobs that are redelivered alive; and the trail has an entry for every   *)
(* version of the row and ends in its status.                              *)
THEOREM VersionsAreKnowledge == Spec => []KnowInv
  BY TypesInvariant, InitKnow, NextKnow, PTL DEF Spec
=============================================================================
