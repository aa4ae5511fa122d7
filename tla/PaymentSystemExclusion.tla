----------------------- MODULE PaymentSystemExclusion -----------------------
(***************************************************************************)
(* What holds while every job has one run, and every payment one critical  *)
(* section.  The theorems of this module have a hypothesis: ~LiveStalls, a *)
(* job is redelivered only when its run is gone (the process that ran it   *)
(* died), ~LockLapses, a key expires only when its critical section is     *)
(* over (the TTL is long enough), or both.  KeysAreKept and KeysAreNotLeft *)
(* need neither.                                                           *)
(***************************************************************************)
EXTENDS PaymentSystemCalls

(* A run holds the job it works on.                                        *)
HoldsJob(w) ==
    LET j == job[ProcessJob(run[w].pay)] IN j.state = "active" /\ j.owner = w

OwnInv == \A w \in Slots : run[w].pc # "idle" => HoldsJob(w)

(* A run stays with its payment, and its job with it.                      *)
StaysWithJob(w) ==
    /\ run'[w].pay = run[w].pay
    /\ job'[ProcessJob(run[w].pay)] = job[ProcessJob(run[w].pay)]

OwnMove(w) ==
    \/ run'[w].pc = "idle"
    \/ run[w].pc # "idle" /\ StaysWithJob(w)
    \/ run[w].pc = "idle" /\ HoldsJob(w)'

(* A change of a job that is not active, or of a retry job, leaves the job *)
(* of every run alone.                                                     *)
LEMMA OtherJobs ==
    ASSUME TypeInv, OwnInv, NEW id \in JobIds, NEW state, NEW owner,
           NEW stalls, Become(id, state, owner, stalls),
           NEW w \in Slots, run[w].pc # "idle",
           id = ProcessJob(run[w].pay) =>
              job[id].state # "active" \/ job[id].owner # w
    PROVE  job'[ProcessJob(run[w].pay)] = job[ProcessJob(run[w].pay)]
  <1>1. id # ProcessJob(run[w].pay)
    BY DEF OwnInv, HoldsJob
  <1>2. ProcessJob(run[w].pay) \in JobIds
    BY DEF TypeInv, RunsOK, RunOK, JobIds, ProcessJobs
  <1> QED BY <1>1, <1>2 DEF Become, TypeInv, QueueTypeOK

LEMMA JobIdsDiffer ==
    ASSUME NEW p \in Payments, NEW q, NEW a
    PROVE  /\ ProcessJob(p) \in JobIds
           /\ ProcessJob(p) = ProcessJob(q) => p = q
           /\ ProcessJob(q) # RetryJob(p, a)
  BY DEF ProcessJob, RetryJob, JobIds, ProcessJobs

LEMMA RetryJobIsJob ==
    ASSUME NEW p \in Payments, NEW a \in 1..MaxRetries
    PROVE  RetryJob(p, a) \in JobIds
  BY DEF JobIds, RetryJobs

(* The steps that move a run: one at a time, and only the first and the    *)
(* last change its job.                                                    *)
LEMMA WorkersKeepJobs ==
    ASSUME TypeInv, OwnInv, NEW v \in Slots, Worker(v), NEW w \in Slots
    PROVE  OwnMove(w)
  <1>r. run \in [Slots -> RunType] /\ job \in [JobIds -> JobType]
    BY DEF TypeInv, RunsOK, QueueTypeOK
  <1>g. ASSUME NEW next, Goto(v, next)
        PROVE  /\ run'[v] = next
               /\ w # v => run'[w] = run[w]
    BY <1>g, GotoMoves
  <1>n. \A pc, ver, result, attempt :
           Local(v, pc, ver, result, attempt).pay = run[v].pay
    BY LocalFields
  <1>1. CASE \E p \in Payments : TakeProcessJob(v, p)
    <2>1. PICK p \in Payments : TakeProcessJob(v, p)
      BY <1>1
    <2> DEFINE id == ProcessJob(p)
    <2>2. /\ run[v].pc = "idle" /\ run'[v].pay = p
          /\ job[id].state = "waiting" /\ id \in JobIds
          /\ Become(id, "active", v, job[id].stalls)
          /\ w # v => run'[w] = run[w]
      BY <2>1, <1>g, JobIdsDiffer DEF TakeProcessJob, At, Take
    <2>3. job'[id].state = "active" /\ job'[id].owner = v
      BY <1>r, <2>2 DEF Become
    <2>4. CASE w = v
      BY <2>2, <2>3, <2>4 DEF OwnMove, HoldsJob
    <2>5. CASE w # v
      BY <2>2, <2>5, OtherJobs DEF OwnMove, StaysWithJob
    <2> QED BY <2>4, <2>5
  <1>2. CASE FinishProcessJob(v)
    <2> DEFINE id == ProcessJob(run[v].pay)
    <2>1. /\ run[v].pc # "idle" /\ run'[v].pc = "idle" /\ Finish(id, v)
          /\ w # v => run'[w] = run[w]
      BY <1>2, <1>g DEF FinishProcessJob, Settled, Idle
    <2>2. id \in JobIds
      BY <2>1, JobIdsDiffer DEF TypeInv, RunsOK, RunOK
    <2>3. CASE w # v /\ run[w].pc # "idle"
      <3>1. /\ job[id].owner = v
            /\ Become(id, "finished", None, job[id].stalls)
        BY <2>1, <2>2 DEF Finish, OwnInv, HoldsJob
      <3> QED BY <2>1, <2>2, <2>3, <3>1, OtherJobs
              DEF OwnMove, StaysWithJob
    <2> QED BY <2>1, <2>3 DEF OwnMove
  <1>3. CASE EnqueueRetry(v)
    <2> DEFINE id == RetryJob(run[v].pay, run[v].attempt + 1)
    <2>1. /\ run[v].pc # "idle" /\ run'[v].pay = run[v].pay /\ Add(id)
          /\ w # v => run'[w] = run[w]
      BY <1>3, <1>g, <1>n
      DEF EnqueueRetry, At, Returns, Thrown, Ends
    <2>2. run[w].pc # "idle" =>
             job'[ProcessJob(run[w].pay)] = job[ProcessJob(run[w].pay)]
      BY <1>r, <2>1, JobIdsDiffer
      DEF Add, Become, TypeInv, RunsOK, RunOK
    <2> QED BY <2>1, <2>2 DEF OwnMove, StaysWithJob
  <1>4. CASE /\ UNCHANGED job /\ run[v].pc # "idle"
             /\ \E pc, ver, result, attempt :
                   Goto(v, Local(v, pc, ver, result, attempt))
    BY <1>4, <1>g, <1>n DEF OwnMove, StaysWithJob
  <1>5. ASSUME WorkerStep(v) \/ CallFails(v),
               ~\E p \in Payments : TakeProcessJob(v, p),
               ~FinishProcessJob(v), ~EnqueueRetry(v)
        PROVE  /\ UNCHANGED job /\ run[v].pc # "idle"
               /\ \E pc, ver, result, attempt :
                     Goto(v, Local(v, pc, ver, result, attempt))
    BY <1>5
    DEF WorkerStep, CallFails, AcquireLock, FetchPayment, BeginProcessing,
        GatewayAnswers, BreakerRejects, RecordResponse, MarkSuccess,
        MarkPending, MarkFailed, Recheck, GiveUp, Release, Triage, Exhaust,
        Reread, ScheduleRetry, Transition, Returns, Throws, Thrown, Ends, At,
        InLock, InTriage
  <1> QED BY <1>1, <1>2, <1>3, <1>4, <1>5 DEF Worker

(* Nobody else touches a job that is active and whose run works.           *)
LEMMA OthersKeepJobs ==
    ASSUME ~LiveStalls, TypeInv, OwnInv, [Next]_vars,
           ~\E w \in Slots : Worker(w), NEW w \in Slots
    PROVE  OwnMove(w)
  <1> DEFINE id == ProcessJob(run[w].pay)
  <1>s. SUFFICES ASSUME run[w].pc # "idle", run'[w].pc # "idle"
                 PROVE  run'[w].pay = run[w].pay /\ job'[id] = job[id]
    <2>1. run'[w].pc = "idle" \/ run'[w] = run[w]
      <3>1. CASE \E dead \in SUBSET Tasks, clients \in SUBSET Payments :
                    Crash(dead, clients)
        BY <3>1 DEF Crash, Idle
      <3>2. UNCHANGED run => run'[w] = run[w]
        OBVIOUS
      <3> QED BY <3>1, <3>2
          DEF Next, vars, workerVars, Api, Retry, Webhook, Send, ExpireLock,
              RedeliverJob, EvictJob
    <2> QED BY <2>1 DEF OwnMove, StaysWithJob
  <1>a. run'[w] = run[w]
    <2>1. CASE \E dead \in SUBSET Tasks, clients \in SUBSET Payments :
                  Crash(dead, clients)
      BY <1>s, <2>1 DEF Crash, Idle
    <2>2. UNCHANGED run => run'[w] = run[w]
      OBVIOUS
    <2> QED BY <2>1, <2>2
        DEF Next, vars, workerVars, Api, Retry, Webhook, Send, ExpireLock,
            RedeliverJob, EvictJob
  <1>b. /\ job \in [JobIds -> JobType] /\ run[w].pay \in Payments
        /\ job[id].state = "active" /\ job[id].owner = w
    BY <1>s DEF TypeInv, QueueTypeOK, RunsOK, RunOK, OwnInv, HoldsJob
  <1>c. ASSUME NEW other \in JobIds, NEW state, NEW owner, NEW stalls,
               Become(other, state, owner, stalls),
               other = id => job[id].state # "active"
        PROVE  job'[id] = job[id]
    BY <1>b, <1>c DEF Become
  <1>d. ASSUME NEW p \in Payments, Add(ProcessJob(p))
        PROVE  job'[id] = job[id]
    BY <1>b, <1>c, <1>d, JobIdsDiffer DEF Add
  <1>1. ASSUME NEW p \in Payments, Api(p) PROVE job'[id] = job[id]
    BY <1>1, <1>d
    DEF Api, ApiStep, CreatePayment, EnqueuePayment, ReadForCancel,
        CancelPayment
  <1>2. ASSUME NEW r \in RetrySlots, Retry(r) PROVE job'[id] = job[id]
    <2> DEFINE p == retrying[r].pay
               a == retrying[r].attempt
    <2>1. CASE \E q \in Payments, n \in 1..MaxRetries : TakeRetryJob(r, q, n)
      <3>1. PICK q \in Payments, n \in 1..MaxRetries : TakeRetryJob(r, q, n)
        BY <2>1
      <3>2. Become(RetryJob(q, n), "active", r, job[RetryJob(q, n)].stalls)
        BY <3>1 DEF TakeRetryJob, Take
      <3> QED BY <1>c, <3>2, JobIdsDiffer, RetryJobIsJob
    <2>2. CASE EnqueueAgain(r)
      BY <1>d, <2>2 DEF EnqueueAgain, TypeInv, RetriesOK, RetryOK
    <2>3. CASE FinishRetryJob(r)
      <3>1. p \in Payments /\ a \in 1..MaxRetries
        BY <2>3 DEF FinishRetryJob, TypeInv, RetriesOK, RetryOK
      <3>2. Finish(RetryJob(p, a), r)
        BY <2>3 DEF FinishRetryJob
      <3> QED BY <1>c, <3>1, <3>2, JobIdsDiffer, RetryJobIsJob DEF Finish
    <2> QED BY <1>2, <2>1, <2>2, <2>3
            DEF Retry, RetryStep, RetryCallFails, ReadForRetry, Requeue
  <1>3. ASSUME NEW other \in JobIds, RedeliverJob(other)
        PROVE  job'[id] = job[id]
    <2>1. ~RunsJob(job[other].owner, other) /\ Stall(other)
      BY <1>3 DEF RedeliverJob
    <2>2. other # id
      BY <1>b, <1>s, <2>1 DEF RunsJob
    <2> QED BY <1>c, <2>1, <2>2 DEF Stall
  <1>4. ASSUME NEW other \in JobIds, EvictJob(other)
        PROVE  job'[id] = job[id]
    BY <1>4, <1>c DEF EvictJob, Evict
  <1>5. UNCHANGED job => job'[id] = job[id]
    OBVIOUS
  <1>6. job'[id] = job[id]
    BY <1>1, <1>2, <1>3, <1>4, <1>5
    DEF Next, vars, Webhook, Send, ExpireLock, Crash
  <1> QED BY <1>a, <1>6

LEMMA InitOwn == Init => OwnInv
  BY DEF Init, WorkerInit, Idle, OwnInv

LEMMA NextOwn ==
    ASSUME ~LiveStalls, TypeInv, OwnInv, [Next]_vars
    PROVE  OwnInv'
  <1>1. \A w \in Slots : OwnMove(w)
    BY WorkersKeepJobs, OthersKeepJobs
  <1> QED BY <1>1 DEF OwnMove, OwnInv, HoldsJob, StaysWithJob

(* So a payment has one run.                                               *)
LEMMA OneRun ==
    ASSUME OwnInv, NEW v \in Slots, NEW w \in Slots, run[v].pc # "idle",
           run[w].pc # "idle", run[v].pay = run[w].pay
    PROVE  v = w
  BY DEF OwnInv, HoldsJob
-----------------------------------------------------------------------------
(* While a payment has one run, that run can rely on what it has read: the *)
(* payment it is about to give up on is still FAILED, and the payment it   *)
(* is about to retry still has the retry count that was tested.            *)
RunIsCurrent(w) ==
    LET current == row[run[w].pay]
    IN  /\ run[w].pc \in {"recheck", "giveUp"} => current.status = "FAILED"
        /\ run[w].pc \in {"reread", "schedule"} =>
              /\ run[w].attempt = current.retryCount
              /\ current.retryCount < MaxRetries

HistInv ==
    /\ OwnInv /\ TrailIsHistory /\ RetryBudget
    /\ \A w \in Slots : RunIsCurrent(w)

(* Then every update makes the transition it claims, and the claim is      *)
(* valid.                                                                  *)
LEMMA UpdatesAreValid ==
    ASSUME TypeInv, KnowInv, HistInv, NEW p \in Payments, NEW from, NEW to,
           NEW by, Update(p, from, to, by)
    PROVE  row[p].status = from /\ IsValidStateTransition(from, to)
  <1>1. GivesUpBlindly(p, from, to, by) => row[p].status = from
    BY DEF GivesUpBlindly, HistInv, RunIsCurrent
  <1>2. IsValidStateTransition("FAILED", "PERMANENTLY_FAILED")
    BY DEF IsValidStateTransition, ValidTransitions
  <1> QED BY <1>1, <1>2, UpdatesAreHonest DEF GivesUpBlindly

(* An update of a FAILED payment is made by its run.                       *)
LEMMA FailedUpdates ==
    ASSUME TypeInv, KnowInv, HistInv, NEW p \in Payments, NEW from, NEW to,
           NEW by, Update(p, from, to, by),
           row[p].status = "FAILED" \/ to = "RETRY_SCHEDULED"
    PROVE  \E w \in Slots :
              /\ run[w].pay = p
              /\ run[w].pc \in {"giveUp", "exhaust", "schedule"}
              /\ to = "RETRY_SCHEDULED" <=> run[w].pc = "schedule"
  <1>1. /\ row[p].status = from /\ IsValidStateTransition(from, to)
    BY UpdatesAreValid
  <1>2. from = "FAILED"
    BY <1>1 DEF IsValidStateTransition, ValidTransitions
  <1>3. PICK w \in Slots : RunUpdate(w, p, from, to, by)
    <2>1. ASSUME NEW h \in Hooks, HookUpdate(h, p, from, to, by)
          PROVE  FALSE
      BY <1>1, <1>2, <2>1
      DEF HookUpdate, TargetStatus, IsValidStateTransition, ValidTransitions
    <2> QED BY <1>2, <2>1 DEF Update, RetryUpdate, CancelUpdate
  <1> QED BY <1>2, <1>3 DEF RunUpdate, RunUpdates

(* What a working run has read of a FAILED payment does not change under   *)
(* it: only the run itself updates the payment.                            *)
LEMMA RunsAreAlone ==
    ASSUME TypeInv, KnowInv, HistInv, [Next]_vars, NEW w \in Slots,
           run'[w] = run[w], run[w].pc # "idle", NEW p, run[w].pay = p
    PROVE  /\ row[p].status = "FAILED" => row'[p] = row[p]
           /\ row[p].status # "ABSENT" =>
                 row'[p].retryCount = row[p].retryCount
  <1>1. p \in Payments /\ row[p].retryCount \in Nat
    BY DEF TypeInv, StoreTypeOK, RowType, RunsOK, RunOK
  <1>2. RowMove(p)
    BY <1>1, RowMoves
  <1>3. ASSUME NEW from, NEW to, NEW by, Update(p, from, to, by),
               row[p].status = "FAILED" \/ to = "RETRY_SCHEDULED"
        PROVE  FALSE
    <2>1. /\ row[p].status = from /\ IsValidStateTransition(from, to)
      BY <1>1, <1>3, UpdatesAreValid
    <2>2. from = "FAILED"
      BY <1>3, <2>1 DEF IsValidStateTransition, ValidTransitions
    <2>3. ~\E h \in Hooks : HookUpdate(h, p, from, to, by)
      BY <2>1, <2>2
      DEF HookUpdate, TargetStatus, IsValidStateTransition, ValidTransitions
    <2>4. PICK v \in Slots : RunUpdate(v, p, from, to, by)
      BY <1>3, <2>2, <2>3 DEF Update, RetryUpdate, CancelUpdate
    <2>5. run[v].pc # "idle" /\ run[v].pay = p /\ run'[v] # run[v]
      BY <2>4 DEF RunUpdate, RunUpdates
    <2> QED BY <2>5, OneRun DEF HistInv
  <1>4. CASE Kept(p)
    BY <1>4 DEF Kept
  <1>5. CASE Born(p)
    BY <1>5 DEF Born, Absent
  <1>6. ASSUME NEW from, NEW to, NEW by, Moved(p, from, to, by),
               Update(p, from, to, by)
        PROVE  /\ row[p].status # "FAILED"
               /\ row'[p].retryCount = row[p].retryCount
    BY <1>1, <1>3, <1>6 DEF Moved
  <1> QED BY <1>2, <1>4, <1>5, <1>6 DEF RowMove

LEMMA RunsStayCurrent ==
    ASSUME TypeInv, TypeInv', KnowInv, HistInv, [Next]_vars, NEW w \in Slots
    PROVE  RunIsCurrent(w)'
  <1> DEFINE p == run[w].pay
  <1>n. {"recheck", "giveUp", "reread", "schedule"} \subseteq Knowing
    BY DEF Knowing
  <1>1. RunMove(w) /\ RunIsCurrent(w) /\ RunKnows(w)
    BY RunMoves DEF HistInv, KnowInv
  <1>2. CASE run'[w].pc \notin {"recheck", "giveUp", "reread", "schedule"}
    BY <1>2 DEF RunIsCurrent
  <1>3. CASE /\ run'[w] = run[w]
             /\ run[w].pc \in {"recheck", "giveUp", "reread", "schedule"}
    <2>1. /\ row[p].status = "FAILED" => row'[p] = row[p]
          /\ row[p].status # "ABSENT" =>
                row'[p].retryCount = row[p].retryCount
      BY <1>3, RunsAreAlone
    <2>2. CASE run[w].pc \in {"recheck", "giveUp"}
      BY <1>1, <1>3, <2>1, <2>2 DEF RunIsCurrent
    <2>3. CASE run[w].pc \in {"reread", "schedule"}
      <3>1. p \in Payments
        BY <1>3 DEF TypeInv, RunsOK, RunOK
      <3>2. CASE row[p].status = "ABSENT"
        <4>1. RowMove(p)
          BY <3>1, RowMoves
        <4>2. ASSUME NEW from, NEW to, NEW by, Update(p, from, to, by)
              PROVE  FALSE
          BY <3>1, <3>2, <4>2, UpdatesAreHonest
        <4>3. row[p] = Absent => row[p].retryCount = 0
          BY DEF Absent
        <4>4. row'[p].retryCount = row[p].retryCount
          BY <4>1, <4>2, <4>3 DEF RowMove, Kept, Born
        <4> QED BY <1>1, <1>3, <2>3, <4>4 DEF RunIsCurrent
      <3>3. CASE row[p].status # "ABSENT"
        BY <1>1, <1>3, <2>1, <2>3, <3>3 DEF RunIsCurrent
      <3> QED BY <3>2, <3>3
    <2> QED BY <1>3, <2>2, <2>3
  <1>4. CASE /\ Advance(w, "markFailed", "recheck")
             /\ Moved(p, "PROCESSING", "FAILED", "service")
    BY <1>4 DEF Advance, Moved, RunIsCurrent
  <1>5. CASE Advance(w, "recheck", "giveUp") /\ ReadsVersion(w)
    BY <1>1, <1>5 DEF Advance, ReadsVersion, Kept, RunIsCurrent
  <1>6. CASE /\ Advance(w, "triage", "reread") /\ Kept(p)
             /\ run'[w].attempt = row[p].retryCount
             /\ row[p].retryCount < MaxRetries
    BY <1>6 DEF Advance, Kept, RunIsCurrent
  <1>7. CASE /\ Advance(w, "reread", "schedule") /\ ReadsVersion(w)
             /\ run'[w].attempt = run[w].attempt
    BY <1>1, <1>7 DEF Advance, ReadsVersion, Kept, RunIsCurrent
  <1>8. CASE run'[w].pc = "recheck"
    BY <1>1, <1>n, <1>3, <1>4, <1>8 DEF RunMove, Advance, AfterRecord
  <1>9. CASE run'[w].pc = "giveUp"
    BY <1>1, <1>n, <1>3, <1>5, <1>9 DEF RunMove, Advance, AfterRecord
  <1>10. CASE run'[w].pc = "reread"
    BY <1>1, <1>n, <1>3, <1>6, <1>10 DEF RunMove, Advance, AfterRecord
  <1>11. CASE run'[w].pc = "schedule"
    BY <1>1, <1>n, <1>3, <1>7, <1>11 DEF RunMove, Advance, AfterRecord
  <1> QED BY <1>2, <1>8, <1>9, <1>10, <1>11

LEMMA TrailsStayHistory ==
    ASSUME TypeInv, TypeInv', KnowInv, KnowInv', HistInv, [Next]_vars,
           NEW p \in Payments, NEW i \in 2..Len(trail'[p])
    PROVE  /\ trail'[p][i].from = trail'[p][i - 1].to
           /\ IsValidStateTransition(trail'[p][i].from, trail'[p][i].to)
  <1>1. /\ RowMove(p) /\ RowOK(p) /\ trail[p] \in Seq(TrailType)
        /\ row[p].version \in Nat
    BY RowMoves DEF KnowInv, TypeInv, StoreTypeOK, RowType
  <1>2. CASE /\ i \in 2..Len(trail[p]) /\ trail'[p][i] = trail[p][i]
             /\ trail'[p][i - 1] = trail[p][i - 1]
    BY <1>2 DEF HistInv, TrailIsHistory
  <1>3. CASE Born(p)
    <2>1. i = 2 /\ trail'[p][1].to = "CREATED"
          /\ trail'[p][2].from = "CREATED" /\ trail'[p][2].to = "PENDING"
      BY <1>3 DEF Born
    <2> QED BY <2>1 DEF IsValidStateTransition, ValidTransitions
  <1>4. ASSUME NEW from, NEW to, NEW by, Moved(p, from, to, by),
               Update(p, from, to, by)
        PROVE  /\ trail'[p][i].from = trail'[p][i - 1].to
               /\ IsValidStateTransition(trail'[p][i].from, trail'[p][i].to)
    <2> DEFINE entry == [from |-> from, to |-> to, by |-> by]
               n == Len(trail[p])
    <2>1. /\ entry.from = from /\ entry.to = to
          /\ trail'[p] = Append(trail[p], entry)
      BY <1>4 DEF Moved
    <2> HIDE DEF entry
    <2>2. row[p].status = from /\ IsValidStateTransition(from, to)
      BY <1>4, UpdatesAreValid
    <2>3. CASE i = n + 1
      <3>1. n >= 1 /\ trail[p][n].to = row[p].status
        BY <1>1, <1>4, <2>3, <2>1, UpdatesAreHonest DEF RowOK, LastOf
      <3>2. trail'[p][i] = entry /\ trail'[p][i - 1] = trail[p][n]
        BY <1>1, <2>1, <2>3, <3>1
      <3> QED BY <2>1, <2>2, <3>1, <3>2
    <2>4. CASE i # n + 1
      <3>1. i \in 2..n /\ trail'[p][i] = trail[p][i]
            /\ trail'[p][i - 1] = trail[p][i - 1]
        BY <1>1, <2>1, <2>4
      <3> QED BY <1>2, <3>1
    <2> QED BY <2>3, <2>4
  <1> QED BY <1>1, <1>2, <1>3, <1>4 DEF RowMove, Kept

LEMMA BudgetsHold ==
    ASSUME TypeInv, TypeInv', KnowInv, HistInv, [Next]_vars,
           NEW p \in Payments
    PROVE  row'[p].retryCount <= MaxRetries
  <1>1. /\ RowMove(p) /\ row[p].retryCount \in Nat
        /\ row[p].retryCount <= MaxRetries
    BY RowMoves DEF HistInv, RetryBudget, TypeInv, StoreTypeOK, RowType
  <1>2. ASSUME NEW to, NEW from, NEW by, Moved(p, from, to, by),
               Update(p, from, to, by)
        PROVE  row'[p].retryCount <= MaxRetries
    <2>1. CASE to = "RETRY_SCHEDULED"
      <3>1. row[p].retryCount < MaxRetries
        BY <1>2, <2>1, FailedUpdates DEF HistInv, RunIsCurrent
      <3> QED BY <1>1, <1>2, <2>1, <3>1, StoreAssumption DEF Moved
    <2>2. CASE to # "RETRY_SCHEDULED"
      BY <1>1, <1>2, <2>2 DEF Moved
    <2> QED BY <2>1, <2>2
  <1> QED BY <1>1, <1>2, StoreAssumption DEF RowMove, Kept, Born

LEMMA InitHist == Init => HistInv
  <1> SUFFICES ASSUME Init PROVE HistInv
    OBVIOUS
  <1>1. TrailIsHistory /\ RetryBudget
    BY StoreAssumption DEF Init, StoreInit, Absent, TrailIsHistory,
                           RetryBudget
  <1>2. \A w \in Slots : RunIsCurrent(w)
    BY DEF Init, WorkerInit, Idle, RunIsCurrent
  <1> QED BY <1>1, <1>2, InitOwn DEF HistInv

LEMMA NextHist ==
    ASSUME ~LiveStalls, TypeInv, TypeInv', KnowInv, KnowInv', HistInv,
           [Next]_vars
    PROVE  HistInv'
  <1>1. OwnInv'
    BY NextOwn DEF HistInv
  <1>2. TrailIsHistory'
    BY TrailsStayHistory DEF TrailIsHistory, KnowInv, RowOK, LastOf
  <1>3. RetryBudget'
    BY BudgetsHold DEF RetryBudget
  <1> QED BY <1>1, <1>2, <1>3, RunsStayCurrent DEF HistInv

(* While a job has one run, HistInv is an invariant.                       *)
LEMMA HistoryInvariant ==
    ASSUME ~LiveStalls
    PROVE  Spec => []HistInv
  <1>1. TypeInv /\ TypeInv' /\ KnowInv /\ KnowInv' /\ HistInv /\ [Next]_vars
           => HistInv'
    BY NextHist
  <1> QED BY <1>1, TypesInvariant, VersionsAreKnowledge, InitHist, PTL
          DEF Spec

(* The audit trail of a payment is its history, as long as no job is       *)
(* redelivered under a run that still works: the only update that claims a *)
(* status it has not seen with its version is that of a run that gives up, *)
(* and one run leaves it nothing to get wrong.                             *)
THEOREM TrailsAreHistory ==
    ASSUME ~LiveStalls
    PROVE  Spec => []TrailIsHistory
  <1>1. HistInv => TrailIsHistory
    BY DEF HistInv
  <1> QED BY <1>1, HistoryInvariant, PTL

(* scheduleRetry never exceeds the retry budget it does not test, as long  *)
(* as no job is redelivered under a run that still works.                  *)
THEOREM RetriesAreBounded ==
    ASSUME ~LiveStalls
    PROVE  Spec => []RetryBudget
  <1>1. HistInv => RetryBudget
    BY DEF HistInv
  <1> QED BY <1>1, HistoryInvariant, PTL

(* Every change of a status is a valid transition, as long as no job is    *)
(* redelivered under a run that still works.                               *)
THEOREM MovesAreValid ==
    ASSUME ~LiveStalls
    PROVE  Spec => StatusMovesAreValid
  <1> DEFINE Valid ==
        \A p \in Payments :
          row[p].status \notin {"ABSENT", row'[p].status} =>
              IsValidStateTransition(row[p].status, row'[p].status)
  <1>1. TypeInv /\ KnowInv /\ HistInv /\ [Next]_vars => [Valid]_vars
    <2> SUFFICES ASSUME TypeInv, KnowInv, HistInv, [Next]_vars,
                        NEW p \in Payments, row[p].status # "ABSENT",
                        row'[p].status # row[p].status
                 PROVE  IsValidStateTransition(row[p].status, row'[p].status)
      OBVIOUS
    <2>1. PICK from, to, by : Moved(p, from, to, by)
                              /\ Update(p, from, to, by)
      BY RowMoves DEF RowMove, Kept, Born, Absent
    <2> QED BY <2>1, UpdatesAreValid DEF Moved
  <1>2. [][Valid]_vars => StatusMovesAreValid
    BY DEF StatusMovesAreValid
  <1> HIDE DEF Valid
  <1> QED BY <1>1, <1>2, TypesInvariant, VersionsAreKnowledge,
             HistoryInvariant, PTL DEF Spec
-----------------------------------------------------------------------------
(* A task in the critical section of a payment holds its lock: it entered  *)
(* when the lock was free and took it, and nobody takes it away.           *)
LockTasks == Slots \cup Hooks

LockInv ==
    \A p \in Payments : \A t \in LockTasks : InCritical(t, p) => lock[p] = t

LockMove(t, p) ==
    /\ InCritical(t, p)' => InCritical(t, p) \/ lock'[p] = t
    /\ lock[p] = t => lock'[p] = t \/ ~InCritical(t, p)'

(* A step of a run or a webhook request that does not change any lock.     *)
LEMMA LocksStay ==
    ASSUME UNCHANGED lock, NEW t \in LockTasks, NEW p \in Payments,
           InCritical(t, p)' => InCritical(t, p)
    PROVE  LockMove(t, p)
  BY DEF LockMove

LEMMA TasksDiffer ==
    ASSUME NEW w \in Slots, NEW h \in Hooks
    PROVE  w # h /\ w \notin Hooks /\ h \notin Slots /\ w # None /\ h # None
  BY TasksAssumption DEF Tasks

LEMMA WorkersKeepLocks ==
    ASSUME TypeInv, NEW w \in Slots, Worker(w), NEW t \in LockTasks,
           NEW p \in Payments
    PROVE  LockMove(t, p)
  <1> USE DEF LockTasks
  <1>t. lock \in [Payments -> Slots \cup Hooks \cup {None}]
    BY DEF TypeInv, LockTypeOK
  <1>h. UNCHANGED hook
    BY DEF Worker
  <1>g. ASSUME NEW next, Goto(w, next)
        PROVE  /\ run'[w] = next
               /\ \A v \in Slots : v # w => run'[v] = run[v]
    BY <1>g, GotoMoves
  <1>n. \A pc, ver, result, attempt :
           /\ Local(w, pc, ver, result, attempt).pc = pc
           /\ Local(w, pc, ver, result, attempt).pay = run[w].pay
    BY LocalFields
  <1>o. ASSUME t # w, \A v \in Slots : v # w => run'[v] = run[v]
        PROVE  InCritical(t, p)' <=> InCritical(t, p)
    BY <1>h, <1>o DEF InCritical
  <1>w. InCritical(w, p) <=> run[w].pay = p /\ run[w].pc \in InLock
    BY TasksDiffer DEF InCritical
  <1>v. InCritical(w, p)' <=> run'[w].pay = p /\ run'[w].pc \in InLock
    BY TasksDiffer DEF InCritical
  <1>1. CASE AcquireLock(w)
    <2> DEFINE q == run[w].pay
    <2>1. q \in Payments
      BY <1>1 DEF AcquireLock, At, TypeInv, RunsOK, RunOK
    <2>2. PICK next : Goto(w, next) /\ next.pay = q
                      /\ (~LockFree(q) => next.pc = "triage")
      BY <1>1, <1>n
      DEF AcquireLock, Returns, Throws, Thrown, Ends, At, Handler
    <2>3. CASE LockFree(q)
      <3>1. lock' = [lock EXCEPT ![q] = w] /\ lock[q] = None
        BY <1>1, <2>3 DEF AcquireLock, SetLock, LockFree
      <3>2. p = q => lock[p] # t
        BY <3>1, TasksAssumption DEF Tasks
      <3>3. p # q => lock'[p] = lock[p]
        BY <1>t, <3>1
      <3>4. CASE t = w
        <4>1. InCritical(w, p)' => p = q
          BY <1>g, <1>v, <2>2
        <4> QED BY <1>t, <2>1, <3>1, <3>2, <3>3, <3>4, <4>1 DEF LockMove
      <3>5. CASE t # w
        BY <1>g, <1>o, <2>2, <3>2, <3>3, <3>5 DEF LockMove
      <3> QED BY <3>4, <3>5
    <2>4. CASE ~LockFree(q)
      <3>1. UNCHANGED lock
        BY <1>1, <2>4 DEF AcquireLock
      <3>2. InCritical(t, p)' => InCritical(t, p)
        BY <1>g, <1>o, <1>v, <2>2, <2>4 DEF InLock
      <3> QED BY <3>1, <3>2, LocksStay
    <2> QED BY <2>3, <2>4
  <1>2. CASE Release(w)
    <2> DEFINE q == run[w].pay
    <2>1. PICK next : Goto(w, next) /\ next.pc \in {"triage", "complete"}
      BY <1>2, <1>n DEF Release, Returns, Thrown, Ends, Handler
    <2>2. ~InCritical(w, p)'
      BY <1>g, <1>v, <2>1 DEF InLock
    <2>3. t # w => (InCritical(t, p)' <=> InCritical(t, p))
                   /\ (lock[p] = t => lock'[p] = t)
      BY <1>g, <1>o, <1>t, <1>2, <2>1 DEF Release, ReleaseLock
    <2> QED BY <2>2, <2>3 DEF LockMove
  <1>3. CASE WorkerStep(w) \/ CallFails(w)
    <2> SUFFICES ASSUME ~AcquireLock(w), ~Release(w)
                 PROVE  /\ UNCHANGED lock
                        /\ \E next : /\ Goto(w, next)
                                     /\ next.pc \in InLock =>
                                           /\ run[w].pc \in InLock
                                           /\ next.pay = run[w].pay
      <3>1. ASSUME UNCHANGED lock, NEW next, Goto(w, next),
                   next.pc \in InLock => /\ run[w].pc \in InLock
                                         /\ next.pay = run[w].pay
            PROVE  LockMove(t, p)
        BY <1>g, <1>o, <1>v, <1>w, <3>1, LocksStay
      <3> QED BY <1>1, <1>2, <3>1
    <2>t. /\ Thrown(w).pay = run[w].pay
          /\ run[w].pc # "acquire" /\ Thrown(w).pc \in InLock
                => run[w].pc \in InLock
      BY <1>n DEF Thrown, Ends, Handler, InLock
    <2>1. CASE \/ FetchPayment(w) \/ BeginProcessing(w)
               \/ GatewayAnswers(w) \/ BreakerRejects(w)
               \/ RecordResponse(w)
               \/ MarkSuccess(w) \/ MarkPending(w) \/ MarkFailed(w)
               \/ Recheck(w) \/ GiveUp(w)
      <3>1. run[w].pc \in InLock
        BY <2>1
        DEF FetchPayment, BeginProcessing, GatewayAnswers, BreakerRejects,
            RecordResponse, MarkSuccess, MarkPending, MarkFailed, Recheck,
            GiveUp, At, InLock
      <3>2. /\ UNCHANGED lock
            /\ \E pc, ver, result, attempt :
                  Goto(w, Local(w, pc, ver, result, attempt))
        BY <2>1
        DEF FetchPayment, BeginProcessing, GatewayAnswers, BreakerRejects,
            RecordResponse, MarkSuccess, MarkPending, MarkFailed, Recheck,
            GiveUp, Transition, Returns, Throws, Thrown, Ends
      <3> QED BY <1>n, <3>1, <3>2
    <2>2. CASE \/ Triage(w) \/ Exhaust(w) \/ Reread(w) \/ ScheduleRetry(w)
               \/ EnqueueRetry(w)
      <3>1. run[w].pc \in InTriage
        BY <2>2
        DEF Triage, Exhaust, Reread, ScheduleRetry, EnqueueRetry, At,
            InTriage
      <3>2. Thrown(w).pc = "reject"
        BY <1>n, <3>1 DEF Thrown, Ends, Handler, InTriage, InLock
      <3>3. /\ UNCHANGED lock
            /\ \E next : Goto(w, next) /\ next.pc \notin InLock
        BY <1>n, <2>2, <3>2
        DEF Triage, Exhaust, Reread, ScheduleRetry, EnqueueRetry,
            Transition, Returns, Throws, Ends, InLock
      <3> QED BY <3>3
    <2>3. CASE CallFails(w)
      <3>1. UNCHANGED lock /\ Goto(w, Thrown(w))
        BY <2>3 DEF CallFails
      <3>2. run[w].pc = "acquire" => Thrown(w).pc \notin InLock
        BY <1>n DEF Thrown, Ends, Handler, InLock
      <3> QED BY <2>t, <3>1, <3>2
    <2>4. CASE \E q \in Payments : TakeProcessJob(w, q)
      <3>1. PICK q \in Payments : TakeProcessJob(w, q)
        BY <2>4
      <3> DEFINE next == [pc |-> "acquire", pay |-> q, ver |-> 0,
                          result |-> None, attempt |-> 0]
      <3>2. UNCHANGED lock /\ Goto(w, next)
        BY <3>1 DEF TakeProcessJob
      <3>3. next.pc \notin InLock
        BY DEF InLock
      <3> QED BY <3>2, <3>3
    <2>5. CASE FinishProcessJob(w)
      <3>1. UNCHANGED lock /\ Goto(w, Idle)
        BY <2>5 DEF FinishProcessJob
      <3> QED BY <3>1 DEF Idle, InLock
    <2> QED BY <1>3, <2>1, <2>2, <2>3, <2>4, <2>5 DEF WorkerStep
  <1> QED BY <1>3 DEF Worker

LEMMA HooksKeepLocks ==
    ASSUME TypeInv, NEW h \in Hooks,
           Webhook(h) \/ \E e \in Events : Send(h, e),
           NEW t \in LockTasks, NEW p \in Payments
    PROVE  LockMove(t, p)
  <1> USE DEF LockTasks
  <1>t. /\ lock \in [Payments -> Slots \cup Hooks \cup {None}]
        /\ hook \in [Hooks -> HookType]
    BY DEF TypeInv, LockTypeOK, HooksOK
  <1>u. UNCHANGED run
    BY DEF Webhook, Send, workerVars
  <1>o. ASSUME t # h, \A g \in Hooks : g # h => hook'[g] = hook[g]
        PROVE  InCritical(t, p)' <=> InCritical(t, p)
    BY <1>u, <1>o DEF InCritical
  <1>w. InCritical(h, p) <=> /\ Payload[hook[h].event].pay = p
                             /\ hook[h].pc \in HookInLock
    BY TasksDiffer DEF InCritical
  <1>v. InCritical(h, p)' <=> /\ Payload[hook'[h].event].pay = p
                              /\ hook'[h].pc \in HookInLock
    BY TasksDiffer DEF InCritical
  <1>g. ASSUME NEW pc, HookGoto(h, pc)
        PROVE  /\ hook'[h].pc = pc
               /\ pc # "idle" => hook'[h].event = hook[h].event
               /\ \A g \in Hooks : g # h => hook'[g] = hook[g]
    BY <1>t, <1>g DEF HookGoto, HookIdle
  <1>c. ASSUME UNCHANGED lock, NEW pc, HookGoto(h, pc),
               pc \in HookInLock => hook[h].pc \in HookInLock
        PROVE  LockMove(t, p)
    <2>1. pc \in HookInLock => pc # "idle"
      BY DEF HookInLock
    <2> QED BY <1>c, <1>g, <1>o, <1>v, <1>w, <2>1, LocksStay
  <1>1. CASE AcquireForHook(h)
    <2> DEFINE q == Payload[hook[h].event].pay
    <2>1. q \in Payments
      BY <1>1, PayloadAssumption
      DEF AcquireForHook, HookAt, TypeInv, HooksOK, HookOK
    <2>2. PICK pc : HookGoto(h, pc) /\ pc \in {"fetch", "idle"}
                    /\ (~LockFree(q) => pc = "idle")
      BY <1>1 DEF AcquireForHook, HookReturns, HookThrows, HookHandler,
                  HookAt
    <2>3. CASE LockFree(q)
      <3>1. lock' = [lock EXCEPT ![q] = h] /\ lock[q] = None
        BY <1>1, <2>3 DEF AcquireForHook, SetLock, LockFree
      <3>2. p = q => lock[p] # t
        BY <3>1, TasksAssumption DEF Tasks
      <3>3. p # q => lock'[p] = lock[p]
        BY <1>t, <3>1
      <3>4. CASE t = h
        <4>1. InCritical(h, p)' => p = q
          BY <1>g, <1>v, <2>2 DEF HookInLock
        <4> QED BY <1>t, <2>1, <3>1, <3>2, <3>3, <3>4, <4>1 DEF LockMove
      <3>5. CASE t # h
        BY <1>g, <1>o, <2>2, <3>2, <3>3, <3>5 DEF LockMove
      <3> QED BY <3>4, <3>5
    <2>4. CASE ~LockFree(q)
      <3>1. UNCHANGED lock
        BY <1>1, <2>4 DEF AcquireForHook
      <3> QED BY <1>c, <2>2, <2>4, <3>1 DEF HookInLock
    <2> QED BY <2>3, <2>4
  <1>2. CASE ReleaseHook(h)
    <2>1. PICK pc : HookGoto(h, pc) /\ pc \notin HookInLock
      BY <1>2 DEF ReleaseHook, HookReturns, HookHandler, HookAt, HookInLock
    <2>2. ~InCritical(h, p)'
      BY <1>g, <1>v, <2>1
    <2>3. t # h => (InCritical(t, p)' <=> InCritical(t, p))
                   /\ (lock[p] = t => lock'[p] = t)
      BY <1>g, <1>o, <1>t, <1>2, <2>1 DEF ReleaseHook, ReleaseLock
    <2> QED BY <2>2, <2>3 DEF LockMove
  <1>3. CASE FetchForHook(h)
    <2> DEFINE e == hook[h].event
    <2>1. UNCHANGED lock /\ hook[h].pc \in HookInLock
      BY <1>3 DEF FetchForHook, HookAt, HookInLock
    <2>2. CASE Accepts(row[Payload[e].pay].status, TargetStatus(e))
      <3>1. /\ hook'[h].event = e
            /\ \A g \in Hooks : g # h => hook'[g] = hook[g]
        BY <1>3, <1>t, <2>2 DEF FetchForHook
      <3> QED BY <1>o, <1>v, <1>w, <2>1, <3>1, LocksStay
    <2>3. CASE ~Accepts(row[Payload[e].pay].status, TargetStatus(e))
      BY <1>3, <1>c, <2>1, <2>3 DEF FetchForHook
    <2> QED BY <2>2, <2>3
  <1>4. CASE \/ Dedup(h) \/ RecordDuplicate(h) \/ RejectEvent(h)
             \/ ApplyEvent(h) \/ HookCallFails(h)
    <2>1. /\ UNCHANGED lock
          /\ \E pc : /\ HookGoto(h, pc)
                     /\ pc \in HookInLock => hook[h].pc \in HookInLock
      BY <1>4
      DEF Dedup, RecordDuplicate, RejectEvent, ApplyEvent, HookCallFails,
          HookReturns, HookThrows, HookHandler, HookAt, HookInLock
    <2> QED BY <1>c, <2>1
  <1>5. CASE \E e \in Events : Send(h, e)
    <2>1. UNCHANGED lock
      BY <1>5 DEF Send, Deliver
    <2>2. /\ hook'[h].pc = "dedup"
          /\ \A g \in Hooks : g # h => hook'[g] = hook[g]
      BY <1>5, <1>t DEF Send, Deliver
    <2> QED BY <1>o, <1>v, <2>1, <2>2, LocksStay DEF HookInLock
  <1> QED BY <1>1, <1>2, <1>3, <1>4, <1>5 DEF Webhook, HookStep

LEMMA LockMoves ==
    ASSUME ~LockLapses, TypeInv, [Next]_vars, NEW t \in LockTasks,
           NEW p \in Payments
    PROVE  LockMove(t, p)
  <1>1. CASE UNCHANGED <<run, hook, lock>>
    <2>1. InCritical(t, p)' <=> InCritical(t, p)
      BY <1>1 DEF InCritical
    <2> QED BY <1>1, <2>1, LocksStay
  <1>2. ASSUME NEW q \in Payments, ExpireLock(q)
        PROVE  LockMove(t, p)
    <2>1. InCritical(t, p)' <=> InCritical(t, p)
      BY <1>2 DEF ExpireLock, workerVars, InCritical
    <2>2. /\ lock' = [lock EXCEPT ![q] = None] /\ ~InCritical(lock[q], q)
          /\ lock \in [Payments -> Slots \cup Hooks \cup {None}]
      BY <1>2 DEF ExpireLock, LoseLock, TypeInv, LockTypeOK
    <2> QED BY <2>1, <2>2 DEF LockMove
  <1>3. ASSUME NEW dead \in SUBSET Tasks, NEW clients \in SUBSET Payments,
               Crash(dead, clients)
        PROVE  LockMove(t, p)
    <2>1. InCritical(t, p)' => InCritical(t, p)
      BY <1>3 DEF Crash, Idle, HookIdle, InCritical, InLock, HookInLock
    <2> QED BY <1>3, <2>1, LocksStay DEF Crash
  <1> QED BY <1>1, <1>2, <1>3, WorkersKeepLocks, HooksKeepLocks
          DEF Next, vars, workerVars, Api, Retry, RedeliverJob, EvictJob

LEMMA InitLock == Init => LockInv
  BY DEF Init, WorkerInit, HookInit, Idle, HookIdle, LockInv, InCritical,
         InLock, HookInLock

LEMMA NextLock ==
    ASSUME ~LockLapses, TypeInv, LockInv, [Next]_vars
    PROVE  LockInv'
  BY LockMoves DEF LockInv, LockMove

(* No two tasks are in the critical section of one payment, as long as no  *)
(* key expires under its critical section: also when acquire's reply is    *)
(* lost, a task dies, or a release comes after the key was taken over.     *)
THEOREM Exclusion ==
    ASSUME ~LockLapses
    PROVE  Spec => []MutualExclusion
  <1>1. TypeInv /\ LockInv /\ [Next]_vars => LockInv'
    BY NextLock
  <1>2. LockInv => MutualExclusion
    BY DEF LockInv, LockTasks, MutualExclusion
  <1> QED BY <1>1, <1>2, TypesInvariant, InitLock, PTL DEF Spec
-----------------------------------------------------------------------------
(* The script that releases a key compares the token: a task takes no key  *)
(* but its own, and that one only when it leaves its critical section.     *)
LEMMA TasksKeepKeys ==
    ASSUME TypeInv, [Next]_vars, NEW p \in Payments, NEW t \in LockTasks,
           lock[p] = t, lock'[p] # t, InCritical(t, p)'
    PROVE  ExpireLock(p)
  <1>1. ASSUME NEW w \in Slots, Worker(w) PROVE FALSE
    BY <1>1, WorkersKeepLocks DEF LockMove
  <1>2. ASSUME NEW h \in Hooks, Webhook(h) \/ \E e \in Events : Send(h, e)
        PROVE  FALSE
    BY <1>2, HooksKeepLocks DEF LockMove
  <1>3. ASSUME NEW q \in Payments, ExpireLock(q) PROVE ExpireLock(p)
    <2>1. lock' = [lock EXCEPT ![q] = None]
      BY <1>3 DEF ExpireLock, LoseLock
    <2>2. p = q
      BY <2>1 DEF TypeInv, LockTypeOK
    <2> QED BY <1>3, <2>2
  <1>4. CASE UNCHANGED lock
    BY <1>4
  <1> QED BY <1>1, <1>2, <1>3, <1>4
          DEF Next, vars, Api, Retry, RedeliverJob, EvictJob, Crash

(* A key is not taken away under its owner's critical section but by its   *)
(* TTL: also when keys lapse, jobs have two runs, replies are lost and     *)
(* tasks die.                                                              *)
THEOREM KeysAreKept == Spec => KeyIsNotTakenAway
  <1> DEFINE Kept1 == \A p \in Payments : \A t \in Slots \cup Hooks :
                         lock[p] = t /\ lock'[p] # t /\ InCritical(t, p)'
                             => ExpireLock(p)
  <1>1. TypeInv /\ [Next]_vars => Kept1
    BY TasksKeepKeys DEF LockTasks
  <1>2. [][Kept1]_vars => KeyIsNotTakenAway
    BY DEF KeyIsNotTakenAway
  <1> HIDE DEF Kept1
  <1> QED BY <1>1, <1>2, TypesInvariant, PTL DEF Spec

(* The owner of a key is in its critical section.                          *)
KeyIsUsed(p) == lock[p] # None => InCritical(lock[p], p)

LEMMA FaultsAreSpent ==
    ASSUME TypeInv, SpendFault
    PROVE  faults' # faults
  BY FaultsAssumption DEF TypeInv, FaultsTypeOK, SpendFault

(* Without a fault, a run that leaves its critical section releases the    *)
(* key, exceptions included.                                               *)
LEMMA WorkersReleaseKeys ==
    ASSUME TypeInv, NEW w \in Slots, Worker(w), faults' = faults,
           NEW p \in Payments, KeyIsUsed(p)
    PROVE  KeyIsUsed(p)'
  <1> DEFINE q == run[w].pay
  <1>t. lock \in [Payments -> Slots \cup Hooks \cup {None}]
    BY DEF TypeInv, LockTypeOK
  <1>f. ~SpendFault
    BY FaultsAreSpent
  <1>h. UNCHANGED hook
    BY DEF Worker
  <1>g. ASSUME NEW next, Goto(w, next)
        PROVE  /\ run'[w] = next
               /\ \A v \in Slots : v # w => run'[v] = run[v]
    BY <1>g, GotoMoves
  <1>n. \A pc, ver, result, attempt :
           /\ Local(w, pc, ver, result, attempt).pc = pc
           /\ Local(w, pc, ver, result, attempt).pay = q
    BY LocalFields
  <1>w. InCritical(w, p) <=> q = p /\ run[w].pc \in InLock
    BY TasksDiffer DEF InCritical
  <1>v. InCritical(w, p)' <=> run'[w].pay = p /\ run'[w].pc \in InLock
    BY TasksDiffer DEF InCritical
  <1>m. \E next : Goto(w, next)
    BY DEF Worker, WorkerStep, CallFails, TakeProcessJob, AcquireLock,
           FetchPayment, BeginProcessing, GatewayAnswers, BreakerRejects,
           RecordResponse, MarkSuccess, MarkPending, MarkFailed, Recheck,
           GiveUp, Release, Triage, Exhaust, Reread, ScheduleRetry,
           EnqueueRetry, FinishProcessJob, Transition, Returns, Throws
  <1>o. ASSUME lock'[p] = lock[p], lock[p] # w PROVE KeyIsUsed(p)'
    BY <1>g, <1>h, <1>m, <1>o DEF KeyIsUsed, InCritical
  <1>1. CASE AcquireLock(w)
    <2>1. run[w].pc = "acquire" /\ q \in Payments
      BY <1>1 DEF AcquireLock, At, TypeInv, RunsOK, RunOK
    <2>2. lock[p] # w
      BY <1>w, <2>1, TasksDiffer, TasksAssumption
      DEF KeyIsUsed, InLock, Tasks
    <2>3. CASE LockFree(q) /\ p = q
      <3>1. lock'[p] = w /\ Goto(w, Ends(w, "fetch"))
        BY <1>1, <1>f, <1>t, <2>1, <2>3 DEF AcquireLock, SetLock, Returns
      <3>2. Ends(w, "fetch").pc = "fetch" /\ Ends(w, "fetch").pay = p
        BY <1>n, <2>3 DEF Ends
      <3> QED BY <1>g, <1>v, <3>1, <3>2 DEF KeyIsUsed, InLock
    <2>4. CASE ~(LockFree(q) /\ p = q)
      <3>1. lock'[p] = lock[p]
        BY <1>1, <1>t, <2>4 DEF AcquireLock, SetLock
      <3> QED BY <1>o, <2>2, <3>1
    <2> QED BY <2>3, <2>4
  <1>2. CASE Release(w)
    <2>1. CASE lock'[p] = None
      BY <2>1 DEF KeyIsUsed
    <2>2. CASE lock'[p] # None
      <3>1. lock'[p] = lock[p] /\ (p = q => lock[p] # w)
        BY <1>2, <1>t, <2>2 DEF Release, ReleaseLock
      <3>2. lock[p] # w
        BY <1>w, <2>2, <3>1 DEF KeyIsUsed
      <3> QED BY <1>o, <3>1, <3>2
    <2> QED BY <2>1, <2>2
  <1>3. ASSUME UNCHANGED lock,
               run[w].pc \in InLock =>
                  \E next : /\ Goto(w, next)
                            /\ next.pc \in InLock /\ next.pay = q
        PROVE  KeyIsUsed(p)'
    <2>1. CASE lock[p] # w
      BY <1>3, <1>o, <2>1
    <2>2. CASE lock[p] = w
      <3>1. q = p /\ run[w].pc \in InLock
        BY <1>w, <2>2, TasksDiffer, TasksAssumption DEF KeyIsUsed, Tasks
      <3> QED BY <1>3, <1>g, <1>v, <2>2, <3>1 DEF KeyIsUsed
    <2> QED BY <2>1, <2>2
  <1>4. CASE \/ FetchPayment(w) \/ BeginProcessing(w)
             \/ GatewayAnswers(w) \/ BreakerRejects(w)
             \/ RecordResponse(w)
             \/ MarkSuccess(w) \/ MarkPending(w) \/ MarkFailed(w)
             \/ Recheck(w) \/ GiveUp(w)
    <2>1. run[w].pc \in InLock \ {"release", "abort"}
      BY <1>4
      DEF FetchPayment, BeginProcessing, GatewayAnswers, BreakerRejects,
          RecordResponse, MarkSuccess, MarkPending, MarkFailed, Recheck,
          GiveUp, At, InLock
    <2>2. Thrown(w).pc = "abort" /\ Thrown(w).pay = q
      BY <1>n, <2>1 DEF Thrown, Ends, Handler, InLock
    <2>3. /\ UNCHANGED lock
          /\ \/ Goto(w, Thrown(w))
             \/ \E pc, ver, result, attempt :
                   /\ Goto(w, Local(w, pc, ver, result, attempt))
                   /\ pc \in InLock
      BY <1>4
      DEF FetchPayment, BeginProcessing, GatewayAnswers, BreakerRejects,
          RecordResponse, AfterRecord, MarkSuccess, MarkPending, MarkFailed,
          Recheck, GiveUp, Transition, Returns, Throws, Ends, InLock
    <2>4. "abort" \in InLock
      BY DEF InLock
    <2> QED BY <1>3, <1>n, <2>2, <2>3, <2>4
  <1>5. CASE \/ Triage(w) \/ Exhaust(w) \/ Reread(w) \/ ScheduleRetry(w)
             \/ EnqueueRetry(w) \/ FinishProcessJob(w)
             \/ \E r \in Payments : TakeProcessJob(w, r)
    <2>1. UNCHANGED lock /\ run[w].pc \notin InLock
      BY <1>5
      DEF Triage, Exhaust, Reread, ScheduleRetry, EnqueueRetry,
          FinishProcessJob, TakeProcessJob, Transition, Settled, At, InLock
    <2> QED BY <1>3, <2>1
  <1>6. ~CallFails(w)
    BY <1>f DEF CallFails
  <1> QED BY <1>1, <1>2, <1>4, <1>5, <1>6 DEF Worker, WorkerStep

(* The same for a webhook request.                                         *)
LEMMA HooksReleaseKeys ==
    ASSUME TypeInv, NEW h \in Hooks,
           Webhook(h) \/ \E e \in Events : Send(h, e), faults' = faults,
           NEW p \in Payments, KeyIsUsed(p)
    PROVE  KeyIsUsed(p)'
  <1> DEFINE q == Payload[hook[h].event].pay
  <1>t. /\ lock \in [Payments -> Slots \cup Hooks \cup {None}]
        /\ hook \in [Hooks -> HookType]
    BY DEF TypeInv, LockTypeOK, HooksOK
  <1>f. ~SpendFault
    BY FaultsAreSpent
  <1>u. UNCHANGED run
    BY DEF Webhook, Send, workerVars
  <1>w. InCritical(h, p) <=> q = p /\ hook[h].pc \in HookInLock
    BY TasksDiffer DEF InCritical
  <1>v. InCritical(h, p)' <=> /\ Payload[hook'[h].event].pay = p
                              /\ hook'[h].pc \in HookInLock
    BY TasksDiffer DEF InCritical
  <1>g. ASSUME NEW pc, HookGoto(h, pc)
        PROVE  /\ hook'[h].pc = pc
               /\ pc # "idle" => hook'[h].event = hook[h].event
               /\ \A g \in Hooks : g # h => hook'[g] = hook[g]
    BY <1>t, <1>g DEF HookGoto, HookIdle
  <1>o. ASSUME \A g \in Hooks : g # h => hook'[g] = hook[g],
               lock'[p] = lock[p], lock[p] # h
        PROVE  KeyIsUsed(p)'
    BY <1>o, <1>u DEF KeyIsUsed, InCritical
  <1>l. ASSUME hook[h].pc \notin HookInLock PROVE lock[p] # h
    BY <1>l, <1>w, TasksAssumption DEF KeyIsUsed, Tasks
  <1>1. CASE AcquireForHook(h)
    <2>1. hook[h].pc \notin HookInLock /\ q \in Payments
      BY <1>1, PayloadAssumption
      DEF AcquireForHook, HookAt, HookInLock, TypeInv, HooksOK, HookOK
    <2>2. CASE LockFree(q)
      <3>1. lock' = [lock EXCEPT ![q] = h] /\ HookGoto(h, "fetch")
        BY <1>1, <1>f, <2>2 DEF AcquireForHook, SetLock, HookReturns
      <3>2. CASE p = q
        BY <1>g, <1>t, <1>v, <3>1, <3>2 DEF KeyIsUsed, HookInLock
      <3>3. CASE p # q
        BY <1>g, <1>l, <1>o, <1>t, <2>1, <3>1, <3>3
      <3> QED BY <3>2, <3>3
    <2>3. CASE ~LockFree(q)
      <3>1. UNCHANGED lock /\ \E pc : HookGoto(h, pc)
        BY <1>1, <2>3 DEF AcquireForHook, HookThrows
      <3> QED BY <1>g, <1>l, <1>o, <2>1, <3>1
    <2> QED BY <2>2, <2>3
  <1>2. CASE ReleaseHook(h)
    <2>1. \E pc : HookGoto(h, pc)
      BY <1>2 DEF ReleaseHook, HookReturns
    <2>2. CASE lock'[p] = None
      BY <2>2 DEF KeyIsUsed
    <2>3. CASE lock'[p] # None
      <3>1. lock'[p] = lock[p] /\ (p = q => lock[p] # h)
        BY <1>2, <1>t, <2>3 DEF ReleaseHook, ReleaseLock
      <3>2. lock[p] # h
        BY <1>w, <2>3, <3>1 DEF KeyIsUsed
      <3> QED BY <1>g, <1>o, <2>1, <3>1, <3>2
    <2> QED BY <2>2, <2>3
  <1>3. ASSUME UNCHANGED lock, hook[h].pc \in HookInLock,
               hook'[h].pc \in HookInLock, hook'[h].event = hook[h].event,
               \A g \in Hooks : g # h => hook'[g] = hook[g]
        PROVE  KeyIsUsed(p)'
    <2>1. CASE lock[p] # h
      BY <1>3, <1>o, <2>1
    <2>2. CASE lock[p] = h
      BY <1>3, <1>v, <1>w, <2>2, TasksDiffer DEF KeyIsUsed
    <2> QED BY <2>1, <2>2
  <1>4. CASE FetchForHook(h)
    <2>1. /\ UNCHANGED lock /\ hook[h].pc \in HookInLock
          /\ "reject" \in HookInLock /\ "apply" \in HookInLock
          /\ "reject" # "idle"
      BY <1>4 DEF FetchForHook, HookAt, HookInLock
    <2>2. /\ hook'[h].pc \in {"reject", "apply"}
          /\ hook'[h].event = hook[h].event
          /\ \A g \in Hooks : g # h => hook'[g] = hook[g]
      BY <1>4, <1>t DEF FetchForHook, HookGoto
    <2> QED BY <1>3, <2>1, <2>2
  <1>5. CASE RejectEvent(h) \/ ApplyEvent(h)
    <2>1. /\ UNCHANGED lock /\ hook[h].pc \in HookInLock
          /\ \E pc : /\ HookGoto(h, pc)
                     /\ pc \in HookInLock /\ pc # "idle"
      BY <1>5, <1>f
      DEF RejectEvent, ApplyEvent, HookReturns, HookThrows, HookHandler,
          HookAt, HookInLock
    <2> QED BY <1>3, <1>g, <2>1
  <1>6. CASE Dedup(h) \/ RecordDuplicate(h)
    <2>1. /\ UNCHANGED lock /\ hook[h].pc \notin HookInLock
          /\ \E pc : HookGoto(h, pc)
      BY <1>6 DEF Dedup, RecordDuplicate, HookAt, HookInLock
    <2> QED BY <1>g, <1>l, <1>o, <2>1
  <1>7. CASE \E e \in Events : Send(h, e)
    <2>1. /\ UNCHANGED lock /\ hook[h].pc \notin HookInLock
          /\ \A g \in Hooks : g # h => hook'[g] = hook[g]
      BY <1>7, <1>t DEF Send, Deliver, HookAt, HookInLock
    <2> QED BY <1>l, <1>o, <2>1
  <1>8. ~HookCallFails(h)
    BY <1>f DEF HookCallFails
  <1> QED BY <1>1, <1>2, <1>4, <1>5, <1>6, <1>7, <1>8
          DEF Webhook, HookStep

LEMMA KeysAreReleased ==
    ASSUME TypeInv, NoKeyIsLeft, [Next]_vars
    PROVE  NoKeyIsLeft'
  <1> SUFFICES ASSUME faults' = MaxFaults, NEW p \in Payments
               PROVE  KeyIsUsed(p)'
    BY DEF NoKeyIsLeft, KeyIsUsed
  <1>f. faults' = faults \/ SpendFault
    <2>1. ASSUME NEW w \in Slots, Worker(w)
          PROVE  faults' = faults \/ SpendFault
      BY <2>1
      DEF Worker, WorkerStep, CallFails, TakeProcessJob, AcquireLock,
          FetchPayment, BeginProcessing, GatewayAnswers, BreakerRejects,
          RecordResponse, MarkSuccess, MarkPending, MarkFailed, Recheck,
          GiveUp, Release, Triage, Exhaust, Reread, ScheduleRetry,
          EnqueueRetry, FinishProcessJob, Transition, Returns, Throws
    <2>2. ASSUME NEW r \in RetrySlots, Retry(r)
          PROVE  faults' = faults \/ SpendFault
      BY <2>2
      DEF Retry, RetryStep, RetryCallFails, TakeRetryJob, ReadForRetry,
          Requeue, EnqueueAgain, FinishRetryJob, RetryReturns
    <2>3. ASSUME NEW h \in Hooks,
                 Webhook(h) \/ \E e \in Events : Send(h, e)
          PROVE  faults' = faults \/ SpendFault
      BY <2>3
      DEF Webhook, HookStep, HookCallFails, Dedup, RecordDuplicate,
          AcquireForHook, FetchForHook, RejectEvent, ApplyEvent,
          ReleaseHook, HookReturns, HookThrows, Send, Deliver
    <2>4. ASSUME NEW q \in Payments, Api(q)
          PROVE  faults' = faults \/ SpendFault
      BY <2>4
      DEF Api, ApiStep, CreatePayment, EnqueuePayment, ReadForCancel,
          CancelPayment
    <2> QED BY <2>1, <2>2, <2>3, <2>4
            DEF Next, vars, ExpireLock, RedeliverJob, EvictJob, Crash
  <1>e. faults' = faults
    BY <1>f, FaultsAssumption DEF SpendFault, TypeInv, FaultsTypeOK
  <1>k. KeyIsUsed(p)
    BY <1>e DEF NoKeyIsLeft, KeyIsUsed
  <1>1. CASE UNCHANGED <<run, hook, lock>>
    BY <1>1, <1>k DEF KeyIsUsed, InCritical
  <1>2. ASSUME NEW q \in Payments, ExpireLock(q) PROVE KeyIsUsed(p)'
    <2>1. /\ lock' = [lock EXCEPT ![q] = None] /\ UNCHANGED <<run, hook>>
          /\ lock \in [Payments -> Slots \cup Hooks \cup {None}]
      BY <1>2 DEF ExpireLock, LoseLock, workerVars, TypeInv, LockTypeOK
    <2>2. lock'[p] = None \/ lock'[p] = lock[p]
      BY <2>1
    <2> QED BY <1>k, <2>1, <2>2 DEF KeyIsUsed, InCritical
  <1>3. ASSUME NEW dead \in SUBSET Tasks, NEW clients \in SUBSET Payments
        PROVE  ~Crash(dead, clients)
    BY <1>e, FaultsAreSpent DEF Crash
  <1> QED BY <1>e, <1>k, <1>1, <1>2, <1>3, WorkersReleaseKeys,
             HooksReleaseKeys
          DEF Next, vars, workerVars, Api, Retry, RedeliverJob, EvictJob

(* While no call fails and no process dies, a key that is taken has its    *)
(* owner in the critical section: withLock releases it on every way out,   *)
(* and a task that finds the lock taken leaves the key alone.              *)
THEOREM KeysAreNotLeft == Spec => []NoKeyIsLeft
  <1>1. Init => NoKeyIsLeft
    BY DEF Init, LockInit, NoKeyIsLeft
  <1> QED BY <1>1, KeysAreReleased, TypesInvariant, PTL DEF Spec
-----------------------------------------------------------------------------
(* In its critical section a task works on the payment as it is: a run     *)
(* that is at an attempt has the PROCESSING payment and its version, and a *)
(* webhook request that rejects an event has a payment it does not apply   *)
(* to.                                                                     *)
AttemptIsCurrent(w) ==
    run[w].pc \in Calling => /\ row[run[w].pay].status = "PROCESSING"
                             /\ row[run[w].pay].version = run[w].ver

RejectsRightly(h) ==
    hook[h].pc = "reject" =>
        row[Payload[hook[h].event].pay].status # "PROCESSING"

WorkInv == /\ LockInv
           /\ \A w \in Slots : AttemptIsCurrent(w)
           /\ \A h \in Hooks : RejectsRightly(h)

LEMMA AcceptsIsProcessing ==
    ASSUME NEW status, NEW e
    PROVE  Accepts(status, TargetStatus(e)) <=> status = "PROCESSING"
  BY DEF Accepts, TargetStatus, TerminalStates, IsValidStateTransition,
         ValidTransitions

(* One critical section, one task.                                         *)
LEMMA OneCritical ==
    ASSUME LockInv, NEW p \in Payments, NEW s \in LockTasks,
           NEW t \in LockTasks, InCritical(s, p), InCritical(t, p)
    PROVE  s = t
  BY DEF LockInv

(* An update that begins or ends an attempt, or gives up, is made from a   *)
(* critical section of its payment.                                        *)
LEMMA CriticalUpdates ==
    ASSUME TypeInv, KnowInv, NEW p \in Payments, NEW from, NEW to, NEW by,
           Update(p, from, to, by),
           row[p].status = "PROCESSING" \/ to = "PROCESSING"
    PROVE  \/ \E w \in Slots : /\ InCritical(w, p) /\ run'[w] # run[w]
                               /\ run[w].pc \in InLock
           \/ \E h \in Hooks : /\ InCritical(h, p) /\ hook[h].pc = "apply"
                               /\ row[p].status = "PROCESSING"
  <1>1. \/ row[p].status = from /\ IsValidStateTransition(from, to)
        \/ GivesUpBlindly(p, from, to, by)
    BY UpdatesAreHonest
  <1>2. ASSUME NEW w \in Slots, run[w].pc \in InLock, run[w].pay = p
        PROVE  InCritical(w, p)
    BY <1>2 DEF InCritical
  <1>3. ASSUME NEW h \in Hooks, HookUpdate(h, p, from, to, by)
        PROVE  /\ InCritical(h, p) /\ hook[h].pc = "apply"
               /\ row[p].status = "PROCESSING"
    <2>1. InCritical(h, p) /\ hook[h].pc = "apply" /\ to # "PROCESSING"
      BY <1>3 DEF HookUpdate, InCritical, HookInLock, TargetStatus
    <2> QED BY <2>1
  <1>4. ASSUME NEW w \in Slots, RunUpdate(w, p, from, to, by)
        PROVE  run[w].pc \in InLock /\ run[w].pay = p /\ run'[w] # run[w]
    <2>1. <<run[w].pc, from, to>> \in RunUpdates /\ run[w].pay = p
          /\ run'[w] # run[w]
      BY <1>4 DEF RunUpdate
    <2>2. CASE run[w].pc \in {"exhaust", "schedule"}
      <3>1. from = "FAILED" /\ to # "PROCESSING"
        BY <2>1, <2>2 DEF RunUpdates
      <3>2. Knows(p, run[w].ver, "FAILED")
        BY <2>1, <2>2 DEF KnowInv, RunKnows
      <3> QED BY <1>4, <3>1, <3>2 DEF RunUpdate, VersionMatches, Knows
    <2>3. CASE run[w].pc \notin {"exhaust", "schedule"}
      BY <2>1, <2>3 DEF RunUpdates, InLock
    <2> QED BY <2>1, <2>2, <2>3
  <1>5. ASSUME NEW r \in RetrySlots, RetryUpdate(r, p, from, to, by)
        PROVE  FALSE
    BY <1>1, <1>5 DEF RetryUpdate, GivesUpBlindly
  <1>6. ~CancelUpdate(p, from, to, by)
    BY <1>1 DEF CancelUpdate, GivesUpBlindly
  <1> QED BY <1>2, <1>3, <1>4, <1>5, <1>6 DEF Update

LEMMA AttemptsStayCurrent ==
    ASSUME TypeInv, TypeInv', KnowInv, WorkInv, [Next]_vars, NEW w \in Slots
    PROVE  AttemptIsCurrent(w)'
  <1> DEFINE p == run[w].pay
  <1>c. Calling \subseteq InLock /\ Calling \subseteq Knowing
    BY DEF Calling, InLock, Knowing
  <1>1. RunMove(w) /\ AttemptIsCurrent(w)
    BY RunMoves DEF WorkInv
  <1>2. CASE run'[w].pc \notin Calling
    BY <1>2 DEF AttemptIsCurrent
  <1>3. CASE run'[w] = run[w] /\ run[w].pc \in Calling
    <2>1. /\ p \in Payments /\ InCritical(w, p) /\ w \in LockTasks
          /\ row[p].status = "PROCESSING"
      BY <1>c, <1>1, <1>3
      DEF TypeInv, RunsOK, RunOK, Calling, InCritical, LockTasks,
          AttemptIsCurrent
    <2>2. RowMove(p)
      BY <2>1, RowMoves
    <2>3. ASSUME NEW from, NEW to, NEW by, Update(p, from, to, by)
          PROVE  FALSE
      <3>1. CASE \E v \in Slots : InCritical(v, p) /\ run'[v] # run[v]
        BY <1>3, <2>1, <3>1, OneCritical DEF WorkInv, LockTasks
      <3>2. CASE \E h \in Hooks : InCritical(h, p)
        BY <2>1, <3>2, OneCritical, TasksDiffer DEF WorkInv, LockTasks
      <3> QED BY <2>1, <2>3, <3>1, <3>2, CriticalUpdates
    <2>4. row'[p] = row[p]
      BY <2>1, <2>2, <2>3 DEF RowMove, Kept, Born, Absent
    <2> QED BY <1>1, <1>3, <2>4 DEF AttemptIsCurrent
  <1>4. CASE /\ Advance(w, "begin", "gateway")
             /\ VersionMatches(p, run[w].ver)
             /\ run'[w].ver = run[w].ver + 1
             /\ Moved(p, "PENDING", "PROCESSING", "service")
    BY <1>4 DEF Advance, VersionMatches, Moved, AttemptIsCurrent
  <1>5. CASE /\ run[w].pc \in Calling /\ run'[w].pay = p /\ Kept(p)
             /\ run'[w].ver = run[w].ver
    BY <1>1, <1>5 DEF Kept, AttemptIsCurrent
  <1>6. run'[w].pc \in Calling =>
           run'[w].pc \notin {"begin", "recheck", "giveUp", "reread",
                              "exhaust", "schedule"}
    BY DEF Calling
  <1> QED BY <1>c, <1>1, <1>2, <1>3, <1>4, <1>5, <1>6
          DEF RunMove, Advance, Calling

LEMMA RejectionsStayRight ==
    ASSUME TypeInv, TypeInv', KnowInv, WorkInv, [Next]_vars, NEW h \in Hooks
    PROVE  RejectsRightly(h)'
  <1> DEFINE e == hook[h].event
             p == Payload[e].pay
  <1>1. HookMove(h) /\ RejectsRightly(h)
    BY HookMoves DEF WorkInv
  <1>2. CASE hook'[h].pc # "reject"
    BY <1>2 DEF RejectsRightly
  <1>3. CASE hook'[h] = hook[h] /\ hook[h].pc = "reject"
    <2>1. /\ p \in Payments /\ InCritical(h, p) /\ h \in LockTasks
          /\ row[p].status # "PROCESSING"
      BY <1>1, <1>3, PayloadAssumption
      DEF TypeInv, HooksOK, HookOK, InCritical, HookInLock, LockTasks,
          RejectsRightly
    <2>2. RowMove(p)
      BY <2>1, RowMoves
    <2>3. ASSUME NEW from, NEW by, Update(p, from, "PROCESSING", by)
          PROVE  FALSE
      <3>1. PICK w \in Slots : InCritical(w, p)
        BY <2>1, <2>3, CriticalUpdates
      <3> QED BY <2>1, <3>1, OneCritical, TasksDiffer DEF WorkInv, LockTasks
    <2>4. row'[p].status # "PROCESSING"
      BY <2>1, <2>2, <2>3 DEF RowMove, Kept, Born, Moved
    <2> QED BY <1>3, <2>4 DEF RejectsRightly
  <1>4. CASE /\ hook'[h].event = e /\ Kept(p)
             /\ ~Accepts(row[p].status, TargetStatus(e))
    BY <1>4, AcceptsIsProcessing DEF Kept, RejectsRightly
  <1> QED BY <1>1, <1>2, <1>3, <1>4 DEF HookMove

LEMMA InitWork == Init => WorkInv
  <1> SUFFICES ASSUME Init PROVE WorkInv
    OBVIOUS
  <1>1. \A w \in Slots : AttemptIsCurrent(w)
    BY DEF Init, WorkerInit, Idle, AttemptIsCurrent, Calling
  <1>2. \A h \in Hooks : RejectsRightly(h)
    BY DEF Init, HookInit, HookIdle, RejectsRightly
  <1> QED BY <1>1, <1>2, InitLock DEF WorkInv

LEMMA NextWork ==
    ASSUME ~LockLapses, TypeInv, TypeInv', KnowInv, WorkInv, [Next]_vars
    PROVE  WorkInv'
  BY NextLock, AttemptsStayCurrent, RejectionsStayRight DEF WorkInv

(* While locks outlive their critical sections, WorkInv is an invariant.   *)
LEMMA WorkInvariant ==
    ASSUME ~LockLapses
    PROVE  Spec => []WorkInv
  <1>1. TypeInv /\ TypeInv' /\ KnowInv /\ WorkInv /\ [Next]_vars => WorkInv'
    BY NextWork
  <1> QED BY <1>1, TypesInvariant, VersionsAreKnowledge, InitWork, PTL
          DEF Spec

(* The gateway is never called for a payment that is settled, cancelled or *)
(* permanently failed, as long as no key expires under its critical        *)
(* section; redelivered jobs do not matter.                                *)
THEOREM NoLateCall ==
    ASSUME ~LockLapses
    PROVE  Spec => NoCallOnceFinal
  <1> DEFINE Silent ==
        \A p \in Payments :
          row[p].status \in TerminalStates => calls'[p] = calls[p]
  <1>1. TypeInv /\ WorkInv /\ [Next]_vars => [Silent]_vars
    <2> SUFFICES ASSUME TypeInv, WorkInv, [Next]_vars, NEW p \in Payments,
                        calls'[p] # calls[p]
                 PROVE  row[p].status \notin TerminalStates
      OBVIOUS
    <2>1. PICK w \in Slots : run[w].pc = "gateway" /\ run[w].pay = p
      BY CallMoves DEF CallMove
    <2>2. row[p].status = "PROCESSING"
      BY <2>1 DEF WorkInv, AttemptIsCurrent, Calling
    <2> QED BY <2>2 DEF TerminalStates
  <1>2. [][Silent]_vars => NoCallOnceFinal
    BY DEF NoCallOnceFinal
  <1> HIDE DEF Silent
  <1> QED BY <1>1, <1>2, TypesInvariant, WorkInvariant, PTL DEF Spec

(* An event is recorded REJECTED only by the request that rejects it.      *)
LEMMA Rejections ==
    ASSUME TypeInv, [Next]_vars, NEW e \in Events,
           "REJECTED" \in webhookEvent'[e] \ webhookEvent[e]
    PROVE  \E h \in Hooks : hook[h].pc = "reject" /\ hook[h].event = e
  <1>t. webhookEvent \in
           [Events -> SUBSET {"PROCESSED", "REJECTED", "DUPLICATE"}]
    BY DEF TypeInv, StoreTypeOK
  <1>1. PICK h \in Hooks : Webhook(h)
    BY DEF Next, vars, storeVars, Api, ApiStep, CreatePayment,
           EnqueuePayment, ReadForCancel, CancelPayment, Retry, RetryStep,
           RetryCallFails, TakeRetryJob, ReadForRetry, Requeue,
           EnqueueAgain, FinishRetryJob, Worker, WorkerStep, CallFails,
           TakeProcessJob, AcquireLock, FetchPayment, BeginProcessing,
           GatewayAnswers, BreakerRejects, RecordResponse, MarkSuccess,
           MarkPending, MarkFailed, Recheck, GiveUp, Release, Triage,
           Exhaust, Reread, ScheduleRetry, EnqueueRetry, FinishProcessJob,
           Transition, Send, Deliver, ExpireLock, RedeliverJob, EvictJob,
           Crash
  <1>2. RejectEvent(h)
    BY <1>1, <1>t
    DEF Webhook, HookStep, HookCallFails, Dedup, RecordDuplicate,
        AcquireForHook, FetchForHook, ApplyEvent, ReleaseHook, storeVars,
        RecordEvent
  <1>3. hook[h].event = e
    BY <1>2, <1>t DEF RejectEvent, RecordEvent
  <1> QED BY <1>2, <1>3 DEF RejectEvent, HookAt

(* An event is rejected for good only when it does not apply, as long as   *)
(* no key expires under its critical section: the lock covers the reading  *)
(* of the payment and the insert of the rejection, which no version        *)
(* guards.                                                                 *)
THEOREM RejectedForGood ==
    ASSUME ~LockLapses
    PROVE  Spec => RejectedDoesNotApply
  <1> DEFINE Right ==
        \A e \in Events :
          "REJECTED" \in webhookEvent'[e] \ webhookEvent[e]
              => ~Accepts(row[Payload[e].pay].status, TargetStatus(e))
  <1>1. TypeInv /\ WorkInv /\ [Next]_vars => [Right]_vars
    BY Rejections, AcceptsIsProcessing DEF WorkInv, RejectsRightly
  <1>2. [][Right]_vars => RejectedDoesNotApply
    BY DEF RejectedDoesNotApply
  <1> HIDE DEF Right
  <1> QED BY <1>1, <1>2, TypesInvariant, WorkInvariant, PTL DEF Spec
-----------------------------------------------------------------------------
(* The system implements PaymentLifecycle.  A step touches one payment:    *)
(* the row and the ledger of every other one stay as they are.             *)
Still(p) == row'[p] = row[p] /\ calls'[p] = calls[p]
TouchesOne(p) == \A q \in Payments : q # p => Still(q)

LEMMA WritesTouchOne ==
    ASSUME TypeInv, NEW p \in Payments, NEW from, NEW to, NEW by, NEW code,
           Write(p, from, to, by, code), UNCHANGED calls
    PROVE  TouchesOne(p)
  BY WriteMoves DEF Kept, Still, TouchesOne

LEMMA WorkersTouchOne ==
    ASSUME TypeInv, NEW w \in Slots, Worker(w)
    PROVE  TouchesOne(run[w].pay) \/ \A q \in Payments : Still(q)
  <1>s. UNCHANGED <<row, calls>> => \A q \in Payments : Still(q)
    BY DEF Still
  <1>1. ASSUME NEW from, NEW to, NEW code, NEW next, run[w].pc # "idle",
               Transition(w, from, to, code, next)
        PROVE  TouchesOne(run[w].pay) \/ \A q \in Payments : Still(q)
    <2>1. run[w].pay \in Payments
      BY <1>1 DEF TypeInv, RunsOK, RunOK
    <2> QED BY <1>1, <1>s, <2>1, WritesTouchOne
            DEF Transition, TransitionState
  <1>2. CASE \/ BeginProcessing(w) \/ MarkSuccess(w) \/ MarkFailed(w)
             \/ GiveUp(w) \/ Exhaust(w) \/ ScheduleRetry(w)
    <2>1. /\ run[w].pc # "idle"
          /\ \E from, to, code, next : Transition(w, from, to, code, next)
      BY <1>2 DEF BeginProcessing, MarkSuccess, MarkFailed, GiveUp, Exhaust,
                  ScheduleRetry, At
    <2> QED BY <1>1, <2>1
  <1>3. CASE GatewayAnswers(w)
    <2>1. \A q \in Payments : q # run[w].pay => calls'[q] = calls[q]
      BY <1>3 DEF GatewayAnswers, TypeInv, CallsOK
    <2> QED BY <1>3, <2>1 DEF GatewayAnswers, storeVars, Still, TouchesOne
  <1>4. CASE ~(\/ BeginProcessing(w) \/ MarkSuccess(w) \/ MarkFailed(w)
               \/ GiveUp(w) \/ Exhaust(w) \/ ScheduleRetry(w)
               \/ GatewayAnswers(w))
    <2>1. UNCHANGED <<row, calls>>
      BY <1>4
      DEF Worker, WorkerStep, CallFails, TakeProcessJob, AcquireLock,
          FetchPayment, BreakerRejects, RecordResponse, MarkPending, Recheck,
          Release, Triage, Reread, EnqueueRetry, FinishProcessJob, storeVars
    <2> QED BY <1>s, <2>1
  <1> QED BY <1>2, <1>3, <1>4

LEMMA OneAtATime ==
    ASSUME TypeInv, [Next]_vars, NEW p \in Payments, ~Still(p)
    PROVE  TouchesOne(p)
  <1>s. UNCHANGED <<row, calls>> => Still(p)
    BY DEF Still
  <1>o. ASSUME NEW q \in Payments, TouchesOne(q) PROVE q = p
    BY <1>o DEF TouchesOne
  <1>1. ASSUME NEW w \in Slots, Worker(w) PROVE TouchesOne(p)
    <2>1. TouchesOne(run[w].pay)
      BY <1>1, WorkersTouchOne
    <2> QED BY <2>1 DEF TouchesOne
  <1>2. ASSUME NEW q \in Payments, Api(q) PROVE TouchesOne(p)
    <2>c. UNCHANGED calls
      BY <1>2 DEF Api, workerVars
    <2>1. CASE CreatePayment(q)
      BY <1>o, <2>1, <2>c
      DEF CreatePayment, InsertPayment, TypeInv, StoreTypeOK, TouchesOne,
          Still
    <2>2. CASE CancelPayment(q)
      BY <1>o, <1>s, <2>2, <2>c, WritesTouchOne
      DEF CancelPayment, TransitionState
    <2> QED BY <1>2, <1>s, <2>1, <2>2, <2>c
            DEF Api, ApiStep, EnqueuePayment, ReadForCancel, storeVars
  <1>3. ASSUME NEW r \in RetrySlots, Retry(r) PROVE TouchesOne(p)
    <2>c. UNCHANGED calls
      BY <1>3 DEF Retry, workerVars
    <2>1. CASE Requeue(r)
      <3>1. retrying[r].pay \in Payments
        BY <2>1 DEF Requeue, TypeInv, RetriesOK, RetryOK
      <3> QED BY <1>o, <1>s, <2>1, <2>c, <3>1, WritesTouchOne
              DEF Requeue, TransitionState
    <2> QED BY <1>3, <1>s, <2>1, <2>c
            DEF Retry, RetryStep, RetryCallFails, TakeRetryJob,
                ReadForRetry, EnqueueAgain, FinishRetryJob, storeVars
  <1>4. ASSUME NEW h \in Hooks, Webhook(h) PROVE TouchesOne(p)
    <2>c. UNCHANGED calls
      BY <1>4 DEF Webhook, workerVars
    <2>1. CASE ApplyEvent(h)
      <3>1. Payload[hook[h].event].pay \in Payments
        BY <2>1, PayloadAssumption
        DEF ApplyEvent, HookAt, TypeInv, HooksOK, HookOK
      <3> QED BY <1>o, <1>s, <2>1, <2>c, <3>1, WritesTouchOne DEF ApplyEvent
    <2> QED BY <1>4, <1>s, <2>1, <2>c
            DEF Webhook, HookStep, HookCallFails, Dedup, RecordDuplicate,
                AcquireForHook, FetchForHook, RejectEvent, ReleaseHook,
                storeVars
  <1>5. CASE \/ \E h \in Hooks, e \in Events : Send(h, e)
             \/ \E q \in Payments : ExpireLock(q)
             \/ \E id \in JobIds : RedeliverJob(id) \/ EvictJob(id)
             \/ \E dead \in SUBSET Tasks, clients \in SUBSET Payments :
                   Crash(dead, clients)
             \/ UNCHANGED vars
    BY <1>5, <1>s
    DEF Send, Deliver, ExpireLock, RedeliverJob, EvictJob, Crash, vars,
        storeVars, workerVars
  <1> QED BY <1>1, <1>2, <1>3, <1>4, <1>5 DEF Next

(* This attempt has called the gateway, as the refinement mapping says it. *)
Called(p) == /\ row[p].status = "PROCESSING"
             /\ row[p].version \in Attempts(calls[p])

LEMMA MoveIsMapped ==
    ASSUME NEW p \in Payments, TouchesOne(p), ~Called(p)',
           NEW from, NEW to, row[p].status = from, row'[p].status = to
    PROVE  Lifecycle!Move(p, from, to)
  <1>1. [q \in Payments |-> row'[q].status]
            = [[q \in Payments |-> row[q].status] EXCEPT ![p] = to]
    BY DEF TouchesOne, Still
  <1>2. ASSUME NEW q \in Payments
        PROVE  (/\ row'[q].status = "PROCESSING"
                /\ \E i \in 1..Len(calls'[q]) :
                      calls'[q][i].attempt = row'[q].version)
               = IF q = p THEN FALSE
                 ELSE /\ row[q].status = "PROCESSING"
                      /\ \E i \in 1..Len(calls[q]) :
                            calls[q][i].attempt = row[q].version
    <2>1. CASE q = p
      BY <2>1 DEF Called, Attempts
    <2>2. CASE q # p
      BY <2>2 DEF TouchesOne, Still
    <2> QED BY <2>1, <2>2
  <1> QED BY <1>1, <1>2 DEF Lifecycle!Move

LifecycleInv == TypeInv /\ KnowInv /\ CallInv /\ HistInv /\ WorkInv

(* A version that was just produced has not been called for.               *)
LEMMA NewAttemptIsFresh ==
    ASSUME LifecycleInv, LifecycleInv', [Next]_vars, NEW p \in Payments,
           row'[p] # row[p]
    PROVE  ~Called(p)'
  <1>1. /\ row'[p].version > row[p].version
        /\ row[p].version \in Nat /\ row'[p].version \in Nat
    BY VersionsMove DEF LifecycleInv
  <1>2. \A n \in Attempts(calls[p]) : n <= row[p].version
    BY DEF LifecycleInv, CallInv, CallsInPast
  <1>3. Attempts(calls[p]) \subseteq Nat
    BY AttemptsAreNat DEF LifecycleInv
  <1>a. ASSUME NEW i \in 1..Len(calls[p])
        PROVE  calls[p][i].attempt # row'[p].version
    <2>1. calls[p][i].attempt \in Attempts(calls[p])
      BY DEF Attempts
    <2> QED BY <1>1, <1>2, <1>3, <2>1
  <1>4. CASE calls'[p] = calls[p]
    <2>1. row'[p].version \notin Attempts(calls'[p])
      BY <1>4, <1>a DEF Attempts
    <2> QED BY <2>1 DEF Called
  <1>5. ASSUME NEW w \in Slots, NEW answer \in Answers,
               run[w].pc = "gateway", run[w].pay = p,
               calls'[p] = Append(calls[p], [attempt |-> run[w].ver,
                                             answer  |-> answer])
        PROVE  ~Called(p)'
    <2> DEFINE entry == [attempt |-> run[w].ver, answer |-> answer]
    <2>1. /\ calls[p] \in Seq(CallType) /\ entry.attempt = run[w].ver
          /\ calls'[p] = Append(calls[p], entry)
      BY <1>5 DEF LifecycleInv, TypeInv, CallsOK
    <2>2. run[w].ver <= row[p].version /\ run[w].ver \in Nat
      BY <1>5 DEF LifecycleInv, CallInv, FreshAttempt, TypeInv, RunsOK,
                  RunType
    <2> HIDE DEF entry
    <2>3. \A i \in 1..Len(calls'[p]) :
             \/ calls'[p][i] = entry
             \/ i \in 1..Len(calls[p]) /\ calls'[p][i] = calls[p][i]
      BY <2>1
    <2>4. \A i \in 1..Len(calls'[p]) : calls'[p][i].attempt # row'[p].version
      BY <1>1, <1>a, <2>1, <2>2, <2>3
    <2> QED BY <2>4 DEF Called, Attempts
  <1> QED BY <1>4, <1>5, CallMoves DEF CallMove, LifecycleInv

(* A new row: the payment is opened, or makes a valid transition.          *)
LEMMA RowChangeIsMapped ==
    ASSUME LifecycleInv, LifecycleInv', [Next]_vars, NEW p \in Payments,
           TouchesOne(p), row'[p] # row[p]
    PROVE  Lifecycle!Next
  <1> DEFINE old == row[p].status
             new == row'[p].status
             retriesKept == [q \in Payments |-> row'[q].retryCount]
                               = [q \in Payments |-> row[q].retryCount]
  <1> HIDE DEF retriesKept
  <1>1. ASSUME NEW from, NEW to, old = from, new = to
        PROVE  Lifecycle!Move(p, from, to)
    BY <1>1, NewAttemptIsFresh, MoveIsMapped
  <1>2. row'[p].retryCount = row[p].retryCount => retriesKept
    BY DEF TouchesOne, Still, retriesKept
  <1>3. RowMove(p) /\ RowOK(p) /\ row[p].retryCount \in Nat
    BY RowMoves DEF LifecycleInv, KnowInv, TypeInv, StoreTypeOK, RowType
  <1>4. CASE Born(p)
    <2>1. old = "ABSENT" /\ new = "PENDING" /\ retriesKept
      BY <1>2, <1>4 DEF Born, Absent
    <2>2. Lifecycle!Move(p, "ABSENT", "PENDING")
      BY <1>1, <2>1
    <2>3. Lifecycle!Open(p)
      BY <2>1, <2>2 DEF Lifecycle!Open, retriesKept
    <2> QED BY <2>3 DEF Lifecycle!Next
  <1>5. ASSUME NEW from, NEW to, NEW by, Moved(p, from, to, by),
               Update(p, from, to, by)
        PROVE  Lifecycle!Next
    <2>1. new = to /\ old = from /\ IsValidStateTransition(old, new)
      BY <1>5, UpdatesAreValid DEF Moved, LifecycleInv
    <2>2. CASE new = "RETRY_SCHEDULED"
      <3>1. old = "FAILED"
        BY <2>1, <2>2 DEF IsValidStateTransition, ValidTransitions
      <3>2. row[p].retryCount < MaxRetries
        BY <1>5, <2>1, <2>2, <3>1, FailedUpdates
        DEF LifecycleInv, HistInv, RunIsCurrent
      <3>3. [q \in Payments |-> row'[q].retryCount]
              = [[q \in Payments |-> row[q].retryCount]
                   EXCEPT ![p] = @ + 1]
        BY <1>5, <2>1, <2>2 DEF Moved, TouchesOne, Still
      <3>4. Lifecycle!Move(p, "FAILED", "RETRY_SCHEDULED")
        BY <1>1, <2>2, <3>1
      <3>5. Lifecycle!ScheduleRetry(p)
        BY <3>2, <3>3, <3>4 DEF Lifecycle!ScheduleRetry
      <3> QED BY <3>5 DEF Lifecycle!Next
    <2>3. CASE new # "RETRY_SCHEDULED"
      <3>1. retriesKept
        BY <1>2, <1>3, <1>5, <2>1, <2>3 DEF Moved
      <3>2. CASE old = "PENDING" /\ new = "PROCESSING"
        <4>1. Lifecycle!Move(p, "PENDING", "PROCESSING")
          BY <1>1, <3>2
        <4>2. Lifecycle!Start(p)
          BY <3>1, <4>1 DEF Lifecycle!Start, retriesKept
        <4> QED BY <4>2 DEF Lifecycle!Next
      <3>3. CASE old = "PENDING" /\ new = "CANCELLED"
        <4>1. Lifecycle!Move(p, "PENDING", "CANCELLED")
          BY <1>1, <3>3
        <4>2. Lifecycle!Cancel(p)
          BY <3>1, <4>1 DEF Lifecycle!Cancel, retriesKept
        <4> QED BY <4>2 DEF Lifecycle!Next
      <3>4. CASE old = "PROCESSING" /\ new \in {"SUCCESS", "FAILED"}
        <4>1. \/ Lifecycle!Move(p, "PROCESSING", "SUCCESS")
              \/ Lifecycle!Move(p, "PROCESSING", "FAILED")
          BY <1>1, <3>4
        <4>2. Lifecycle!Settle(p)
          BY <3>1, <4>1 DEF Lifecycle!Settle, retriesKept
        <4> QED BY <4>2 DEF Lifecycle!Next
      <3>5. CASE old = "FAILED" /\ new = "PERMANENTLY_FAILED"
        <4>1. Lifecycle!Move(p, "FAILED", "PERMANENTLY_FAILED")
          BY <1>1, <3>5
        <4>2. Lifecycle!GiveUp(p)
          BY <3>1, <4>1 DEF Lifecycle!GiveUp, retriesKept
        <4> QED BY <4>2 DEF Lifecycle!Next
      <3>6. CASE old = "RETRY_SCHEDULED" /\ new = "PENDING"
        <4>1. Lifecycle!Move(p, "RETRY_SCHEDULED", "PENDING")
          BY <1>1, <3>6
        <4>2. Lifecycle!Requeue(p)
          BY <3>1, <4>1 DEF Lifecycle!Requeue, retriesKept
        <4> QED BY <4>2 DEF Lifecycle!Next
      <3> QED
        BY <1>3, <2>1, <2>3, <3>2, <3>3, <3>4, <3>5, <3>6
        DEF RowOK, IsValidStateTransition, ValidTransitions
    <2> QED BY <2>2, <2>3
  <1>6. ~Kept(p)
    BY DEF Kept
  <1> QED BY <1>3, <1>4, <1>5, <1>6 DEF RowMove

(* A new call: the attempt's only one, and the payment is PROCESSING.      *)
LEMMA CallIsMapped ==
    ASSUME LifecycleInv, LifecycleInv', [Next]_vars, NEW p \in Payments,
           TouchesOne(p), row'[p] = row[p], calls'[p] # calls[p]
    PROVE  Lifecycle!Next
  <1>1. PICK w \in Slots, answer \in Answers :
          /\ run[w].pc = "gateway" /\ run[w].pay = p
          /\ calls'[p] = Append(calls[p], [attempt |-> run[w].ver,
                                           answer  |-> answer])
    BY CallMoves DEF CallMove, LifecycleInv
  <1> DEFINE n == row[p].version
             entry == [attempt |-> n, answer |-> answer]
  <1>2. row[p].status = "PROCESSING" /\ n = run[w].ver
    BY <1>1 DEF LifecycleInv, WorkInv, AttemptIsCurrent, Calling
  <1>3. n \notin Attempts(calls[p]) /\ calls[p] \in Seq(CallType)
    BY <1>1, <1>2 DEF LifecycleInv, CallInv, FreshAttempt, TypeInv, CallsOK
  <1>4. calls'[p] = Append(calls[p], entry) /\ entry.attempt = n
    BY <1>1, <1>2
  <1> HIDE DEF entry
  <1>5. /\ Len(calls[p]) + 1 \in 1..Len(calls'[p])
        /\ calls'[p][Len(calls[p]) + 1] = entry
    BY <1>3, <1>4
  <1>6. ASSUME NEW q \in Payments
        PROVE  (/\ row'[q].status = "PROCESSING"
                /\ \E i \in 1..Len(calls'[q]) :
                      calls'[q][i].attempt = row'[q].version)
               = IF q = p THEN TRUE
                 ELSE /\ row[q].status = "PROCESSING"
                      /\ \E i \in 1..Len(calls[q]) :
                            calls[q][i].attempt = row[q].version
    <2>1. CASE q = p
      BY <1>2, <1>4, <1>5, <2>1
    <2>2. CASE q # p
      BY <2>2 DEF TouchesOne, Still
    <2> QED BY <2>1, <2>2
  <1>7. ~\E i \in 1..Len(calls[p]) : calls[p][i].attempt = row[p].version
    BY <1>3 DEF Attempts
  <1>8. \A q \in Payments : row'[q] = row[q]
    BY DEF TouchesOne, Still
  <1>9. Lifecycle!CallGateway(p)
    BY <1>2, <1>6, <1>7, <1>8 DEF Lifecycle!CallGateway
  <1> QED BY <1>9 DEF Lifecycle!Next

LEMMA StepIsMapped ==
    ASSUME LifecycleInv, LifecycleInv', [Next]_vars
    PROVE  [Lifecycle!Next]_(Lifecycle!vars)
  <1>1. ASSUME NEW p \in Payments, ~Still(p) PROVE Lifecycle!Next
    <2>1. TouchesOne(p)
      BY <1>1, OneAtATime DEF LifecycleInv
    <2> QED BY <1>1, <2>1, RowChangeIsMapped, CallIsMapped DEF Still
  <1>2. CASE \A p \in Payments : Still(p)
    BY <1>2 DEF Still, Lifecycle!vars
  <1> QED BY <1>1, <1>2

LEMMA InitIsMapped == Init => Lifecycle!Init
  BY DEF Init, StoreInit, Absent, Lifecycle!Init

(* What the gateway promises about a payment holds of the whole system, as *)
(* long as keys outlive their critical sections and jobs are redelivered   *)
(* only when their run is gone: through crashes, lost replies, failing     *)
(* calls, expired keys of dead tasks, repeated and overlapping webhooks    *)
(* and cancellations.                                                      *)
THEOREM SystemImplementsLifecycle ==
    ASSUME ~LockLapses, ~LiveStalls
    PROVE  Spec => ImplementsLifecycle
  <1>1. Spec => []CallInv
    BY TypesInvariant, InitCalls, NextCalls, PTL DEF Spec
  <1>2. TypeInv /\ KnowInv /\ CallInv /\ HistInv /\ WorkInv => LifecycleInv
    BY DEF LifecycleInv
  <1>3. LifecycleInv /\ LifecycleInv' /\ [Next]_vars
           => [Lifecycle!Next]_(Lifecycle!vars)
    BY StepIsMapped
  <1> QED
    BY <1>1, <1>2, <1>3, TypesInvariant, VersionsAreKnowledge,
       HistoryInvariant, WorkInvariant, InitIsMapped, PTL
    DEF Spec, ImplementsLifecycle, Lifecycle!Spec
=============================================================================
