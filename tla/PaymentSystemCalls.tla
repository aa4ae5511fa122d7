------------------------- MODULE PaymentSystemCalls -------------------------
(***************************************************************************)
(* Safety of PaymentSystem, for every value of its constants: also with    *)
(* locks that lapse, jobs that are redelivered to a second worker and any  *)
(* number of failures.  OneCallPerAttempt rests on the version column: an  *)
(* attempt is the version its PROCESSING update produced, and no two       *)
(* updates produce the same version.  CallsArePaidFor counts these updates *)
(* in the trail: one, and one for each retry.  SuccessIsBacked follows an  *)
(* answer from the ledger to the version it is recorded with.              *)
(***************************************************************************)
EXTENDS PaymentSystemVersions, FiniteSetTheorems

Attempts(ledger) == {ledger[i].attempt : i \in 1..Len(ledger)}

(* Every call made so far belongs to a version the row has reached.        *)
CallsInPast ==
    \A p \in Payments : \A n \in Attempts(calls[p]) : n <= row[p].version

(* A run about to call the gateway holds an attempt nobody has called for  *)
(* and nobody else is about to call for.                                   *)
FreshAttempt ==
    \A w \in Slots : run[w].pc = "gateway" =>
        /\ run[w].ver <= row[run[w].pay].version
        /\ run[w].ver \notin Attempts(calls[run[w].pay])
        /\ \A v \in Slots :
              (run[v].pc = "gateway" /\ run[v].pay = run[w].pay
                /\ run[v].ver = run[w].ver) => v = w

CallInv == OneCallPerAttempt /\ CallsInPast /\ FreshAttempt

(* Versions only grow.                                                     *)
VersionsGrow == \A p \in Payments : row[p].version <= row'[p].version

(* A step that neither calls the gateway nor sends a run there.            *)
Quiet ==
    /\ UNCHANGED calls
    /\ VersionsGrow
    /\ \A w \in Slots : run'[w].pc = "gateway" => run'[w] = run[w]

LEMMA VersionIsNat ==
    ASSUME TypeInv, NEW p \in Payments
    PROVE  row[p].version \in Nat
  BY DEF TypeInv, StoreTypeOK, RowType

(* A write raises the version of its payment by one and no other.          *)
LEMMA WriteVersion ==
    ASSUME TypeInv, NEW p \in Payments, NEW from, NEW to, NEW by, NEW code,
           Write(p, from, to, by, code)
    PROVE  /\ row'[p].version = row[p].version + 1
           /\ VersionsGrow
  <1>1. row'[p].version = row[p].version + 1
    BY DEF Write, TypeInv, StoreTypeOK
  <1>2. \A q \in Payments : q # p => row'[q] = row[q]
    BY DEF Write, TypeInv, StoreTypeOK
  <1> QED BY <1>1, <1>2, VersionIsNat DEF VersionsGrow

LEMMA SameVersions ==
    ASSUME TypeInv, UNCHANGED row
    PROVE  VersionsGrow
  BY VersionIsNat DEF VersionsGrow

(* Attempts are versions.                                                  *)
LEMMA AttemptsAreNat ==
    ASSUME TypeInv, NEW p \in Payments
    PROVE  Attempts(calls[p]) \subseteq Nat
  <1>1. calls[p] \in Seq(CallType)
    BY DEF TypeInv, CallsOK
  <1>2. ASSUME NEW i \in 1..Len(calls[p])
        PROVE  calls[p][i].attempt \in Nat
    <2>1. calls[p][i] \in CallType
      BY <1>1
    <2> QED BY <2>1 DEF CallType
  <1> QED BY <1>2 DEF Attempts

(* Quiet steps cannot break the invariant.                                 *)
LEMMA QuietKeepsCalls ==
    ASSUME TypeInv, TypeInv', CallInv, Quiet
    PROVE  CallInv'
  <1>1. \A p \in Payments : Attempts(calls'[p]) = Attempts(calls[p])
    BY DEF Quiet, Attempts
  <1>2. OneCallPerAttempt'
    BY DEF CallInv, OneCallPerAttempt, Quiet
  <1>3. \A p \in Payments : Attempts(calls[p]) \subseteq Nat
    BY AttemptsAreNat
  <1>4. \A p \in Payments : row[p].version \in Nat /\ row'[p].version \in Nat
    BY DEF TypeInv, StoreTypeOK, RowType
  <1>5. CallsInPast'
    BY <1>1, <1>3, <1>4 DEF CallInv, CallsInPast, Quiet, VersionsGrow
  <1>6. ASSUME NEW w \in Slots, run'[w].pc = "gateway"
        PROVE  /\ run'[w] = run[w] /\ run[w].pay \in Payments
               /\ run[w].ver \in Nat
    BY <1>6 DEF Quiet, TypeInv, RunsOK, RunOK, RunType
  <1>7. FreshAttempt'
    BY <1>1, <1>4, <1>6 DEF CallInv, FreshAttempt, Quiet, VersionsGrow
  <1> QED BY <1>2, <1>5, <1>7 DEF CallInv
-----------------------------------------------------------------------------
(* Which steps are quiet.                                                  *)

(* w goes on to an await that is not the gateway's.                        *)
Leaves(w) == \E next : next.pc # "gateway" /\ Goto(w, next)

LEMMA LeavesIsQuiet ==
    ASSUME TypeInv, NEW w \in Slots, Leaves(w), UNCHANGED calls, VersionsGrow
    PROVE  Quiet
  BY DEF Leaves, Goto, Quiet, TypeInv, RunsOK

LEMMA ThrownLeaves == \A w : Thrown(w).pc # "gateway"
  BY DEF Thrown, Ends, Local, Handler, InLock

LEMMA ReturnsLeaves ==
    ASSUME NEW w, NEW next, next.pc # "gateway", Returns(w, next) \/ Throws(w)
    PROVE  Leaves(w)
  BY ThrownLeaves DEF Returns, Throws, Leaves

LEMMA TransitionIsQuiet ==
    ASSUME TypeInv, NEW w \in Slots, run[w].pc # "idle",
           NEW from, NEW to, NEW code, NEW next,
           next.pc # "gateway", Transition(w, from, to, code, next)
    PROVE  Quiet
  <1>1. run[w].pay \in Payments
    BY DEF TypeInv, RunsOK, RunOK
  <1>2. VersionsGrow
    BY <1>1, WriteVersion, SameVersions DEF Transition, TransitionState
  <1>3. Leaves(w) /\ UNCHANGED calls
    BY ReturnsLeaves DEF Transition
  <1> QED BY <1>2, <1>3, LeavesIsQuiet

LEMMA WorkerIsQuiet ==
    ASSUME TypeInv, NEW w \in Slots, WorkerStep(w) \/ CallFails(w),
           ~BeginProcessing(w), ~GatewayAnswers(w)
    PROVE  Quiet
  <1>n. \A pc, ver, result, attempt :
          /\ Local(w, pc, ver, result, attempt).pc = pc
          /\ Ends(w, pc).pc = pc
    BY DEF Local, Ends
  <1>s. UNCHANGED storeVars => VersionsGrow
    BY SameVersions DEF storeVars
  <1>1. ASSUME NEW q \in Payments, TakeProcessJob(w, q) PROVE Quiet
    <2>1. Leaves(w)
      BY <1>1 DEF TakeProcessJob, Leaves
    <2> QED BY <1>1, <1>s, <2>1, LeavesIsQuiet DEF TakeProcessJob
  <1>2. CASE AcquireLock(w)
    <2>1. Leaves(w)
      BY <1>2, <1>n, ReturnsLeaves DEF AcquireLock
    <2> QED BY <1>2, <1>s, <2>1, LeavesIsQuiet DEF AcquireLock
  <1>3. CASE FetchPayment(w)
    <2>1. Leaves(w)
      BY <1>3, <1>n DEF FetchPayment, Leaves
    <2> QED BY <1>3, <1>s, <2>1, LeavesIsQuiet DEF FetchPayment
  <1>4. CASE BreakerRejects(w)
    <2>1. Leaves(w)
      BY <1>4, <1>n DEF BreakerRejects, Leaves
    <2> QED BY <1>4, <1>s, <2>1, LeavesIsQuiet DEF BreakerRejects
  <1>5. CASE RecordResponse(w)
    <2>1. AfterRecord(run[w].result) # "gateway"
      BY DEF AfterRecord
    <2>2. Leaves(w)
      BY <1>5, <1>n, <2>1, ReturnsLeaves DEF RecordResponse
    <2> QED BY <1>5, <2>2, SameVersions, LeavesIsQuiet DEF RecordResponse
  <1>6. CASE MarkPending(w)
    <2>1. Leaves(w)
      BY <1>6, <1>n, ReturnsLeaves DEF MarkPending
    <2> QED BY <1>6, <1>s, <2>1, LeavesIsQuiet DEF MarkPending
  <1>7. CASE MarkSuccess(w) \/ MarkFailed(w) \/ GiveUp(w) \/ Exhaust(w)
               \/ ScheduleRetry(w)
    BY <1>7, <1>n, TransitionIsQuiet
    DEF MarkSuccess, MarkFailed, GiveUp, Exhaust, ScheduleRetry, At
  <1>8. CASE Recheck(w)
    <2>1. Leaves(w)
      BY <1>8, <1>n DEF Recheck, Leaves
    <2> QED BY <1>8, <1>s, <2>1, LeavesIsQuiet DEF Recheck
  <1>9. CASE Release(w)
    <2>1. Leaves(w)
      BY <1>9, <1>n, ReturnsLeaves DEF Release
    <2> QED BY <1>9, <1>s, <2>1, LeavesIsQuiet DEF Release
  <1>10. CASE Triage(w)
    <2>1. Leaves(w)
      BY <1>10, <1>n DEF Triage, Leaves
    <2> QED BY <1>10, <1>s, <2>1, LeavesIsQuiet DEF Triage
  <1>11. CASE Reread(w)
    <2>1. Leaves(w)
      BY <1>11, <1>n DEF Reread, Leaves
    <2> QED BY <1>11, <1>s, <2>1, LeavesIsQuiet DEF Reread
  <1>12. CASE EnqueueRetry(w)
    <2>1. Leaves(w)
      BY <1>12, <1>n, ReturnsLeaves DEF EnqueueRetry
    <2> QED BY <1>12, <1>s, <2>1, LeavesIsQuiet DEF EnqueueRetry
  <1>13. CASE FinishProcessJob(w)
    <2>1. Leaves(w)
      BY <1>13 DEF FinishProcessJob, Leaves, Idle
    <2> QED BY <1>13, <1>s, <2>1, LeavesIsQuiet DEF FinishProcessJob
  <1>14. CASE CallFails(w)
    <2>1. Leaves(w)
      BY <1>14, ThrownLeaves DEF CallFails, Leaves
    <2> QED BY <1>14, <1>s, <2>1, LeavesIsQuiet DEF CallFails
  <1> QED BY <1>1, <1>2, <1>3, <1>4, <1>5, <1>6, <1>7, <1>8, <1>9, <1>10,
             <1>11, <1>12, <1>13, <1>14 DEF WorkerStep

(* Retry workers, webhooks, requests and the environment leave runs and    *)
(* calls alone, except that a crash makes runs idle.                       *)
LEMMA OthersAreQuiet ==
    ASSUME TypeInv,
           \/ \E p \in Payments : Api(p)
           \/ \E r \in RetrySlots : Retry(r)
           \/ \E h \in Hooks : Webhook(h)
           \/ \E h \in Hooks, e \in Events : Send(h, e)
           \/ \E p \in Payments : ExpireLock(p)
           \/ \E id \in JobIds : RedeliverJob(id) \/ EvictJob(id)
           \/ \E dead \in SUBSET Tasks, clients \in SUBSET Payments :
                 Crash(dead, clients)
           \/ UNCHANGED vars
    PROVE  Quiet
  <1>u. ASSUME UNCHANGED workerVars, VersionsGrow PROVE Quiet
    BY <1>u DEF workerVars, Quiet
  <1>s. UNCHANGED storeVars => VersionsGrow
    BY SameVersions DEF storeVars
  <1>1. ASSUME NEW p \in Payments, Api(p) PROVE Quiet
    <2>1. CASE CreatePayment(p)
      <3>1. row[p].version = 0 /\ row'[p].version = 2
        BY <2>1 DEF CreatePayment, InsertPayment, Absent, TypeInv,
                    StoreTypeOK
      <3>2. \A q \in Payments : q # p => row'[q] = row[q]
        BY <2>1 DEF CreatePayment, InsertPayment, TypeInv, StoreTypeOK
      <3>3. VersionsGrow
        BY <3>1, <3>2, VersionIsNat DEF VersionsGrow
      <3> QED BY <1>1, <1>u, <3>3 DEF Api
    <2>2. CASE CancelPayment(p)
      <3>1. VersionsGrow
        BY <2>2, WriteVersion, SameVersions
        DEF CancelPayment, TransitionState
      <3> QED BY <1>1, <1>u, <3>1 DEF Api
    <2> QED BY <1>1, <1>u, <1>s, <2>1, <2>2
            DEF Api, ApiStep, EnqueuePayment, ReadForCancel
  <1>2. ASSUME NEW r \in RetrySlots, Retry(r) PROVE Quiet
    <2>1. CASE Requeue(r)
      <3>1. retrying[r].pay \in Payments
        BY <2>1 DEF Requeue, TypeInv, RetriesOK, RetryOK
      <3>2. VersionsGrow
        BY <2>1, <3>1, WriteVersion, SameVersions
        DEF Requeue, TransitionState
      <3> QED BY <1>2, <1>u, <3>2 DEF Retry
    <2> QED BY <1>2, <1>u, <1>s, <2>1
            DEF Retry, RetryStep, RetryCallFails, TakeRetryJob,
                ReadForRetry, EnqueueAgain, FinishRetryJob
  <1>3. ASSUME NEW h \in Hooks, Webhook(h) PROVE Quiet
    <2>1. CASE ApplyEvent(h)
      <3>1. Payload[hook[h].event].pay \in Payments
        BY <2>1, PayloadAssumption
        DEF ApplyEvent, HookAt, TypeInv, HooksOK, HookOK
      <3>2. VersionsGrow
        BY <2>1, <3>1, WriteVersion, SameVersions DEF ApplyEvent
      <3> QED BY <1>3, <1>u, <3>2 DEF Webhook
    <2>2. CASE RecordDuplicate(h) \/ RejectEvent(h)
      BY <1>3, <1>u, <2>2, SameVersions
      DEF Webhook, RecordDuplicate, RejectEvent
    <2> QED BY <1>3, <1>u, <1>s, <2>1, <2>2
            DEF Webhook, HookStep, HookCallFails, Dedup, AcquireForHook,
                FetchForHook, ReleaseHook
  <1>4. ASSUME NEW h \in Hooks, NEW e \in Events, Send(h, e) PROVE Quiet
    BY <1>4, <1>u, <1>s DEF Send, Deliver
  <1>5. ASSUME NEW p \in Payments, ExpireLock(p) PROVE Quiet
    BY <1>5, <1>u, <1>s DEF ExpireLock
  <1>6. ASSUME NEW id \in JobIds, RedeliverJob(id) \/ EvictJob(id)
        PROVE  Quiet
    BY <1>6, <1>u, <1>s DEF RedeliverJob, EvictJob
  <1>7. ASSUME NEW dead \in SUBSET Tasks, NEW clients \in SUBSET Payments,
               Crash(dead, clients)
        PROVE  Quiet
    BY <1>7, <1>s DEF Crash, Quiet, Idle
  <1>8. CASE UNCHANGED vars
    BY <1>8, <1>u, <1>s DEF vars
  <1> QED BY <1>1, <1>2, <1>3, <1>4, <1>5, <1>6, <1>7, <1>8
-----------------------------------------------------------------------------
(* The two steps that are not.                                             *)

(* The update that begins an attempt produces a version of its own.        *)
LEMMA BeginKeepsCalls ==
    ASSUME TypeInv, TypeInv', CallInv, NEW w \in Slots, BeginProcessing(w)
    PROVE  CallInv'
  <1> DEFINE p == run[w].pay
             n == run[w].ver + 1
             next == Local(w, "gateway", n, None, 0)
  <1>1. p \in Payments /\ run[w].ver \in Nat
    BY DEF BeginProcessing, At, TypeInv, RunsOK, RunOK, RunType
  <1>2. UNCHANGED calls
    BY DEF BeginProcessing, Transition
  <1>3. CASE ~TransitionState(p, "PENDING", "PROCESSING", None)
    <2>1. Throws(w) /\ UNCHANGED row
      BY <1>3 DEF BeginProcessing, Transition
    <2>2. Leaves(w)
      BY <2>1, ThrownLeaves DEF Throws, Leaves
    <2> QED BY <1>2, <2>1, <2>2, SameVersions, LeavesIsQuiet,
               QuietKeepsCalls
  <1>4. CASE /\ TransitionState(p, "PENDING", "PROCESSING", None)
             /\ Goto(w, Thrown(w))
    <2>1. VersionsGrow
      BY <1>1, <1>4, WriteVersion DEF TransitionState
    <2>2. Leaves(w)
      BY <1>4, ThrownLeaves DEF Leaves
    <2> QED BY <1>2, <2>1, <2>2, LeavesIsQuiet, QuietKeepsCalls
  <1>5. CASE TransitionState(p, "PENDING", "PROCESSING", None)
               /\ Goto(w, next) /\ ~Goto(w, Thrown(w))
    <2>1. row[p].version = run[w].ver
      <3>1. CASE VersionMatches(p, run[w].ver)
        BY <3>1 DEF VersionMatches
      <3>2. CASE ~VersionMatches(p, run[w].ver)
        BY <1>5, <3>2 DEF BeginProcessing, Transition, CanTransition, Throws
      <3> QED BY <3>1, <3>2
    <2>2. row'[p].version = n /\ VersionsGrow
      BY <1>1, <1>5, <2>1, WriteVersion DEF TransitionState
    <2>3. /\ \A v \in Slots : v # w => run'[v] = run[v]
          /\ run'[w].pay = p /\ run'[w].ver = n
      BY <1>5 DEF Goto, Local, TypeInv, RunsOK
    <2>4. /\ \A q \in Payments : /\ Attempts(calls'[q]) = Attempts(calls[q])
                                 /\ Attempts(calls[q]) \subseteq Nat
          /\ \A q \in Payments : /\ row[q].version \in Nat
                                 /\ row'[q].version \in Nat
      BY <1>2, AttemptsAreNat DEF Attempts, TypeInv, StoreTypeOK, RowType
    <2>5. OneCallPerAttempt'
      BY <1>2 DEF CallInv, OneCallPerAttempt
    <2>6. CallsInPast'
      <3>1. ASSUME NEW q \in Payments, NEW m \in Attempts(calls'[q])
            PROVE  m <= row'[q].version
        <4>1. m \in Attempts(calls[q]) /\ m \in Nat
          BY <2>4
        <4>2. m <= row[q].version /\ row[q].version <= row'[q].version
          BY <2>2, <4>1 DEF CallInv, CallsInPast, VersionsGrow
        <4> QED BY <2>4, <4>1, <4>2
      <3> QED BY <3>1 DEF CallsInPast
    <2>7. \A v \in Slots : run[v].pc = "gateway" =>
             /\ run[v].pay \in Payments /\ run[v].ver \in Nat
             /\ run[v].ver <= row[run[v].pay].version
      BY DEF TypeInv, RunsOK, RunOK, RunType, CallInv, FreshAttempt
    <2>8. n \notin Attempts(calls[p])
      BY <1>1, <2>1, <2>4 DEF CallInv, CallsInPast
    <2>9. \A v \in Slots : run[v].pc = "gateway" /\ run[v].pay = p =>
             run[v].ver # n
      BY <1>1, <2>1, <2>7
    <2>10. ASSUME NEW v \in Slots, run'[v].pc = "gateway"
           PROVE  /\ run'[v].ver <= row'[run'[v].pay].version
                  /\ run'[v].ver \notin Attempts(calls'[run'[v].pay])
                  /\ \A u \in Slots :
                        (run'[u].pc = "gateway" /\ run'[u].pay = run'[v].pay
                          /\ run'[u].ver = run'[v].ver) => u = v
      <3>1. CASE v = w
        BY <1>1, <2>2, <2>3, <2>4, <2>8, <2>9, <3>1
      <3>2. CASE v # w
        <4>1. run'[v] = run[v] /\ run[v].pc = "gateway"
          BY <2>3, <2>10, <3>2
        <4>2. /\ run[v].ver \notin Attempts(calls[run[v].pay])
              /\ \A u \in Slots :
                    (run[u].pc = "gateway" /\ run[u].pay = run[v].pay
                      /\ run[u].ver = run[v].ver) => u = v
          BY <4>1 DEF CallInv, FreshAttempt
        <4>3. run[v].ver <= row'[run[v].pay].version
          BY <2>2, <2>4, <2>7, <4>1 DEF VersionsGrow
        <4> QED BY <2>3, <2>4, <2>7, <2>9, <4>1, <4>2, <4>3
      <3> QED BY <3>1, <3>2
    <2>11. FreshAttempt'
      BY <2>10 DEF FreshAttempt
    <2> QED BY <2>5, <2>6, <2>11 DEF CallInv
  <1> QED BY <1>3, <1>4, <1>5 DEF BeginProcessing, Transition, Returns, Throws

(* The call is the attempt's first.                                        *)
LEMMA AnswerKeepsCalls ==
    ASSUME TypeInv, CallInv, NEW w \in Slots, GatewayAnswers(w)
    PROVE  CallInv'
  <1> DEFINE p == run[w].pay
             n == run[w].ver
  <1>1. /\ p \in Payments /\ n \in Nat /\ run[w].pc = "gateway"
        /\ UNCHANGED row
    BY DEF GatewayAnswers, At, TypeInv, RunsOK, RunOK, RunType, storeVars
  <1>2. PICK answer \in Answers :
          /\ calls' = [calls EXCEPT ![p] =
                         Append(@, [attempt |-> n, answer |-> answer])]
          /\ Goto(w, Local(w, "record", n, answer, 0))
    BY DEF GatewayAnswers
  <1>3. /\ n <= row[p].version
        /\ n \notin Attempts(calls[p])
        /\ \A v \in Slots : (run[v].pc = "gateway" /\ run[v].pay = p
                              /\ run[v].ver = n) => v = w
    BY <1>1 DEF CallInv, FreshAttempt
  <1>4. calls[p] \in Seq(CallType)
    BY <1>1 DEF TypeInv, CallsOK
  <1>5. /\ Len(calls'[p]) = Len(calls[p]) + 1 /\ Len(calls[p]) \in Nat
        /\ \A i \in 1..Len(calls[p]) : calls'[p][i] = calls[p][i]
        /\ calls'[p][Len(calls[p]) + 1].attempt = n
        /\ \A q \in Payments : q # p => calls'[q] = calls[q]
    BY <1>1, <1>2, <1>4 DEF TypeInv, CallsOK
  <1>6. /\ Attempts(calls'[p]) = Attempts(calls[p]) \cup {n}
        /\ \A q \in Payments :
              q # p => Attempts(calls'[q]) = Attempts(calls[q])
    <2>1. 1..Len(calls'[p]) = (1..Len(calls[p])) \cup {Len(calls[p]) + 1}
      BY <1>5
    <2>2. Attempts(calls'[p]) = Attempts(calls[p]) \cup {n}
      BY <1>5, <2>1 DEF Attempts
    <2> QED BY <1>5, <2>2
  <1>7. OneCallPerAttempt'
    <2>1. ASSUME NEW i \in 1..Len(calls'[p]), NEW j \in 1..Len(calls'[p]),
                 calls'[p][i].attempt = calls'[p][j].attempt
          PROVE  i = j
      <3>1. \A k \in 1..Len(calls[p]) : calls'[p][k].attempt # n
        BY <1>3, <1>5 DEF Attempts
      <3>2. \A k \in 1..Len(calls'[p]) :
               k \in 1..Len(calls[p]) \/ k = Len(calls[p]) + 1
        BY <1>5
      <3>3. CASE i = Len(calls[p]) + 1 \/ j = Len(calls[p]) + 1
        BY <1>5, <2>1, <3>1, <3>2, <3>3
      <3>4. CASE i \in 1..Len(calls[p]) /\ j \in 1..Len(calls[p])
        <4>1. calls[p][i].attempt = calls[p][j].attempt
          BY <1>5, <2>1, <3>4
        <4> QED BY <1>1, <3>4, <4>1 DEF CallInv, OneCallPerAttempt
      <3> QED BY <3>2, <3>3, <3>4
    <2> QED BY <1>5, <2>1 DEF CallInv, OneCallPerAttempt
  <1>8. CallsInPast'
    BY <1>1, <1>3, <1>6 DEF CallInv, CallsInPast
  <1>9. \A v \in Slots : run'[v].pc = "gateway" => v # w /\ run'[v] = run[v]
    BY <1>2 DEF Goto, Local, TypeInv, RunsOK
  <1>10. FreshAttempt'
    <2>1. ASSUME NEW v \in Slots, run'[v].pc = "gateway"
          PROVE  run[v].pay \in Payments
      BY <1>9, <2>1 DEF TypeInv, RunsOK, RunOK
    <2> QED BY <1>1, <1>3, <1>6, <1>9, <2>1 DEF CallInv, FreshAttempt
  <1> QED BY <1>7, <1>8, <1>10 DEF CallInv
-----------------------------------------------------------------------------
LEMMA InitCalls == Init => CallInv
  BY DEF Init, WorkerInit, CallInv, OneCallPerAttempt, CallsInPast, Attempts,
         FreshAttempt, Idle

LEMMA NextCalls == TypeInv /\ TypeInv' /\ CallInv /\ [Next]_vars => CallInv'
  <1> SUFFICES ASSUME TypeInv, TypeInv', CallInv, [Next]_vars PROVE CallInv'
    OBVIOUS
  <1>1. ASSUME NEW w \in Slots, Worker(w) PROVE CallInv'
    BY <1>1, WorkerIsQuiet, QuietKeepsCalls, BeginKeepsCalls,
       AnswerKeepsCalls DEF Worker
  <1>2. CASE ~\E w \in Slots : Worker(w)
    BY <1>2, OthersAreQuiet, QuietKeepsCalls DEF Next
  <1> QED BY <1>1, <1>2

(* The gateway gets at most one call for every attempt at a payment, also  *)
(* when a job is redelivered to a second worker or a lock has lapsed.      *)
THEOREM CallOnce == Spec => []OneCallPerAttempt
  <1>1. CallInv => OneCallPerAttempt
    BY DEF CallInv
  <1> QED BY <1>1, TypesInvariant, InitCalls, NextCalls, PTL DEF Spec
-----------------------------------------------------------------------------
(* What a step does to the ledger of a payment and to its responses.       *)
CallMove(p) ==
    \/ calls'[p] = calls[p]
    \/ \E w \in Slots, answer \in Answers :
          /\ run[w].pc = "gateway" /\ run[w].pay = p
          /\ calls'[p] = Append(calls[p], [attempt |-> run[w].ver,
                                           answer  |-> answer])

LEMMA CallMoves ==
    ASSUME TypeInv, [Next]_vars, NEW p \in Payments
    PROVE  CallMove(p)
  <1>q. Quiet => CallMove(p)
    BY DEF Quiet, CallMove
  <1>1. ASSUME NEW w \in Slots, GatewayAnswers(w) PROVE CallMove(p)
    <2>1. PICK answer \in Answers :
            calls' = [calls EXCEPT ![run[w].pay] =
                        Append(@, [attempt |-> run[w].ver,
                                   answer  |-> answer])]
      BY <1>1 DEF GatewayAnswers
    <2>2. run[w].pc = "gateway" /\ calls \in [Payments -> Seq(CallType)]
      BY <1>1 DEF GatewayAnswers, At, TypeInv, CallsOK
    <2> QED BY <2>1, <2>2 DEF CallMove
  <1>2. ASSUME NEW w \in Slots, BeginProcessing(w) PROVE CallMove(p)
    BY <1>2 DEF BeginProcessing, Transition, CallMove
  <1>3. ASSUME NEW w \in Slots, Worker(w) PROVE CallMove(p)
    BY <1>q, <1>1, <1>2, <1>3, WorkerIsQuiet DEF Worker
  <1> QED BY <1>q, <1>3, OthersAreQuiet DEF Next

LEMMA ResponsesGrow ==
    ASSUME TypeInv, [Next]_vars, NEW p \in Payments
    PROVE  responses[p] \subseteq responses'[p]
  <1>u. UNCHANGED storeVars => UNCHANGED responses
    BY DEF storeVars
  <1>1. ASSUME NEW w \in Slots, Worker(w)
        PROVE  responses[p] \subseteq responses'[p]
    <2>1. CASE RecordResponse(w)
      BY <2>1 DEF RecordResponse, TypeInv, StoreTypeOK
    <2>2. CASE ~RecordResponse(w)
      BY <1>1, <1>u, <2>2
      DEF Worker, WorkerStep, CallFails, TakeProcessJob, AcquireLock,
          FetchPayment, BeginProcessing, GatewayAnswers, BreakerRejects,
          MarkSuccess, MarkPending, MarkFailed, Recheck, GiveUp, Release,
          Triage, Exhaust, Reread, ScheduleRetry, EnqueueRetry,
          FinishProcessJob, Transition
    <2> QED BY <2>1, <2>2
  <1>2. CASE ~\E w \in Slots : Worker(w)
    BY <1>u, <1>2
    DEF Next, vars, Api, ApiStep, CreatePayment, EnqueuePayment,
        ReadForCancel, CancelPayment, Retry, RetryStep, RetryCallFails,
        TakeRetryJob, ReadForRetry, Requeue, EnqueueAgain, FinishRetryJob,
        Webhook, HookStep, HookCallFails, Dedup, RecordDuplicate,
        AcquireForHook, FetchForHook, RejectEvent, ApplyEvent, ReleaseHook,
        Send, Deliver, ExpireLock, RedeliverJob, EvictJob, Crash
  <1> QED BY <1>1, <1>2
-----------------------------------------------------------------------------
(* The calls are paid for: the entries of the trail to PROCESSING are as   *)
(* many as the retries and one more allow, and every call is for one.      *)

Began(p) == {i \in 1..Len(trail[p]) : trail[p][i].to = "PROCESSING"}

(* The entries to PROCESSING that retryCount and the status account for.   *)
Budget(p) ==
    row[p].retryCount
      + (IF row[p].status \in {"ABSENT", "PENDING", "RETRY_SCHEDULED"}
         THEN 0 ELSE 1)

PaidInv ==
    /\ \A p \in Payments : /\ Attempts(calls[p]) \subseteq Began(p)
                           /\ Cardinality(Began(p)) <= Budget(p)
    /\ \A w \in Slots :
          run[w].pc = "gateway" => run[w].ver \in Began(run[w].pay)

LEMMA BeganIsFinite ==
    ASSUME TypeInv, NEW p \in Payments
    PROVE  /\ IsFiniteSet(Began(p)) /\ Cardinality(Began(p)) \in Nat
           /\ row[p].retryCount \in Nat
  <1>1. trail[p] \in Seq(TrailType) /\ row[p] \in RowType
    BY DEF TypeInv, StoreTypeOK
  <1>2. IsFiniteSet(1..Len(trail[p]))
    BY <1>1, FS_Interval
  <1>3. IsFiniteSet(Began(p))
    BY <1>2, FS_Subset DEF Began
  <1> QED BY <1>1, <1>3, FS_CardinalityType DEF RowType

(* The entries to PROCESSING after an entry was added to the trail.        *)
LEMMA BeganMoves ==
    ASSUME TypeInv, NEW p \in Payments, NEW from, NEW to, NEW by,
           Moved(p, from, to, by)
    PROVE  Began(p)' = IF to = "PROCESSING"
                       THEN Began(p) \cup {Len(trail[p]) + 1}
                       ELSE Began(p)
  <1> DEFINE entry == [from |-> from, to |-> to, by |-> by]
             n == Len(trail[p])
  <1>1. trail[p] \in Seq(TrailType) /\ trail'[p] = Append(trail[p], entry)
    BY DEF TypeInv, StoreTypeOK, Moved
  <1>2. entry.to = to
    OBVIOUS
  <1> HIDE DEF entry
  <1>3. /\ n \in Nat /\ Len(trail'[p]) = n + 1 /\ trail'[p][n + 1] = entry
        /\ \A i \in 1..n : trail'[p][i] = trail[p][i]
    BY <1>1
  <1>4. 1..(n + 1) = (1..n) \cup {n + 1}
    BY <1>3
  <1> QED BY <1>2, <1>3, <1>4 DEF Began

LEMMA BeganGrows ==
    ASSUME TypeInv, KnowInv, [Next]_vars, NEW p \in Payments
    PROVE  Began(p) \subseteq Began(p)'
  <1>1. RowMove(p) /\ RowOK(p)
    BY RowMoves DEF KnowInv
  <1>2. CASE Born(p)
    <2>1. Len(trail[p]) = 0
      BY <1>1, <1>2 DEF Born, RowOK, Absent
    <2> QED BY <2>1 DEF Began
  <1> QED BY <1>1, <1>2, BeganMoves DEF RowMove, Kept, Began

(* A move that begins an attempt raises the budget, no move lowers it.     *)
LEMMA BudgetMoves ==
    ASSUME TypeInv, KnowInv, NEW p \in Payments, NEW from, NEW to, NEW by,
           Moved(p, from, to, by), Update(p, from, to, by)
    PROVE  Budget(p)' >= Budget(p) + (IF to = "PROCESSING" THEN 1 ELSE 0)
  <1>1. /\ row[p].status \notin {"ABSENT", "CREATED"}
        /\ row[p].retryCount \in Nat
    BY UpdatesAreHonest, BeganIsFinite DEF KnowInv, RowOK
  <1>2. \/ row[p].status = from /\ IsValidStateTransition(from, to)
        \/ to = "PERMANENTLY_FAILED"
    BY UpdatesAreHonest DEF GivesUpBlindly
  <1>3. \/ row[p].status \in {"PENDING", "RETRY_SCHEDULED"}
           /\ to \in {"PROCESSING", "CANCELLED", "PENDING"}
           /\ (to = "PROCESSING" => row[p].status = "PENDING")
           /\ (to = "PENDING" => row[p].status = "RETRY_SCHEDULED")
        \/ /\ row[p].status \notin {"PENDING", "RETRY_SCHEDULED"}
           /\ to \in {"SUCCESS", "FAILED", "RETRY_SCHEDULED",
                      "PERMANENTLY_FAILED"}
        \/ to = "PERMANENTLY_FAILED"
    BY <1>1, <1>2 DEF IsValidStateTransition, ValidTransitions
  <1>4. /\ row'[p].status = to
        /\ row'[p].retryCount = row[p].retryCount
                                  + (IF to = "RETRY_SCHEDULED" THEN 1 ELSE 0)
    BY DEF Moved
  <1> QED BY <1>1, <1>3, <1>4 DEF Budget

LEMMA BudgetsAreNat ==
    ASSUME TypeInv, TypeInv', NEW p \in Payments
    PROVE  Budget(p) \in Nat /\ Budget(p)' \in Nat
  BY DEF TypeInv, StoreTypeOK, RowType, Budget

LEMMA PaidStaysWithinBudget ==
    ASSUME TypeInv, TypeInv', KnowInv, PaidInv, [Next]_vars,
           NEW p \in Payments
    PROVE  Cardinality(Began(p)') <= Budget(p)'
  <1>1. /\ RowMove(p) /\ RowOK(p)
        /\ Cardinality(Began(p)) <= Budget(p)
    BY RowMoves DEF KnowInv, PaidInv
  <1>2. /\ IsFiniteSet(Began(p)) /\ Cardinality(Began(p)) \in Nat
        /\ row[p].retryCount \in Nat
    BY BeganIsFinite
  <1>3. CASE Kept(p)
    BY <1>1, <1>3 DEF Kept, Began, Budget
  <1>4. CASE Born(p)
    <2>1. Began(p)' = {}
      BY <1>4 DEF Born, Began
    <2>2. Budget(p)' = 0
      BY <1>4 DEF Born, Budget
    <2> QED BY <2>1, <2>2, FS_EmptySet
  <1>5. ASSUME NEW from, NEW to, NEW by, Moved(p, from, to, by),
               Update(p, from, to, by)
        PROVE  Cardinality(Began(p)') <= Budget(p)'
    <2>1. CASE to = "PROCESSING"
      <3>1. Began(p)' = Began(p) \cup {Len(trail[p]) + 1}
        BY <1>5, <2>1, BeganMoves
      <3>a. Cardinality(Began(p) \cup {Len(trail[p]) + 1})
              = IF Len(trail[p]) + 1 \in Began(p) THEN Cardinality(Began(p))
                ELSE Cardinality(Began(p)) + 1
        BY <1>2, FS_AddElement
      <3>2. Cardinality(Began(p)') <= Cardinality(Began(p)) + 1
        BY <1>2, <3>1, <3>a
      <3>3. Budget(p)' >= Budget(p) + 1
        BY <1>5, <2>1, BudgetMoves
      <3>4. Cardinality(Began(p)') \in Nat
        BY <1>2, <3>1, FS_AddElement, FS_CardinalityType
      <3> QED BY <1>1, <1>2, <3>2, <3>3, <3>4, BudgetsAreNat
    <2>2. CASE to # "PROCESSING"
      <3>1. Began(p)' = Began(p)
        BY <1>5, <2>2, BeganMoves
      <3>2. Budget(p)' >= Budget(p)
        BY <1>5, <2>2, BudgetMoves, BudgetsAreNat
      <3> QED BY <1>1, <1>2, <3>1, <3>2, BudgetsAreNat
    <2> QED BY <2>1, <2>2
  <1> QED BY <1>1, <1>3, <1>4, <1>5 DEF RowMove

LEMMA CallsStayPaid ==
    ASSUME TypeInv, TypeInv', KnowInv, PaidInv, [Next]_vars,
           NEW p \in Payments
    PROVE  Attempts(calls'[p]) \subseteq Began(p)'
  <1>1. Began(p) \subseteq Began(p)' /\ Attempts(calls[p]) \subseteq Began(p)
    BY BeganGrows DEF PaidInv
  <1>2. CASE calls'[p] = calls[p]
    BY <1>1, <1>2
  <1>3. ASSUME NEW w \in Slots, NEW answer \in Answers,
               run[w].pc = "gateway", run[w].pay = p,
               calls'[p] = Append(calls[p], [attempt |-> run[w].ver,
                                             answer  |-> answer])
        PROVE  Attempts(calls'[p]) \subseteq Began(p)'
    <2> DEFINE entry == [attempt |-> run[w].ver, answer |-> answer]
    <2>1. entry.attempt = run[w].ver /\ run[w].ver \in Began(p)
      BY <1>3 DEF PaidInv
    <2>2. calls[p] \in Seq(CallType) /\ calls'[p] = Append(calls[p], entry)
      BY <1>3 DEF TypeInv, CallsOK
    <2> HIDE DEF entry
    <2>3. \A i \in 1..Len(calls'[p]) :
             \/ calls'[p][i] = entry
             \/ i \in 1..Len(calls[p]) /\ calls'[p][i] = calls[p][i]
      BY <2>2
    <2> QED BY <1>1, <2>1, <2>3 DEF Attempts
  <1> QED BY <1>2, <1>3, CallMoves DEF CallMove

LEMMA RunsStayPaid ==
    ASSUME TypeInv, TypeInv', KnowInv, PaidInv, [Next]_vars,
           NEW w \in Slots, run'[w].pc = "gateway"
    PROVE  (run[w].ver \in Began(run[w].pay))'
  <1> DEFINE p == run[w].pay
  <1>1. RunMove(w)
    BY RunMoves
  <1>2. CASE run'[w] = run[w]
    <2>1. p \in Payments /\ run[w].ver \in Began(p)
      BY <1>2 DEF TypeInv, RunsOK, RunOK, PaidInv
    <2>2. Began(p) \subseteq {i \in 1..Len(trail'[p]) :
                                 trail'[p][i].to = "PROCESSING"}
      BY <2>1, BeganGrows DEF Began
    <2> QED BY <1>2, <2>1, <2>2 DEF Began
  <1>3. CASE /\ Advance(w, "begin", "gateway")
             /\ VersionMatches(p, run[w].ver)
             /\ run'[w].ver = run[w].ver + 1
             /\ Moved(p, "PENDING", "PROCESSING", "service")
    <2>1. p \in Payments
      BY <1>3 DEF Advance, TypeInv, RunsOK, RunOK
    <2>2. /\ Len(trail[p]) = run[w].ver /\ trail[p] \in Seq(TrailType)
      BY <1>3, <2>1
      DEF VersionMatches, KnowInv, RowOK, TypeInv, StoreTypeOK
    <2> DEFINE entry == [from |-> "PENDING", to |-> "PROCESSING",
                         by |-> "service"]
    <2>3. trail'[p] = Append(trail[p], entry) /\ entry.to = "PROCESSING"
      BY <1>3 DEF Moved
    <2> HIDE DEF entry
    <2>4. /\ Len(trail'[p]) = run'[w].ver
          /\ run'[w].ver \in 1..Len(trail'[p])
          /\ trail'[p][run'[w].ver].to = "PROCESSING"
      BY <1>3, <2>2, <2>3
    <2> QED BY <1>3, <2>4 DEF Advance, Began
  <1> QED BY <1>1, <1>2, <1>3
          DEF RunMove, Advance, AfterRecord, Knowing, Calling

LEMMA InitPaid == Init => PaidInv
  <1> SUFFICES ASSUME Init PROVE PaidInv
    OBVIOUS
  <1>1. \A p \in Payments : Attempts(calls[p]) = {} /\ Began(p) = {}
    BY DEF Init, WorkerInit, StoreInit, Attempts, Began
  <1>2. \A p \in Payments : Budget(p) = 0
    BY DEF Init, StoreInit, Absent, Budget
  <1>3. \A w \in Slots : run[w].pc # "gateway"
    BY DEF Init, WorkerInit, Idle
  <1> QED BY <1>1, <1>2, <1>3, FS_EmptySet DEF PaidInv

LEMMA NextPaid ==
    TypeInv /\ TypeInv' /\ KnowInv /\ PaidInv /\ [Next]_vars => PaidInv'
  BY PaidStaysWithinBudget, CallsStayPaid, RunsStayPaid DEF PaidInv

(* Calls with attempts of their own are no more than the entries to        *)
(* PROCESSING.                                                             *)
LEMMA PaidImplies ==
    TypeInv /\ CallInv /\ PaidInv => CallsArePaidFor
  <1> SUFFICES ASSUME TypeInv, CallInv, PaidInv, NEW p \in Payments
               PROVE  Len(calls[p]) <= 1 + row[p].retryCount
    BY DEF CallsArePaidFor
  <1> DEFINE n == Len(calls[p])
             f == [i \in 1..n |-> calls[p][i].attempt]
  <1>1. n \in Nat
    BY DEF TypeInv, CallsOK
  <1>2. /\ IsFiniteSet(Began(p)) /\ Cardinality(Began(p)) \in Nat
        /\ row[p].retryCount \in Nat
    BY BeganIsFinite
  <1>3. f \in [1..n -> Began(p)]
    BY DEF PaidInv, Attempts
  <1>4. \A i, j \in 1..n : f[i] = f[j] => i = j
    BY DEF CallInv, OneCallPerAttempt
  <1>5. f \in Injection(1..n, Began(p))
    BY <1>3, <1>4 DEF Injection, IsInjective
  <1> HIDE DEF f
  <1>6. Cardinality(1..n) <= Cardinality(Began(p))
    BY <1>2, <1>5, FS_Injection
  <1>7. Cardinality(1..n) = n
    BY <1>1, FS_Interval
  <1>8. Cardinality(Began(p)) <= 1 + row[p].retryCount
    BY <1>2 DEF PaidInv, Budget
  <1> QED BY <1>1, <1>2, <1>6, <1>7, <1>8

(* The gateway is called at most once more than a retry was scheduled,     *)
(* with locks that lapse, jobs that are redelivered alive and any number   *)
(* of failures: the PROCESSING update of an attempt cannot happen twice,   *)
(* and the version it produces is worth one call.                          *)
THEOREM PaidCalls == Spec => []CallsArePaidFor
  BY TypesInvariant, VersionsAreKnowledge, InitCalls, NextCalls, InitPaid,
     NextPaid, PaidImplies, PTL DEF Spec
-----------------------------------------------------------------------------
(* A success the service writes is backed by an answer of the gateway.     *)

Succeeded(p, n) ==
    \E j \in 1..Len(calls[p]) :
        calls[p][j] = [attempt |-> n, answer |-> "success"]

(* What entry i of the trail rests on.                                     *)
EntryIsBacked(p, i) ==
    trail[p][i].to = "SUCCESS" =>
        IF trail[p][i].by = "service"
        THEN i - 1 \in responses[p] /\ Succeeded(p, i - 1)
        ELSE LET e == trail[p][i].by
             IN  Payload[e].pay = p /\ Payload[e].status = "success"

(* A run that holds a success has a call that was answered so, and one     *)
(* about to mark its payment SUCCESS has recorded the answer.              *)
RunIsBacked(w) ==
    /\ (run[w].pc \in {"record", "markSuccess"} /\ run[w].result = "success")
          => Succeeded(run[w].pay, run[w].ver)
    /\ run[w].pc = "markSuccess" => /\ run[w].result = "success"
                                    /\ run[w].ver \in responses[run[w].pay]

BackInv ==
    /\ \A p \in Payments : \A i \in 1..Len(trail[p]) : EntryIsBacked(p, i)
    /\ \A w \in Slots : RunIsBacked(w)

LEMMA BackInvImplies == BackInv => SuccessIsBacked
  BY DEF BackInv, EntryIsBacked, Succeeded, SuccessIsBacked

(* What the gateway answered, and that it did, stays on record.            *)
LEMMA AnswersStay ==
    ASSUME TypeInv, [Next]_vars, NEW p \in Payments, NEW n, Succeeded(p, n)
    PROVE  Succeeded(p, n)'
  <1>1. PICK j \in 1..Len(calls[p]) :
          calls[p][j] = [attempt |-> n, answer |-> "success"]
    BY DEF Succeeded
  <1>2. CallMove(p) /\ calls[p] \in Seq(CallType)
    BY CallMoves DEF TypeInv, CallsOK
  <1>3. \A entry : calls'[p] = Append(calls[p], entry) =>
           j \in 1..Len(calls'[p]) /\ calls'[p][j] = calls[p][j]
    BY <1>2
  <1>4. j \in 1..Len(calls'[p]) /\ calls'[p][j] = calls[p][j]
    BY <1>2, <1>3 DEF CallMove
  <1> QED BY <1>1, <1>4 DEF Succeeded

LEMMA EntriesStayBacked ==
    ASSUME TypeInv, KnowInv, BackInv, [Next]_vars,
           NEW p \in Payments, NEW i \in 1..Len(trail'[p])
    PROVE  EntryIsBacked(p, i)'
  <1>1. /\ RowMove(p) /\ trail[p] \in Seq(TrailType)
        /\ responses[p] \subseteq responses'[p]
    BY RowMoves, ResponsesGrow DEF TypeInv, StoreTypeOK
  <1>2. CASE i \in 1..Len(trail[p]) /\ trail'[p][i] = trail[p][i]
    <2>1. EntryIsBacked(p, i)
      BY <1>2 DEF BackInv
    <2>2. Succeeded(p, i - 1) => Succeeded(p, i - 1)'
      BY AnswersStay
    <2> QED BY <1>1, <1>2, <2>1, <2>2 DEF EntryIsBacked
  <1>3. CASE Born(p)
    BY <1>3 DEF Born, EntryIsBacked
  <1>4. ASSUME NEW from, NEW to, NEW by, Moved(p, from, to, by),
               Update(p, from, to, by), i = Len(trail[p]) + 1
        PROVE  EntryIsBacked(p, i)'
    <2> DEFINE entry == [from |-> from, to |-> to, by |-> by]
    <2>1. entry.to = to /\ entry.by = by /\ trail'[p] = Append(trail[p], entry)
      BY <1>4 DEF Moved
    <2> HIDE DEF entry
    <2>2. trail'[p][i].to = to /\ trail'[p][i].by = by
      BY <1>1, <1>4, <2>1
    <2>3. CASE to # "SUCCESS"
      BY <2>2, <2>3 DEF EntryIsBacked
    <2>4. ASSUME NEW h \in Hooks, HookUpdate(h, p, from, to, by),
                 to = "SUCCESS"
          PROVE  EntryIsBacked(p, i)'
      <3>1. /\ by # "service" /\ Payload[by].pay = p
            /\ Payload[by].status = "success"
        BY <2>4, StoreAssumption DEF HookUpdate, TargetStatus
      <3> QED BY <2>2, <3>1 DEF EntryIsBacked
    <2>5. ASSUME NEW w \in Slots, RunUpdate(w, p, from, to, by),
                 to = "SUCCESS"
          PROVE  EntryIsBacked(p, i)'
      <3>1. /\ run[w].pc = "markSuccess" /\ by = "service"
            /\ run[w].pay = p /\ run[w].ver = row[p].version
        BY <2>5 DEF RunUpdate, RunUpdates, VersionMatches
      <3>2. run[w].ver = i - 1
        BY <1>1, <1>4, <3>1 DEF KnowInv, RowOK
      <3>3. run[w].ver \in responses[p] /\ Succeeded(p, run[w].ver)
        BY <3>1 DEF BackInv, RunIsBacked
      <3>4. i - 1 \in responses'[p] /\ Succeeded(p, i - 1)'
        BY <1>1, <3>2, <3>3, AnswersStay
      <3> QED BY <2>2, <3>1, <3>4 DEF EntryIsBacked
    <2> QED BY <1>4, <2>3, <2>4, <2>5
            DEF Update, RetryUpdate, CancelUpdate
  <1>5. ASSUME NEW from, NEW to, NEW by, Moved(p, from, to, by)
        PROVE  \/ i = Len(trail[p]) + 1
               \/ i \in 1..Len(trail[p]) /\ trail'[p][i] = trail[p][i]
    <2> DEFINE entry == [from |-> from, to |-> to, by |-> by]
    <2>1. trail'[p] = Append(trail[p], entry)
      BY <1>5 DEF Moved
    <2> HIDE DEF entry
    <2> QED BY <1>1, <2>1
  <1> QED BY <1>1, <1>2, <1>3, <1>4, <1>5 DEF RowMove, Kept

LEMMA RunsStayBacked ==
    ASSUME TypeInv, TypeInv', BackInv, [Next]_vars, NEW w \in Slots
    PROVE  RunIsBacked(w)'
  <1> DEFINE p == run[w].pay
             n == run[w].ver
             StillSucceeded == \E j \in 1..Len(calls'[p]) :
                calls'[p][j] = [attempt |-> n, answer |-> "success"]
  <1>1. RunMove(w) /\ RunIsBacked(w)
    BY RunMoves DEF BackInv
  <1>2. CASE run'[w].pc \notin {"record", "markSuccess"}
    BY <1>2 DEF RunIsBacked
  <1>3. ASSUME run[w].pc # "idle"
        PROVE  /\ p \in Payments /\ calls[p] \in Seq(CallType)
               /\ responses[p] \subseteq responses'[p]
               /\ Succeeded(p, n) => StillSucceeded
    <2>1. p \in Payments /\ calls[p] \in Seq(CallType)
      BY <1>3 DEF TypeInv, RunsOK, RunOK, CallsOK
    <2>2. \A q \in Payments : \A m : Succeeded(q, m) => Succeeded(q, m)'
      BY AnswersStay
    <2> QED BY <2>1, <2>2, ResponsesGrow DEF Succeeded
  <1>4. CASE run'[w] = run[w] /\ run[w].pc \in {"record", "markSuccess"}
    BY <1>1, <1>3, <1>4 DEF RunIsBacked, Succeeded
  <1>5. CASE /\ Advance(w, "gateway", "record") /\ run'[w].ver = n
             /\ run'[w].result = "success" =>
                   calls'[p] = Append(calls[p], [attempt |-> n,
                                                 answer  |-> "success"])
    <2> DEFINE entry == [attempt |-> n, answer |-> "success"]
    <2>1. p \in Payments /\ calls[p] \in Seq(CallType)
      BY <1>3, <1>5 DEF Advance
    <2>2. \A e : calls'[p] = Append(calls[p], e) =>
             /\ Len(calls[p]) + 1 \in 1..Len(calls'[p])
             /\ calls'[p][Len(calls[p]) + 1] = e
      BY <2>1
    <2>3. run'[w].result = "success" =>
             \E j \in 1..Len(calls'[p]) : calls'[p][j] = entry
      BY <1>5, <2>2
    <2> QED BY <1>5, <2>3 DEF Advance, RunIsBacked, Succeeded
  <1>6. CASE /\ Advance(w, "record", AfterRecord(run[w].result))
             /\ run'[w].ver = n /\ run'[w].result = run[w].result
             /\ n \in responses'[p]
    <2>1. run'[w].pc = "markSuccess" => run[w].result = "success"
      BY <1>6 DEF Advance, AfterRecord
    <2>2. run[w].result = "success" => StillSucceeded
      BY <1>1, <1>3, <1>6 DEF Advance, RunIsBacked
    <2>3. run'[w].pc # "record"
      BY <1>6 DEF Advance, AfterRecord
    <2> QED BY <1>6, <2>1, <2>2, <2>3 DEF Advance, RunIsBacked, Succeeded
  <1>7. run'[w].pc \in {"record", "markSuccess"} => run'[w].pc \in Knowing
    BY DEF Knowing, Calling
  <1>8. CASE run'[w].pc = "record"
    BY <1>1, <1>4, <1>5, <1>7, <1>8 DEF RunMove, Advance, AfterRecord
  <1>9. CASE run'[w].pc = "markSuccess"
    BY <1>1, <1>4, <1>6, <1>7, <1>9 DEF RunMove, Advance
  <1> QED BY <1>2, <1>8, <1>9

LEMMA InitBack == Init => BackInv
  BY DEF Init, StoreInit, WorkerInit, Idle, BackInv, RunIsBacked

LEMMA NextBack ==
    TypeInv /\ TypeInv' /\ KnowInv /\ BackInv /\ [Next]_vars => BackInv'
  BY EntriesStayBacked, RunsStayBacked DEF BackInv

(* No payment is SUCCESS on the word of a stale run: the success of the    *)
(* trail is the answer to the very attempt it settles, recorded before it, *)
(* or that of a success webhook of the payment.                            *)
THEOREM BackedSuccess == Spec => []SuccessIsBacked
  BY TypesInvariant, VersionsAreKnowledge, InitBack, NextBack,
     BackInvImplies, PTL DEF Spec
=============================================================================
