----------------------- MODULE PaymentSystemWebhooks -----------------------
(***************************************************************************)
(* WebhookExactlyOnce for every value of the constants.  The duplicate     *)
(* test runs before the lock and may be stale, the lock may lapse: what    *)
(* the proof rests on is that the change of the payment and the insert of  *)
(* the unique event id are one transaction.                                *)
(***************************************************************************)
EXTENDS PaymentSystemTypes

AppliedBy(entries, e) == {i \in 1..Len(entries) : entries[i].by = e}

Applied(e) == AppliedBy(trail[Payload[e].pay], e)

(* What WebhookExactlyOnce says of one event.                              *)
OnceOrNever(e) ==
    /\ ~({"PROCESSED", "REJECTED"} \subseteq webhookEvent[e])
    /\ IF "PROCESSED" \in webhookEvent[e] THEN \E i : Applied(e) = {i}
                                          ELSE Applied(e) = {}

(* A payment without a row has no trail.                                   *)
NoRowNoTrail ==
    \A p \in Payments : row[p].status = "ABSENT" => trail[p] = <<>>

EventInv == (\A e \in Events : OnceOrNever(e)) /\ NoRowNoTrail

(* A step that writes payments, if at all, in the name of the service.     *)
ServiceWrite ==
    \E p \in Payments, to \in PaymentStatus : \E from, code :
        Write(p, from, to, "service", code)
ServiceStep ==
    /\ UNCHANGED webhookEvent
    /\ UNCHANGED <<row, trail>> \/ ServiceWrite

(* Appending an entry adds its position for the event that wrote it.       *)
LEMMA AppendApplied ==
    ASSUME NEW S, NEW entries \in Seq(S), NEW entry, NEW e
    PROVE  AppliedBy(Append(entries, entry), e) =
              AppliedBy(entries, e)
                \cup (IF entry.by = e THEN {Len(entries) + 1} ELSE {})
  <1> DEFINE longer == Append(entries, entry)
  <1>1. /\ Len(entries) \in Nat
        /\ Len(longer) = Len(entries) + 1
        /\ longer[Len(entries) + 1] = entry
        /\ \A i \in 1..Len(entries) : longer[i] = entries[i]
    OBVIOUS
  <1>2. 1..Len(longer) = (1..Len(entries)) \cup {Len(entries) + 1}
    BY <1>1
  <1> HIDE DEF longer
  <1>3. AppliedBy(longer, e) =
          AppliedBy(entries, e)
            \cup (IF entry.by = e THEN {Len(entries) + 1} ELSE {})
    BY <1>1, <1>2 DEF AppliedBy
  <1> QED BY <1>3 DEF longer

LEMMA PayloadPay == \A e \in Events : Payload[e].pay \in Payments
  BY PayloadAssumption

(* A write extends the trail of its payment and leaves the others alone.   *)
LEMMA WriteApplied ==
    ASSUME TypeInv, NEW p \in Payments, NEW from, NEW to \in PaymentStatus,
           NEW by, NEW code, Write(p, from, to, by, code), NEW e \in Events
    PROVE  AppliedBy(trail'[Payload[e].pay], e) =
              Applied(e) \cup (IF Payload[e].pay = p /\ by = e
                               THEN {Len(trail[p]) + 1} ELSE {})
  <1> DEFINE entry == [from |-> from, to |-> to, by |-> by]
  <1>1. /\ trail[p] \in Seq(TrailType)
        /\ trail'[p] = Append(trail[p], entry)
        /\ \A q \in Payments : q # p => trail'[q] = trail[q]
    BY DEF Write, TypeInv, StoreTypeOK
  <1>2. CASE Payload[e].pay = p
    <2>1. AppliedBy(Append(trail[p], entry), e) =
            AppliedBy(trail[p], e)
              \cup (IF entry.by = e THEN {Len(trail[p]) + 1} ELSE {})
      BY <1>1, AppendApplied
    <2> QED BY <1>1, <1>2, <2>1 DEF Applied
  <1>3. CASE Payload[e].pay # p
    BY <1>1, <1>3, PayloadPay DEF Applied
  <1> QED BY <1>2, <1>3

LEMMA WriteHasRow ==
    ASSUME TypeInv, NoRowNoTrail, NEW p \in Payments, NEW from,
           NEW to \in PaymentStatus, NEW by, NEW code,
           Write(p, from, to, by, code)
    PROVE  NoRowNoTrail'
  <1>1. /\ row'[p].status = to
        /\ \A q \in Payments : q # p => /\ row'[q] = row[q]
                                        /\ trail'[q] = trail[q]
    BY DEF Write, TypeInv, StoreTypeOK
  <1>2. to # "ABSENT"
    BY DEF PaymentStatus
  <1> QED BY <1>1, <1>2 DEF NoRowNoTrail

LEMMA ServiceKeepsEvents ==
    ASSUME TypeInv, EventInv, ServiceStep
    PROVE  EventInv'
  <1>1. CASE UNCHANGED <<row, trail>>
    BY <1>1 DEF ServiceStep, EventInv, OnceOrNever, Applied, NoRowNoTrail
  <1>2. CASE ServiceWrite
    <2>1. PICK p \in Payments, to \in PaymentStatus :
             \E from, code : Write(p, from, to, "service", code)
      BY <1>2 DEF ServiceWrite
    <2>2. PICK from, code : Write(p, from, to, "service", code)
      BY <2>1
    <2>3. NoRowNoTrail'
      BY <2>2, WriteHasRow DEF EventInv
    <2>4. ASSUME NEW e \in Events PROVE OnceOrNever(e)'
      <3>1. e # "service"
        BY StoreAssumption
      <3>2. Applied(e)' = Applied(e)
        <4>1. AppliedBy(trail'[Payload[e].pay], e) =
                Applied(e) \cup (IF Payload[e].pay = p /\ "service" = e
                                 THEN {Len(trail[p]) + 1} ELSE {})
          BY <2>2, WriteApplied
        <4> QED BY <3>1, <4>1 DEF Applied
      <3> QED BY <3>2 DEF ServiceStep, EventInv, OnceOrNever
    <2> QED BY <2>3, <2>4 DEF EventInv
  <1> QED BY <1>1, <1>2 DEF ServiceStep
-----------------------------------------------------------------------------
(* Which steps write in the name of the service.                           *)

LEMMA StoreKept == UNCHANGED storeVars => ServiceStep
  BY DEF storeVars, ServiceStep

LEMMA TransitionIsService ==
    ASSUME TypeInv, NEW w \in Slots, run[w].pc # "idle", NEW from,
           NEW to \in PaymentStatus, NEW code, NEW next,
           Transition(w, from, to, code, next)
    PROVE  ServiceStep
  <1>1. run[w].pay \in Payments
    BY DEF TypeInv, RunsOK, RunOK
  <1> QED BY <1>1 DEF Transition, TransitionState, ServiceStep, ServiceWrite

LEMMA WorkerIsService ==
    ASSUME TypeInv, NEW w \in Slots, WorkerStep(w) \/ CallFails(w)
    PROVE  ServiceStep
  <1>1. CASE \/ BeginProcessing(w) \/ MarkSuccess(w) \/ MarkFailed(w)
             \/ GiveUp(w) \/ Exhaust(w) \/ ScheduleRetry(w)
    BY <1>1, TransitionIsService
    DEF BeginProcessing, MarkSuccess, MarkFailed, GiveUp, Exhaust,
        ScheduleRetry, At, PaymentStatus
  <1>2. CASE RecordResponse(w)
    BY <1>2 DEF RecordResponse, ServiceStep
  <1>3. CASE \/ \E p \in Payments : TakeProcessJob(w, p)
             \/ AcquireLock(w) \/ FetchPayment(w) \/ GatewayAnswers(w)
             \/ BreakerRejects(w) \/ MarkPending(w) \/ Recheck(w)
             \/ Release(w) \/ Triage(w) \/ Reread(w) \/ EnqueueRetry(w)
             \/ FinishProcessJob(w) \/ CallFails(w)
    BY <1>3, StoreKept
    DEF TakeProcessJob, AcquireLock, FetchPayment, GatewayAnswers,
        BreakerRejects, MarkPending, Recheck, Release, Triage, Reread,
        EnqueueRetry, FinishProcessJob, CallFails
  <1> QED BY <1>1, <1>2, <1>3 DEF WorkerStep

LEMMA RetryIsService ==
    ASSUME TypeInv, NEW r \in RetrySlots, RetryStep(r) \/ RetryCallFails(r)
    PROVE  ServiceStep
  <1>1. CASE Requeue(r)
    <2>1. retrying[r].pay \in Payments
      BY <1>1 DEF Requeue, TypeInv, RetriesOK, RetryOK
    <2> QED BY <1>1, <2>1
            DEF Requeue, TransitionState, ServiceStep, ServiceWrite,
                PaymentStatus
  <1> QED BY <1>1, StoreKept
          DEF RetryStep, RetryCallFails, TakeRetryJob, ReadForRetry,
              EnqueueAgain, FinishRetryJob

LEMMA ApiKeepsEvents ==
    ASSUME TypeInv, EventInv, NEW p \in Payments, ApiStep(p)
    PROVE  EventInv'
  <1>1. CASE CreatePayment(p)
    <2> DEFINE opening ==
                 <<[from |-> None, to |-> "CREATED", by |-> "service"],
                   [from |-> "CREATED", to |-> "PENDING",
                    by |-> "service"]>>
    <2>1. /\ trail'[p] = opening
          /\ row'[p].status = "PENDING"
          /\ \A q \in Payments : q # p => /\ row'[q] = row[q]
                                          /\ trail'[q] = trail[q]
          /\ UNCHANGED webhookEvent
      BY <1>1 DEF CreatePayment, InsertPayment, TypeInv, StoreTypeOK
    <2>2. trail[p] = <<>>
      BY <1>1
      DEF CreatePayment, InsertPayment, Absent, EventInv, NoRowNoTrail
    <2>3. NoRowNoTrail'
      BY <2>1 DEF EventInv, NoRowNoTrail
    <2>4. ASSUME NEW e \in Events PROVE Applied(e)' = Applied(e)
      <3>1. CASE Payload[e].pay = p
        <4>1. \A i \in 1..2 : opening[i].by # e
          BY StoreAssumption
        <4>2. AppliedBy(opening, e) = {} /\ AppliedBy(<<>>, e) = {}
          BY <4>1 DEF AppliedBy
        <4> QED BY <2>1, <2>2, <3>1, <4>2 DEF Applied
      <3>2. CASE Payload[e].pay # p
        BY <2>1, <3>2, PayloadPay DEF Applied
      <3> QED BY <3>1, <3>2
    <2> QED BY <2>1, <2>3, <2>4 DEF EventInv, OnceOrNever
  <1>2. CASE CancelPayment(p)
    <2>1. ServiceStep
      BY <1>2 DEF CancelPayment, TransitionState, ServiceStep, ServiceWrite,
                  PaymentStatus
    <2> QED BY <2>1, ServiceKeepsEvents
  <1>3. CASE EnqueuePayment(p) \/ ReadForCancel(p)
    BY <1>3, StoreKept, ServiceKeepsEvents DEF EnqueuePayment, ReadForCancel
  <1> QED BY <1>1, <1>2, <1>3 DEF ApiStep
-----------------------------------------------------------------------------
(* The steps of a webhook request.                                         *)

(* A status is recorded for an event that has none of the two.             *)
LEMMA RecordKeepsOthers ==
    ASSUME TypeInv, NEW e \in Events, NEW status, RecordEvent(e, status)
    PROVE  /\ webhookEvent'[e] = webhookEvent[e] \cup {status}
           /\ \A f \in Events : f # e => webhookEvent'[f] = webhookEvent[f]
  BY DEF RecordEvent, TypeInv, StoreTypeOK

LEMMA HookKeepsEvents ==
    ASSUME TypeInv, EventInv, NEW h \in Hooks, HookStep(h) \/ HookCallFails(h)
    PROVE  EventInv'
  <1> DEFINE e == hook[h].event
             p == Payload[e].pay
  <1>e. hook[h].pc # "idle" => e \in Events /\ p \in Payments
    BY PayloadPay DEF TypeInv, HooksOK, HookOK
  <1>f. UNCHANGED <<row, trail>> =>
          NoRowNoTrail' /\ \A f \in Events : Applied(f)' = Applied(f)
    BY DEF EventInv, NoRowNoTrail, Applied
  <1>1. CASE RecordDuplicate(h)
    <2>1. e \in Events /\ RecordEvent(e, "DUPLICATE")
            /\ UNCHANGED <<row, trail>>
      BY <1>1, <1>e DEF RecordDuplicate, HookAt
    <2>2. \A f \in Events : \A s \in {"PROCESSED", "REJECTED"} :
             s \in webhookEvent'[f] <=> s \in webhookEvent[f]
      BY <2>1, RecordKeepsOthers
    <2> QED BY <1>f, <2>1, <2>2 DEF EventInv, OnceOrNever
  <1>2. CASE RejectEvent(h)
    <2>1. UNCHANGED <<row, trail>> /\ e \in Events
      BY <1>2, <1>e DEF RejectEvent, HookAt
    <2>2. CASE CanRecord(e)
      <3>1. RecordEvent(e, "REJECTED")
        BY <1>2, <2>2 DEF RejectEvent
      <3>2. /\ "PROCESSED" \notin webhookEvent[e]
            /\ webhookEvent'[e] = webhookEvent[e] \cup {"REJECTED"}
            /\ \A f \in Events :
                  f # e => webhookEvent'[f] = webhookEvent[f]
        BY <2>1, <2>2, <3>1, RecordKeepsOthers DEF CanRecord, EventRecorded
      <3> QED BY <1>f, <2>1, <3>2 DEF EventInv, OnceOrNever
    <2>3. CASE ~CanRecord(e)
      BY <1>2, <2>1, <2>3, ServiceKeepsEvents DEF RejectEvent, ServiceStep
    <2> QED BY <2>2, <2>3
  <1>3. CASE ApplyEvent(h)
    <2>1. e \in Events /\ p \in Payments
      BY <1>3, <1>e DEF ApplyEvent, HookAt
    <2>2. CASE VersionMatches(p, hook[h].ver) /\ CanRecord(e)
      <3>1. /\ Write(p, hook[h].from, TargetStatus(e), e, Payload[e].code)
            /\ RecordEvent(e, "PROCESSED")
        BY <1>3, <2>2 DEF ApplyEvent
      <3>2. TargetStatus(e) \in PaymentStatus
        BY DEF TargetStatus, PaymentStatus
      <3>3. NoRowNoTrail'
        BY <2>1, <3>1, <3>2, WriteHasRow DEF EventInv
      <3>4. /\ "PROCESSED" \notin webhookEvent[e]
            /\ "REJECTED" \notin webhookEvent[e]
            /\ webhookEvent'[e] = webhookEvent[e] \cup {"PROCESSED"}
            /\ \A f \in Events :
                  f # e => webhookEvent'[f] = webhookEvent[f]
        BY <2>1, <2>2, <3>1, RecordKeepsOthers DEF CanRecord, EventRecorded
      <3>5. ASSUME NEW f \in Events
            PROVE  Applied(f)' = Applied(f) \cup
                     (IF f = e THEN {Len(trail[p]) + 1} ELSE {})
        <4>1. AppliedBy(trail'[Payload[f].pay], f) =
                Applied(f) \cup (IF Payload[f].pay = p /\ e = f
                                 THEN {Len(trail[p]) + 1} ELSE {})
          BY <2>1, <3>1, <3>2, WriteApplied
        <4> QED BY <4>1 DEF Applied
      <3>6. ASSUME NEW f \in Events PROVE OnceOrNever(f)'
        <4>1. CASE f = e
          <5>1. Applied(e) = {}
            BY <2>1, <3>4 DEF EventInv, OnceOrNever
          <5>2. Applied(f)' = {Len(trail[p]) + 1}
            BY <3>5, <4>1, <5>1
          <5> QED BY <3>4, <4>1, <5>2 DEF OnceOrNever
        <4>2. CASE f # e
          <5>1. Applied(f)' = Applied(f) /\ webhookEvent'[f] = webhookEvent[f]
            BY <3>4, <3>5, <4>2
          <5> QED BY <5>1 DEF EventInv, OnceOrNever
        <4> QED BY <4>1, <4>2
      <3> QED BY <3>3, <3>6 DEF EventInv
    <2>3. CASE ~(VersionMatches(p, hook[h].ver) /\ CanRecord(e))
      BY <1>3, <2>3, ServiceKeepsEvents DEF ApplyEvent, ServiceStep
    <2> QED BY <2>2, <2>3
  <1>4. CASE \/ Dedup(h) \/ AcquireForHook(h) \/ FetchForHook(h)
             \/ ReleaseHook(h) \/ HookCallFails(h)
    BY <1>4, StoreKept, ServiceKeepsEvents
    DEF Dedup, AcquireForHook, FetchForHook, ReleaseHook, HookCallFails
  <1> QED BY <1>1, <1>2, <1>3, <1>4 DEF HookStep
-----------------------------------------------------------------------------
LEMMA InitEvents == Init => EventInv
  <1> SUFFICES ASSUME Init PROVE EventInv
    OBVIOUS
  <1>1. /\ \A p \in Payments : trail[p] = <<>>
        /\ \A e \in Events : webhookEvent[e] = {}
    BY DEF Init, StoreInit
  <1>2. \A e \in Events : Applied(e) = {}
    BY <1>1, PayloadPay DEF Applied, AppliedBy
  <1> QED BY <1>1, <1>2 DEF EventInv, OnceOrNever, NoRowNoTrail

LEMMA NextEvents == TypeInv /\ EventInv /\ [Next]_vars => EventInv'
  <1> SUFFICES ASSUME TypeInv, EventInv, [Next]_vars PROVE EventInv'
    OBVIOUS
  <1>1. ASSUME NEW p \in Payments, Api(p) PROVE EventInv'
    BY <1>1, ApiKeepsEvents DEF Api
  <1>2. ASSUME NEW w \in Slots, Worker(w) PROVE EventInv'
    BY <1>2, WorkerIsService, ServiceKeepsEvents DEF Worker
  <1>3. ASSUME NEW r \in RetrySlots, Retry(r) PROVE EventInv'
    BY <1>3, RetryIsService, ServiceKeepsEvents DEF Retry
  <1>4. ASSUME NEW h \in Hooks, Webhook(h) PROVE EventInv'
    BY <1>4, HookKeepsEvents DEF Webhook
  <1>5. CASE \/ \E h \in Hooks, e \in Events : Send(h, e)
             \/ \E p \in Payments : ExpireLock(p)
             \/ \E id \in JobIds : RedeliverJob(id)
             \/ \E id \in JobIds : EvictJob(id)
             \/ \E dead \in SUBSET Tasks, clients \in SUBSET Payments :
                   Crash(dead, clients)
             \/ UNCHANGED vars
    <2>1. UNCHANGED storeVars
      BY <1>5 DEF Send, Deliver, ExpireLock, RedeliverJob, EvictJob, Crash,
                  vars
    <2> QED BY <2>1, StoreKept, ServiceKeepsEvents
  <1> QED BY <1>1, <1>2, <1>3, <1>4, <1>5 DEF Next

(* A webhook event changes its payment exactly once when it is recorded    *)
(* PROCESSED and never otherwise, however deliveries overlap and however   *)
(* many there are.                                                         *)
THEOREM EventsOnce == Spec => []WebhookExactlyOnce
  <1>1. EventInv => WebhookExactlyOnce
    <2> SUFFICES ASSUME EventInv, NEW e \in Events
                 PROVE  /\ ~({"PROCESSED", "REJECTED"}
                               \subseteq webhookEvent[e])
                        /\ IF "PROCESSED" \in webhookEvent[e]
                           THEN \E i \in Applied(e) : Applied(e) = {i}
                           ELSE Applied(e) = {}
      BY DEF WebhookExactlyOnce, Applied, AppliedBy
    <2> QED BY DEF EventInv, OnceOrNever
  <1> QED BY <1>1, TypesInvariant, InitEvents, NextEvents, PTL DEF Spec
-----------------------------------------------------------------------------
(* What a delivery that is about to be answered 200 has behind it.         *)

AnswerInv ==
    \A h \in Hooks :
        hook[h].pc \in {"duplicate", "release"}
            => EventRecorded(hook[h].event)

(* The step leaves event e on record.                                      *)
RecordedAfter(e) == webhookEvent'[e] \cap {"PROCESSED", "REJECTED"} # {}

(* Records of events are never taken back.                                 *)
RecordsStay == \A e \in Events : EventRecorded(e) => RecordedAfter(e)

LEMMA UnchangedRecordsStay == UNCHANGED webhookEvent => RecordsStay
  BY DEF RecordsStay, EventRecorded, RecordedAfter

LEMMA RecordingStays ==
    ASSUME TypeInv, NEW e \in Events, NEW status, RecordEvent(e, status)
    PROVE  RecordsStay
  BY RecordKeepsOthers DEF RecordsStay, EventRecorded, RecordedAfter

(* Where a request is after it moved.                                      *)
LEMMA HookMoves ==
    ASSUME TypeInv, NEW h \in Hooks, NEW pc, HookGoto(h, pc)
    PROVE  /\ hook'[h].pc = pc
           /\ pc # "idle" => hook'[h].event = hook[h].event
           /\ \A g \in Hooks : g # h => hook'[g] = hook[g]
  BY DEF HookGoto, HookIdle, TypeInv, HooksOK

(* A step of one request keeps AnswerInv when records stay and the request *)
(* comes to "duplicate" or "release" only with its event on record.        *)
LEMMA OneHookMoves ==
    ASSUME TypeInv, AnswerInv, RecordsStay, NEW h \in Hooks,
           \A g \in Hooks : g # h => hook'[g] = hook[g],
           hook'[h].pc \in {"duplicate", "release"}
               => RecordedAfter(hook'[h].event)
    PROVE  AnswerInv'
  <1> SUFFICES ASSUME NEW g \in Hooks, g # h,
                      hook[g].pc \in {"duplicate", "release"}
               PROVE  RecordedAfter(hook[g].event)
    BY DEF AnswerInv, EventRecorded, RecordedAfter
  <1>1. hook[g].event \in Events
    BY DEF TypeInv, HooksOK, HookOK
  <1> QED BY <1>1 DEF AnswerInv, RecordsStay

LEMMA HandlerIsNoAnswer == \A pc : HookHandler(pc) \in {"abort", "idle"}
  BY DEF HookHandler

LEMMA HookKeepsAnswers ==
    ASSUME TypeInv, AnswerInv, NEW h \in Hooks,
           HookStep(h) \/ HookCallFails(h)
    PROVE  AnswerInv'
  <1> DEFINE e == hook[h].event
             leaves(pc) == HookGoto(h, pc) /\ pc \notin {"duplicate",
                                                         "release"}
  <1>e. hook[h].pc # "idle" => e \in Events
    BY DEF TypeInv, HooksOK, HookOK
  <1>l. ASSUME NEW pc, leaves(pc), RecordsStay PROVE AnswerInv'
    BY <1>l, HookMoves, OneHookMoves
  <1>t. ASSUME HookThrows(h), RecordsStay PROVE AnswerInv'
    <2>1. leaves(HookHandler(hook[h].pc))
      BY <1>t, HandlerIsNoAnswer DEF HookThrows
    <2> QED BY <1>l, <1>t, <2>1
  <1>r. ASSUME NEW pc, HookReturns(h, pc), RecordsStay,
               leaves(pc) \/ (e \in Events /\ RecordedAfter(e))
        PROVE  AnswerInv'
    <2>1. CASE HookGoto(h, pc)
      <3>1. CASE leaves(pc)
        BY <1>l, <1>r, <3>1
      <3>2. CASE ~leaves(pc)
        <4>1. /\ hook'[h].event = e
              /\ \A g \in Hooks : g # h => hook'[g] = hook[g]
          BY <2>1, <3>2, HookMoves
        <4>2. RecordedAfter(hook'[h].event)
          BY <1>r, <3>2, <4>1
        <4> QED BY <1>r, <4>1, <4>2, OneHookMoves
      <3> QED BY <3>1, <3>2
    <2>2. CASE HookGoto(h, HookHandler(hook[h].pc))
      <3>1. leaves(HookHandler(hook[h].pc))
        BY <2>2, HandlerIsNoAnswer
      <3> QED BY <1>l, <1>r, <3>1
    <2> QED BY <1>r, <2>1, <2>2 DEF HookReturns
  <1>1. CASE Dedup(h)
    <2>1. RecordsStay /\ e \in Events
      BY <1>1, <1>e, UnchangedRecordsStay DEF Dedup, HookAt, storeVars
    <2>2. CASE EventRecorded(e)
      <3>1. /\ hook'[h].event = e
            /\ \A g \in Hooks : g # h => hook'[g] = hook[g]
        BY <1>1, <2>2, HookMoves DEF Dedup
      <3>2. RecordedAfter(hook'[h].event)
        BY <2>1, <2>2, <3>1 DEF RecordsStay
      <3> QED BY <2>1, <3>1, <3>2, OneHookMoves
    <2>3. CASE ~EventRecorded(e)
      <3>1. leaves("acquire")
        BY <1>1, <2>3 DEF Dedup
      <3> QED BY <1>l, <2>1, <3>1
    <2> QED BY <2>2, <2>3
  <1>2. CASE RecordDuplicate(h)
    <2>1. RecordsStay
      BY <1>2, <1>e, RecordingStays DEF RecordDuplicate, HookAt
    <2>2. leaves("idle")
      BY <1>2 DEF RecordDuplicate
    <2> QED BY <1>l, <2>1, <2>2
  <1>3. CASE AcquireForHook(h)
    <2>1. RecordsStay
      BY <1>3, UnchangedRecordsStay DEF AcquireForHook, storeVars
    <2>2. CASE HookThrows(h)
      BY <1>t, <2>1, <2>2
    <2>3. CASE HookReturns(h, "fetch")
      <3>1. \/ leaves("fetch")
            \/ leaves(HookHandler(hook[h].pc))
        BY <2>3, HandlerIsNoAnswer DEF HookReturns
      <3> QED BY <1>l, <2>1, <3>1
    <2> QED BY <1>3, <2>2, <2>3 DEF AcquireForHook
  <1>4. CASE FetchForHook(h)
    <2>1. RecordsStay
      BY <1>4, UnchangedRecordsStay DEF FetchForHook, storeVars
    <2>2. CASE HookGoto(h, "reject")
      <3>1. leaves("reject")
        BY <2>2
      <3> QED BY <1>l, <2>1, <3>1
    <2>3. CASE ~HookGoto(h, "reject")
      <3>1. /\ hook'[h].pc = "apply"
            /\ \A g \in Hooks : g # h => hook'[g] = hook[g]
        BY <1>4, <2>3 DEF FetchForHook, TypeInv, HooksOK
      <3> QED BY <2>1, <3>1, OneHookMoves
    <2> QED BY <2>2, <2>3
  <1>5. CASE RejectEvent(h)
    <2>1. e \in Events
      BY <1>5, <1>e DEF RejectEvent, HookAt
    <2>2. CASE CanRecord(e)
      <3>1. RecordEvent(e, "REJECTED") /\ HookReturns(h, "release")
        BY <1>5, <2>2 DEF RejectEvent
      <3>2. RecordsStay /\ RecordedAfter(e)
        BY <2>1, <3>1, RecordingStays, RecordKeepsOthers DEF RecordedAfter
      <3> QED BY <1>r, <2>1, <3>1, <3>2
    <2>3. CASE ~CanRecord(e)
      <3>1. HookThrows(h) /\ RecordsStay
        BY <1>5, <2>3, UnchangedRecordsStay DEF RejectEvent
      <3> QED BY <1>t, <3>1
    <2> QED BY <2>2, <2>3
  <1>6. CASE ApplyEvent(h)
    <2>1. e \in Events
      BY <1>6, <1>e DEF ApplyEvent, HookAt
    <2>2. CASE HookReturns(h, "release") /\ RecordEvent(e, "PROCESSED")
      <3>1. RecordsStay /\ RecordedAfter(e)
        BY <2>1, <2>2, RecordingStays, RecordKeepsOthers DEF RecordedAfter
      <3> QED BY <1>r, <2>1, <2>2, <3>1
    <2>3. CASE HookThrows(h) /\ UNCHANGED webhookEvent
      BY <1>t, <2>3, UnchangedRecordsStay
    <2> QED BY <1>6, <2>2, <2>3 DEF ApplyEvent
  <1>7. CASE ReleaseHook(h)
    <2>1. RecordsStay
      BY <1>7, UnchangedRecordsStay DEF ReleaseHook, storeVars
    <2>2. \/ leaves("idle")
          \/ leaves(HookHandler(hook[h].pc))
      BY <1>7, HandlerIsNoAnswer DEF ReleaseHook, HookReturns
    <2> QED BY <1>l, <2>1, <2>2
  <1>8. CASE HookCallFails(h)
    <2>1. RecordsStay
      BY <1>8, UnchangedRecordsStay DEF HookCallFails, storeVars
    <2>2. leaves(HookHandler(hook[h].pc))
      BY <1>8, HandlerIsNoAnswer DEF HookCallFails
    <2> QED BY <1>l, <2>1, <2>2
  <1> QED BY <1>1, <1>2, <1>3, <1>4, <1>5, <1>6, <1>7, <1>8 DEF HookStep

LEMMA InitAnswers == Init => AnswerInv
  BY DEF Init, HookInit, HookIdle, AnswerInv

LEMMA NextAnswers == TypeInv /\ AnswerInv /\ [Next]_vars => AnswerInv'
  <1> SUFFICES ASSUME TypeInv, AnswerInv, [Next]_vars PROVE AnswerInv'
    OBVIOUS
  <1>s. ASSUME ServiceStep, UNCHANGED hook PROVE AnswerInv'
    BY <1>s DEF ServiceStep, AnswerInv, EventRecorded
  <1>1. ASSUME NEW p \in Payments, Api(p) PROVE AnswerInv'
    <2>1. UNCHANGED <<webhookEvent, hook>>
      BY <1>1 DEF Api, ApiStep, CreatePayment, EnqueuePayment, ReadForCancel,
                  CancelPayment, InsertPayment, TransitionState, Write,
                  storeVars
    <2> QED BY <2>1 DEF AnswerInv, EventRecorded
  <1>2. ASSUME NEW w \in Slots, Worker(w) PROVE AnswerInv'
    BY <1>2, <1>s, WorkerIsService DEF Worker
  <1>3. ASSUME NEW r \in RetrySlots, Retry(r) PROVE AnswerInv'
    BY <1>3, <1>s, RetryIsService DEF Retry
  <1>4. ASSUME NEW h \in Hooks, Webhook(h) PROVE AnswerInv'
    BY <1>4, HookKeepsAnswers DEF Webhook
  <1>5. ASSUME NEW h \in Hooks, NEW e \in Events, Send(h, e)
        PROVE  AnswerInv'
    <2>1. /\ RecordsStay
          /\ hook'[h].pc = "dedup"
          /\ \A g \in Hooks : g # h => hook'[g] = hook[g]
      BY <1>5, UnchangedRecordsStay
      DEF Send, Deliver, storeVars, TypeInv, HooksOK
    <2> QED BY <2>1, OneHookMoves
  <1>6. ASSUME NEW dead \in SUBSET Tasks, NEW clients \in SUBSET Payments,
               Crash(dead, clients)
        PROVE  AnswerInv'
    BY <1>6 DEF Crash, storeVars, HookIdle, AnswerInv, EventRecorded
  <1>7. CASE \/ \E p \in Payments : ExpireLock(p)
             \/ \E id \in JobIds : RedeliverJob(id)
             \/ \E id \in JobIds : EvictJob(id)
             \/ UNCHANGED vars
    BY <1>7 DEF ExpireLock, RedeliverJob, EvictJob, vars, storeVars,
                AnswerInv, EventRecorded
  <1> QED BY <1>1, <1>2, <1>3, <1>4, <1>5, <1>6, <1>7 DEF Next

(* A delivery answered 200 has its event on record, through any failure,   *)
(* crash or lapse of a lock and for any number of deliveries.              *)
THEOREM AcknowledgedIsRecorded == Spec => AckedIsRecorded
  <1>1. AnswerInv =>
          \A h \in Hooks :
              /\ hook[h].pc \in {"duplicate", "release"}
              /\ hook'[h].pc = "idle" /\ faults' = faults
              => EventRecorded(hook[h].event)
    BY DEF AnswerInv
  <1> QED BY <1>1, TypesInvariant, InitAnswers, NextAnswers, PTL
          DEF Spec, AckedIsRecorded
=============================================================================
