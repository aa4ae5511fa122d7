--------------------------- MODULE WebhookService ---------------------------
(***************************************************************************)
(* WebhookService.processWebhook after the signature check.  The gateway   *)
(* delivers an event at any time, as often as it likes and concurrently;   *)
(* what an event says (Payload) never changes.  The duplicate test runs    *)
(* before the lock is taken, everything after it under the lock.           *)
(***************************************************************************)
EXTENDS RetryWorker

CONSTANT Payload    \* Payload[e]: the payment, outcome and code e reports

ASSUME PayloadAssumption ==
    Payload \in [Events -> [pay    : Payments,
                            status : {"success", "failed"},
                            code   : GatewayErrorCode \cup {None}]]

VARIABLE hook       \* hook[h]: the webhook request h is handling

HookInLock == {"fetch", "reject", "apply", "release", "abort"}
HookPC == {"idle", "dedup", "duplicate", "acquire"} \cup HookInLock
HookType == [pc : HookPC, event : Events \cup {None}, ver : Nat,
             from : PaymentStatus \cup {None}]

HookIdle == [pc |-> "idle", event |-> None, ver |-> 0, from |-> None]

HookTypeOK == hook \in [Hooks -> HookType]
HookInit == hook = [h \in Hooks |-> HookIdle]

TargetStatus(e) == IF Payload[e].status = "success" THEN "SUCCESS"
                                                    ELSE "FAILED"

HookAt(h, pc) == hook[h].pc = pc
HookGoto(h, pc) ==
    hook' = [hook EXCEPT ![h] =
               IF pc = "idle" THEN HookIdle
               ELSE [pc |-> pc, event |-> hook[h].event, ver |-> 0,
                     from |-> None]]

(* Bug: an exception of the critical section is logged and swallowed.      *)
SwallowsException(pc) ==
    IF pc \in {"fetch", "reject", "apply"} THEN "release" ELSE "idle"

(* Bug: withLock without its finally.                                      *)
SkipsFinally(pc) == "idle"

(* An exception inside withLock runs its finally and then leaves the       *)
(* request with an error ("abort"), any other ends the request at once.    *)
(* A request that returns goes through "release" and is answered 200.      *)
HookHandler(pc) ==
    IF pc \in {"fetch", "reject", "apply"} THEN "abort" ELSE "idle"
HookThrows(h) == HookGoto(h, HookHandler(hook[h].pc)) /\ UNCHANGED faults
HookReturns(h, pc) ==
    \/ HookGoto(h, pc) /\ UNCHANGED faults
    \/ HookGoto(h, HookHandler(hook[h].pc)) /\ SpendFault

HookCallFails(h) ==
    /\ ~HookAt(h, "idle")
    /\ SpendFault
    /\ HookGoto(h, HookHandler(hook[h].pc))
    /\ UNCHANGED <<storeVars, lock>>
-----------------------------------------------------------------------------
Deliver(h, e) ==
    /\ HookAt(h, "idle")
    /\ hook' = [hook EXCEPT ![h] = [pc |-> "dedup", event |-> e, ver |-> 0,
                                    from |-> None]]
    /\ UNCHANGED <<storeVars, lock, faults>>

Dedup(h) ==
    /\ HookAt(h, "dedup")
    /\ HookGoto(h, IF EventRecorded(hook[h].event)
                   THEN "duplicate" ELSE "acquire")
    /\ UNCHANGED <<storeVars, lock, faults>>

RecordDuplicate(h) ==
    /\ HookAt(h, "duplicate")
    /\ RecordEvent(hook[h].event, "DUPLICATE")
    /\ HookGoto(h, "idle")
    /\ UNCHANGED <<row, trail, responses, lock, faults>>

(* Bug: the critical section runs also when the lock is taken.             *)
EnterWithoutLock(h) ==
    LET p == Payload[hook[h].event].pay IN
    /\ HookAt(h, "acquire")
    /\ IF LockFree(p) THEN SetLock(p, h) ELSE UNCHANGED lock
    /\ HookReturns(h, "fetch")
    /\ UNCHANGED storeVars

AcquireForHook(h) ==
    LET p == Payload[hook[h].event].pay IN
    /\ HookAt(h, "acquire")
    /\ IF LockFree(p) THEN SetLock(p, h) /\ HookReturns(h, "fetch")
                      ELSE HookThrows(h) /\ UNCHANGED lock
    /\ UNCHANGED storeVars

(* Bug: the transition is looked up the wrong way round.                   *)
AcceptsReversed(status, target) ==
    /\ status \notin {"ABSENT"} \cup TerminalStates
    /\ IsValidStateTransition(target, status)

(* Not found, terminal and invalid transition all end in REJECTED.         *)
Accepts(status, target) ==
    /\ status \notin {"ABSENT"} \cup TerminalStates
    /\ IsValidStateTransition(status, target)

FetchForHook(h) ==
    LET e == hook[h].event
        current == row[Payload[e].pay]
    IN  /\ HookAt(h, "fetch")
        /\ IF Accepts(current.status, TargetStatus(e))
           THEN hook' = [hook EXCEPT ![h] =
                               [pc |-> "apply", event |-> e,
                                ver |-> current.version,
                                from |-> current.status]]
           ELSE HookGoto(h, "reject")
        /\ UNCHANGED <<storeVars, lock, faults>>

(* Bug: event_id is not unique.                                            *)
CanRecordAgain(e) == row[Payload[e].pay].status # "ABSENT"

(* The insert needs the payment (foreign key) and a new event id.          *)
CanRecord(e) == row[Payload[e].pay].status # "ABSENT" /\ ~EventRecorded(e)

RejectEvent(h) ==
    LET e == hook[h].event IN
    /\ HookAt(h, "reject")
    /\ IF CanRecord(e)
       THEN RecordEvent(e, "REJECTED") /\ HookReturns(h, "release")
       ELSE HookThrows(h) /\ UNCHANGED webhookEvent
    /\ UNCHANGED <<row, trail, responses, lock>>

(* Payment, payment event and webhook event in one transaction: it rolls   *)
(* back when the version moved or the event id exists.                     *)
ApplyEvent(h) ==
    LET e == hook[h].event
        p == Payload[e].pay
    IN  /\ HookAt(h, "apply")
        /\ IF VersionMatches(p, hook[h].ver) /\ CanRecord(e)
           THEN /\ Write(p, hook[h].from, TargetStatus(e), e,
                         Payload[e].code)
                /\ RecordEvent(e, "PROCESSED")
                /\ HookReturns(h, "release")
           ELSE /\ HookThrows(h)
                /\ UNCHANGED <<row, trail, webhookEvent>>
        /\ UNCHANGED <<responses, lock>>

ReleaseHook(h) ==
    /\ HookAt(h, "release") \/ HookAt(h, "abort")
    /\ ReleaseLock(Payload[hook[h].event].pay, h)
    /\ HookReturns(h, "idle")
    /\ UNCHANGED storeVars

HookStep(h) ==
    \/ Dedup(h) \/ RecordDuplicate(h) \/ AcquireForHook(h)
    \/ FetchForHook(h) \/ RejectEvent(h) \/ ApplyEvent(h) \/ ReleaseHook(h)
=============================================================================
