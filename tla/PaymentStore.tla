---------------------------- MODULE PaymentStore ----------------------------
(***************************************************************************)
(* The PostgreSQL tables of the gateway as the services use them through   *)
(* Prisma: payments (row), the status changes of payment_events (trail),   *)
(* its gateway_response events (responses) and webhook_events              *)
(* (webhookEvent).  A $transaction is one step.  An update is guarded by   *)
(* the version the caller expects and never by the status; the status the  *)
(* trail records as `from` is the one the caller claims, which is why it   *)
(* is a parameter here and not read from the row.                          *)
(***************************************************************************)
EXTENDS Deployment, Sequences

CONSTANTS
    Events,         \* the gateway's webhook event ids
    MaxRetries      \* payments.max_retries, copied from config at creation

ASSUME StoreAssumption ==
    MaxRetries \in Nat /\ "service" \notin Events

VARIABLES
    row,            \* row[p]: the columns of payment p the services read
    trail,          \* trail[p]: the status changes recorded for p, in order
    responses,      \* responses[p]: attempts with a gateway_response event
    webhookEvent    \* webhookEvent[e]: statuses recorded for event e

storeVars == <<row, trail, responses, webhookEvent>>

Absent == [status |-> "ABSENT", version |-> 0, retryCount |-> 0,
           errorCode |-> None]

RowType == [status : PaymentStatus \cup {"ABSENT"}, version : Nat,
            retryCount : Nat, errorCode : GatewayErrorCode \cup {None}]

(* An entry of the trail: who made the change is the webhook event that    *)
(* carried it, or the service itself.                                      *)
TrailType == [from : PaymentStatus \cup {None}, to : PaymentStatus,
              by : Events \cup {"service"}]

StoreTypeOK ==
    /\ row \in [Payments -> RowType]
    /\ trail \in [Payments -> Seq(TrailType)]
    /\ responses \in [Payments -> SUBSET Nat]
    /\ webhookEvent \in
           [Events -> SUBSET {"PROCESSED", "REJECTED", "DUPLICATE"}]

StoreInit ==
    /\ row = [p \in Payments |-> Absent]
    /\ trail = [p \in Payments |-> <<>>]
    /\ responses = [p \in Payments |-> {}]
    /\ webhookEvent = [e \in Events |-> {}]
-----------------------------------------------------------------------------
(* Bug: the update names the id only and not the version.                  *)
AnyVersionMatches(p, version) == row[p].version \in Nat

VersionMatches(p, version) == row[p].version = version

(* update ... version + 1, and the event of the same transaction.  A null  *)
(* code leaves the error_code column as it is.                             *)
Write(p, from, to, by, code) ==
    /\ row' = [row EXCEPT ![p] =
                 [status     |-> to,
                  version    |-> @.version + 1,
                  retryCount |-> IF to = "RETRY_SCHEDULED"
                                 THEN @.retryCount + 1 ELSE @.retryCount,
                  errorCode  |-> IF code = None THEN @.errorCode ELSE code]]
    /\ trail' = [trail EXCEPT ![p] =
                   Append(@, [from |-> from, to |-> to, by |-> by])]

(* transitionStateInTx once it does not throw: the claimed transition is   *)
(* validated first, then the version.                                      *)
CanTransition(p, from, to, version) ==
    IsValidStateTransition(from, to) /\ VersionMatches(p, version)

TransitionState(p, from, to, code) == Write(p, from, to, "service", code)

(* The transaction of createPayment: the row is inserted as CREATED with   *)
(* version 1 and moved to PENDING before anyone can see it.                *)
InsertPayment(p) ==
    /\ row[p] = Absent
    /\ row' = [row EXCEPT ![p] = 
                 [status |-> "PENDING", version |-> 2, retryCount |-> 0,
                  errorCode |-> None]]
    /\ trail' = [trail EXCEPT ![p] =
                   <<[from |-> None, to |-> "CREATED", by |-> "service"],
                     [from |-> "CREATED", to |-> "PENDING",
                      by |-> "service"]>>]

(* webhook_events.event_id is unique, and DUPLICATE rows get an id of      *)
(* their own.                                                              *)
EventRecorded(e) == webhookEvent[e] \cap {"PROCESSED", "REJECTED"} # {}
RecordEvent(e, status) ==
    webhookEvent' = [webhookEvent EXCEPT ![e] = @ \cup {status}]

(* Bug: off by one.                                                        *)
CanRetryOnceMore(p, code) ==
    IsRetryableError(code) /\ row[p].retryCount <= MaxRetries

CanRetry(p, code) ==
    IsRetryableError(code) /\ row[p].retryCount < MaxRetries
=============================================================================
