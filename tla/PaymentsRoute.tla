--------------------------- MODULE PaymentsRoute ---------------------------
(***************************************************************************)
(* POST /api/v1/payments as app.ts and payment.routes.ts wire it: the rate *)
(* limiter, the validation of the body, the idempotency middleware and the *)
(* handler, in this order.  All requests come from one client address.  An *)
(* error of a middleware goes to the error handler, which answers with the *)
(* status of its class; a request that is answered goes no further.        *)
(***************************************************************************)
EXTENDS Idempotency, FiniteSets

CONSTANTS
    ValidFields,            \* the fields createPaymentSchema accepts
    MaxRequests, Window, MaxDelay, Processes, MaxTime   \* of RateLimiter

ASSUME ValidAssumption == ValidFields \subseteq Fields

VARIABLES now, entries, at, stamp, added                \* of RateLimiter

Limiter == INSTANCE RateLimiter

ASSUME LimiterAssumption == Limiter!Parameters

limiterVars == <<now, entries, at, stamp, added>>
routeVars == <<vars, limiterVars>>

RouteTypeOK == TypeOK /\ Limiter!TypeOK

RouteInit == Init /\ Limiter!Init
-----------------------------------------------------------------------------
(* A client that waits for its replies has none outstanding.               *)
Outstanding(r) == (at[r] # "arrive" /\ At(r, "new")) \/ Awaits(r)

Arrive(r) ==
    /\ patient => \A s \in Requests : keyOf[s] = keyOf[r] => ~Outstanding(s)
    /\ Limiter!Arrive(r)
    /\ UNCHANGED vars

Limit(r) == Limiter!Limit(r) /\ UNCHANGED vars

(* Redis fails the limiter, and the limiter lets the request through.      *)
LimiterFailsOpen(r) == Limiter!FailOpen(r) /\ FailInFront

(* next(): the request has passed the limiter.                             *)
Passed(r) == at[r] \in {"admitted", "open"}

IsValid(r) == bodyOf[r].fields \in ValidFields

Reject(r) ==
    /\ at[r] = "rejected" /\ Refuse(r, RateLimitError)
    /\ UNCHANGED limiterVars

Invalidate(r) ==
    /\ Passed(r) /\ ~IsValid(r) /\ Refuse(r, ValidationError)
    /\ UNCHANGED limiterVars

Forward(r) ==
    /\ Passed(r) /\ IsValid(r) /\ Send(r)
    /\ UNCHANGED limiterVars

Handle(r) == (Step(r) \/ CallFails(r) \/ Crash(r)) /\ UNCHANGED limiterVars

RouteNext ==
    \/ \E r \in Requests :
          \/ Arrive(r) \/ Limit(r) \/ LimiterFailsOpen(r) \/ Reject(r)
          \/ Invalidate(r) \/ Forward(r) \/ Handle(r)
    \/ \E k \in Keys : Expire(k) /\ UNCHANGED limiterVars
    \/ Limiter!Tick /\ UNCHANGED vars

RouteSpec == RouteInit /\ [][RouteNext]_routeVars
-----------------------------------------------------------------------------
OverrunIsBounded == Limiter!OverrunIsBounded
RejectedForCause == Limiter!RejectedForCause
=============================================================================
