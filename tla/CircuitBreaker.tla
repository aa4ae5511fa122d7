--------------------------- MODULE CircuitBreaker ---------------------------
(***************************************************************************)
(* utils/circuitBreaker.ts: one breaker per process, shared by all the     *)
(* process workers' calls of the gateway.  A call is admitted, runs while  *)
(* others are admitted and answered, and reports its outcome to whatever   *)
(* state the breaker is in by then.  A rejected call changes nothing and   *)
(* is no step.  Date.now() is reduced to whether resetTimeout has elapsed  *)
(* since the last failure.                                                 *)
(***************************************************************************)
EXTENDS Naturals, Sequences, FiniteSets

CONSTANTS
    Calls,                      \* bound: calls in flight at a time
    WindowSize,                 \* options.windowSize
    FailureThreshold,           \* options.failureThreshold, in percent
    HalfOpenSuccessThreshold    \* options.halfOpenSuccessThreshold

ASSUME BreakerAssumption ==
    /\ WindowSize \in Nat \ {0}
    /\ FailureThreshold \in 1..100
    /\ HalfOpenSuccessThreshold \in Nat \ {0}

VARIABLES
    state,              \* "CLOSED", "OPEN" or "HALF_OPEN"
    results,            \* the sliding window, TRUE for a success
    halfOpenSuccesses,
    elapsed,            \* resetTimeout has elapsed since lastFailureTime
    inFlight,           \* the calls that were admitted and not answered
    streak              \* history: successes since the last failure, up to
                        \* HalfOpenSuccessThreshold

vars == <<state, results, halfOpenSuccesses, elapsed, inFlight, streak>>

TypeOK ==
    /\ state \in {"CLOSED", "OPEN", "HALF_OPEN"}
    /\ results \in Seq(BOOLEAN) /\ Len(results) <= WindowSize
    /\ halfOpenSuccesses \in 0..HalfOpenSuccessThreshold
    /\ elapsed \in BOOLEAN
    /\ inFlight \subseteq Calls
    /\ streak \in 0..HalfOpenSuccessThreshold

Init ==
    /\ state = "CLOSED" /\ results = <<>> /\ halfOpenSuccesses = 0
    /\ elapsed = TRUE /\ inFlight = {} /\ streak = 0
-----------------------------------------------------------------------------
Failures(window) == Cardinality({i \in DOMAIN window : ~window[i]})
Full(window) == Len(window) >= WindowSize

(* failureRate >= failureThreshold                                         *)
Trips(window) ==
    /\ Full(window)
    /\ 100 * Failures(window) >= FailureThreshold * Len(window)

(* Bug: the window never shrinks.                                          *)
RecordedForever(success) == Append(results, success)

(* recordResult: push, and shift when the window is too long.              *)
Recorded(success) ==
    LET longer == Append(results, success) IN
    IF Len(longer) > WindowSize THEN Tail(longer) ELSE longer

TransitionToOpen ==
    state' = "OPEN" /\ UNCHANGED halfOpenSuccesses
(* Bug: the count of an earlier recovery is kept.                          *)
TransitionKeepingCount ==
    state' = "HALF_OPEN" /\ UNCHANGED <<halfOpenSuccesses, results>>

TransitionToHalfOpen ==
    state' = "HALF_OPEN" /\ halfOpenSuccesses' = 0 /\ UNCHANGED results
TransitionToClosed ==
    state' = "CLOSED" /\ halfOpenSuccesses' = 0 /\ results' = <<>>
-----------------------------------------------------------------------------
(* Bug: one success more than the threshold is needed.                     *)
TooFewSuccesses(n) == n > HalfOpenSuccessThreshold

EnoughSuccesses(n) == n >= HalfOpenSuccessThreshold

(* The part of execute before fn(), when the call is not rejected.         *)
Admit(c) ==
    /\ c \notin inFlight
    /\ \/ state # "OPEN" /\ UNCHANGED <<state, halfOpenSuccesses, results>>
       \/ state = "OPEN" /\ elapsed /\ TransitionToHalfOpen
    /\ inFlight' = inFlight \cup {c}
    /\ UNCHANGED <<elapsed, streak>>

(* Bug: a success is recorded the same way in every state.                 *)
OnSuccessRecorded(c) ==
    /\ c \in inFlight
    /\ inFlight' = inFlight \ {c}
    /\ streak' = IF streak < HalfOpenSuccessThreshold THEN streak + 1
                                                      ELSE streak
    /\ results' = Recorded(TRUE)
    /\ UNCHANGED <<elapsed, state, halfOpenSuccesses>>

OnSuccess(c) ==
    /\ c \in inFlight
    /\ inFlight' = inFlight \ {c}
    /\ streak' = IF streak < HalfOpenSuccessThreshold THEN streak + 1
                                                      ELSE streak
    /\ UNCHANGED elapsed
    /\ IF state # "HALF_OPEN"
       THEN /\ results' = Recorded(TRUE)
            /\ UNCHANGED <<state, halfOpenSuccesses>>
       ELSE IF EnoughSuccesses(halfOpenSuccesses + 1)
       THEN TransitionToClosed
       ELSE /\ halfOpenSuccesses' = halfOpenSuccesses + 1
            /\ UNCHANGED <<state, results>>

(* Bug: checkThreshold runs before recordResult.                           *)
OnFailureCheckedFirst(c) ==
    /\ c \in inFlight
    /\ inFlight' = inFlight \ {c}
    /\ elapsed' = FALSE /\ streak' = 0
    /\ IF state = "HALF_OPEN"
       THEN TransitionToOpen /\ UNCHANGED results
       ELSE /\ results' = Recorded(FALSE)
            /\ IF Trips(results) THEN TransitionToOpen
                                 ELSE UNCHANGED <<state, halfOpenSuccesses>>

OnFailure(c) ==
    /\ c \in inFlight
    /\ inFlight' = inFlight \ {c}
    /\ elapsed' = FALSE /\ streak' = 0
    /\ IF state = "HALF_OPEN"
       THEN TransitionToOpen /\ UNCHANGED results
       ELSE /\ results' = Recorded(FALSE)
            /\ IF Trips(results') THEN TransitionToOpen
                                  ELSE UNCHANGED <<state, halfOpenSuccesses>>

ResetTimeoutElapses ==
    /\ ~elapsed /\ elapsed' = TRUE
    /\ UNCHANGED <<state, results, halfOpenSuccesses, inFlight, streak>>

Next ==
    \/ \E c \in Calls : Admit(c) \/ OnSuccess(c) \/ OnFailure(c)
    \/ ResetTimeoutElapses

Spec == Init /\ [][Next]_vars

-----------------------------------------------------------------------------
LastFailed == results # <<>> /\ ~results[Len(results)]

(* A closed breaker whose latest recorded outcome is a failure is below    *)
(* the threshold: no late answer of a call admitted in an earlier state    *)
(* slips past checkThreshold.                                              *)
ClosedAfterFailureIsBelow ==
    state = "CLOSED" /\ LastFailed => ~Trips(results)

(* HALF_OPEN is left as soon as the successes suffice, also when the calls *)
(* that succeed were admitted before the breaker opened.                   *)
HalfOpenIsUndecided ==
    state = "HALF_OPEN" => halfOpenSuccesses < HalfOpenSuccessThreshold

(* The breaker closes only on HalfOpenSuccessThreshold successes in a row: *)
(* no failure lies between them, whoever they belong to and whenever they  *)
(* were admitted, and none of them counts for two recoveries.              *)
ClosesOnStreak ==
    [][state # "CLOSED" /\ state' = "CLOSED" =>
          streak' = HalfOpenSuccessThreshold]_vars

(* circuitBreaker.ts, CircuitBreaker: "trips open when failures exceed the *)
(* threshold".  (The code compares only when a failure is recorded, so a   *)
(* window that fills up with a success is never compared.)                 *)
ExceededThresholdOpens ==
    state = "CLOSED" /\ Full(results) =>
        100 * Failures(results) <= FailureThreshold * Len(results)
=============================================================================
