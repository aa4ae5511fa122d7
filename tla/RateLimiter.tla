---------------------------- MODULE RateLimiter ----------------------------
(***************************************************************************)
(* middleware/rateLimiter.ts for the requests of one client address: a     *)
(* sorted set in Redis with the time stamps of its requests as scores.  A  *)
(* request reads the clock, and its pipeline of four commands then counts  *)
(* what is left of the set and adds the request.  Each process sends its   *)
(* pipelines over one connection, where they follow each other; between    *)
(* the commands of one process Redis may run those of another, for a       *)
(* pipeline is not a transaction.  at[r] names the command that is next.   *)
(***************************************************************************)
EXTENDS Naturals, FiniteSets

CONSTANTS
    Requests,       \* the requests of one client address
    MaxRequests,    \* RATE_LIMIT_MAX_REQUESTS
    Window,         \* RATE_LIMIT_WINDOW_MS, in ticks
    MaxDelay,       \* ticks between reading the clock and the first command
    Processes,      \* how many processes have a connection to Redis
    MaxTime         \* bound: ticks in one behaviour

(* What is assumed of them (an ASSUME of PaymentsRoute).                   *)
Parameters ==
    /\ {MaxRequests, Window, Processes} \subseteq Nat \ {0}
    /\ MaxDelay \in 0..Window - 1
    /\ MaxTime \in Nat
    /\ IsFiniteSet(Requests)

VARIABLES
    now,            \* the clock
    entries,        \* the requests in the sorted set
    at,             \* at[r]: how far r has got
    stamp,          \* stamp[r]: the clock when r read it, its score
    added           \* added[r]: when r was added to the set, 0 if it was not

vars == <<now, entries, at, stamp, added>>

InPipeline == {"zcard", "zadd", "zadd over"}
Steps == {"arrive", "zrem", "admitted", "rejected", "open"} \cup InPipeline

TypeOK ==
    /\ now \in 1..MaxTime + 1
    /\ entries \in SUBSET Requests
    /\ at \in [Requests -> Steps]
    /\ stamp \in [Requests -> 0..now]
    /\ added \in [Requests -> 0..now]

Init ==
    /\ now = 1
    /\ entries = {}
    /\ at = [r \in Requests |-> "arrive"]
    /\ stamp = [r \in Requests |-> 0]
    /\ added = [r \in Requests |-> 0]
-----------------------------------------------------------------------------
Goto(r, step) == at' = [at EXCEPT ![r] = step]
InStep(steps) == {r \in Requests : at[r] \in steps}

(* A request enters the middleware and reads the clock.                    *)
Arrive(r) ==
    /\ at[r] = "arrive"
    /\ stamp' = [stamp EXCEPT ![r] = now]
    /\ Goto(r, "zrem")
    /\ UNCHANGED <<now, entries, added>>

(* Bug: the interval that is removed is open.                              *)
HasLeftOpen(e, r) == stamp[e] + Window < stamp[r]

(* zremrangebyscore 0 windowStart includes both ends.                      *)
HasLeft(e, r) == stamp[e] + Window <= stamp[r]

(* zremrangebyscore: the pipeline begins.                                  *)
RemoveExpired(r) ==
    /\ at[r] = "zrem"
    /\ Cardinality(InStep(InPipeline)) < Processes
    /\ entries' = {e \in entries : ~HasLeft(e, r)}
    /\ Goto(r, "zcard")
    /\ UNCHANGED <<now, stamp, added>>

(* Bug: off by one.                                                        *)
IsOverBy1(count) == count > MaxRequests

IsOver(count) == count >= MaxRequests

(* zcard; what the request will be told follows from this count.           *)
Count(r) ==
    /\ at[r] = "zcard"
    /\ Goto(r, IF IsOver(Cardinality(entries)) THEN "zadd over" ELSE "zadd")
    /\ UNCHANGED <<now, entries, stamp, added>>

(* zadd and pexpire.  A request that will be rejected is added as well.    *)
Add(r) ==
    /\ at[r] \in {"zadd", "zadd over"}
    /\ entries' = entries \cup {r}
    /\ added' = [added EXCEPT ![r] = now]
    /\ Goto(r, IF at[r] = "zadd" THEN "admitted" ELSE "rejected")
    /\ UNCHANGED <<now, stamp>>

(* Redis does not answer, or not to zcard: the request is let through, and *)
(* the rest of its pipeline may run or not.                                *)
FailOpen(r) ==
    /\ at[r] \in {"zrem"} \cup InPipeline
    /\ Goto(r, "open")
    /\ \/ UNCHANGED <<entries, added>>
       \/ /\ entries' = entries \cup {r}
          /\ added' = [added EXCEPT ![r] = now]
    /\ UNCHANGED <<now, stamp>>

(* pexpire: the whole set is gone one window after the last request.       *)
SetOutlives(time) ==
    \E r \in Requests : added[r] # 0 /\ added[r] + Window > time

(* Time passes; a pipeline that began is through before it does, and one   *)
(* that was sent begins within MaxDelay.  (Bound: time stops when no       *)
(* request is left that looks at the set.)                                 *)
Tick ==
    /\ now <= MaxTime
    /\ InStep({"arrive", "zrem"}) # {}
    /\ InStep(InPipeline) = {}
    /\ \A r \in InStep({"zrem"}) : now < stamp[r] + MaxDelay
    /\ now' = now + 1
    /\ entries' = IF SetOutlives(now + 1) THEN entries ELSE {}
    /\ UNCHANGED <<at, stamp, added>>

Limit(r) == RemoveExpired(r) \/ Count(r) \/ Add(r)

Next ==
    \/ \E r \in Requests : Arrive(r) \/ Limit(r) \/ FailOpen(r)
    \/ Tick

Spec == Init /\ [][Next]_vars
-----------------------------------------------------------------------------
(* However pipelines interleave and however late they run, in a time that  *)
(* is shorter than the window by the delay the limiter lets through at     *)
(* most MaxRequests requests, and one more for every process that counts   *)
(* at the same time as another.  ("Use a Redis pipeline for atomicity".)   *)
(* Requests that were let through because Redis failed are not counted.    *)
OverrunIsBounded ==
    Cardinality({r \in InStep({"admitted"}) :
                    added[r] + Window > now + MaxDelay})
        <= MaxRequests + Processes - 1

(* A client is told 429 only because of MaxRequests other requests of its  *)
(* own within the window before this one, or sent while it was on its way. *)
RejectedForCause ==
    \A r \in InStep({"zadd over", "rejected"}) :
        Cardinality({s \in Requests \ {r} : /\ at[s] # "arrive"
                                            /\ stamp[s] + Window > stamp[r]})
            >= MaxRequests
=============================================================================
