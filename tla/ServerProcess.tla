---------------------------- MODULE ServerProcess ----------------------------
(***************************************************************************)
(* One Node process (server.ts): it connects, starts its workers, listens, *)
(* and shuts down on a signal or an uncaught exception while jobs are in   *)
(* progress.  The jobs of its process worker call the gateway              *)
(* (gateway.simulator.ts) through the breaker of the process; what else a  *)
(* job does is in ProcessWorker and RetryWorker.                           *)
(*   slot[w]   idle, job (before the call of the gateway), the scenario of *)
(*             the call in flight, settle (after it)                       *)
(*   stage[s]  the call that shutdown s awaits                             *)
(***************************************************************************)
EXTENDS CircuitBreaker

CONSTANTS
    RetrySlots,     \* concurrent jobs of the retry worker; those of the
                    \* process worker are the Calls of the breaker
    Scenarios,      \* what the gateway may do with a call
    Shutdowns       \* calls of shutdown(), one for each signal

ASSUME ProcessAssumption ==
    /\ Calls \cap RetrySlots = {}
    /\ Scenarios \subseteq {"instant_success", "delayed_success",
          "instant_failure", "timeout", "network_error", "webhook_only"}

VARIABLES
    exit,           \* how the process ended, if it did
    open,           \* what is open of the things shutdown() closes
    stage,
    slot,
    stopFailed      \* stopWorkers() has thrown

processVars == <<exit, open, stage, stopFailed>>
allVars == <<vars, processVars, slot>>

Slots == Calls \cup RetrySlots
Connections == {"queues", "redis", "database"}

(* The calls of shutdown(), in their order, and what each closes.          *)
Closes == <<"workers", "queues", "redis", "database">>

ProcessTypeOK ==
    /\ TypeOK
    /\ exit \in {"none", "ok", "failed", "killed"}
    /\ open \subseteq Connections \cup {"server", "workers"}
    /\ stage \in [Shutdowns -> 0..Len(Closes)]
    /\ slot \in [Slots -> {"idle", "job", "settle"} \cup Scenarios]
    /\ stopFailed \in BOOLEAN

(* The queues connect when their module is loaded, Prisma on first use.    *)
ProcessInit ==
    /\ Init
    /\ exit = "none"
    /\ open = {"queues", "database"}
    /\ stage = [s \in Shutdowns |-> 0]
    /\ slot = [w \in Slots |-> "idle"]
    /\ stopFailed = FALSE
-----------------------------------------------------------------------------
Running == exit = "none"
Connecting ==
    Running /\ "redis" \notin open /\ \A s \in Shutdowns : stage[s] = 0
Up == Running /\ ~Connecting
Does(w, next) == slot' = [slot EXCEPT ![w] = next]

(* bootstrap: nothing is awaited after redis.connect().                    *)
Bootstrap ==
    /\ Connecting
    /\ \/ /\ open' = open \cup {"redis", "workers", "server"}
          /\ UNCHANGED exit
       \/ exit' = "failed" /\ UNCHANGED open
    /\ UNCHANGED <<vars, stage, slot, stopFailed>>

(* SIGKILL at any time, or any signal before the handlers are registered.  *)
Kill ==
    /\ Running
    /\ exit' = "killed"
    /\ UNCHANGED <<vars, open, stage, slot, stopFailed>>
-----------------------------------------------------------------------------
(* Bug: close() does not stop a worker from taking jobs.                   *)
TakesJobsWhileUp == Up

TakesJobs == Running /\ "workers" \in open

TakeJob(w) ==
    /\ TakesJobs /\ slot[w] = "idle"
    /\ Does(w, IF w \in Calls THEN "job" ELSE "settle")
    /\ UNCHANGED <<vars, processVars>>

(* gatewayCircuitBreaker.execute: the scenario is selected on the way.     *)
CallGateway(w) ==
    /\ Running /\ slot[w] = "job"
    /\ Admit(w)
    /\ \E scenario \in Scenarios : Does(w, scenario)
    /\ UNCHANGED processVars

(* CircuitBreakerOpenError.                                                *)
Reject(w) ==
    /\ Running /\ slot[w] = "job"
    /\ state = "OPEN" /\ ~elapsed
    /\ Does(w, "settle")
    /\ UNCHANGED <<vars, processVars>>

(* The job has nothing to do, or fails before it gets to the gateway.      *)
Skip(w) ==
    /\ Running /\ slot[w] = "job"
    /\ Does(w, "settle")
    /\ UNCHANGED <<vars, processVars>>

(* Bug: a declined payment throws.                                         *)
SucceedsOrThrows(scenario) ==
    scenario \in {"instant_success", "delayed_success", "webhook_only"}

(* A declined payment is an answer, too; only these two scenarios throw.   *)
Resolves(scenario) == scenario \notin {"timeout", "network_error"}

GatewayAnswers(w) ==
    /\ Running /\ slot[w] \in Scenarios
    /\ IF Resolves(slot[w]) THEN OnSuccess(w) ELSE OnFailure(w)
    /\ Does(w, "settle")
    /\ UNCHANGED processVars

(* The rest of the job, which uses all connections.                        *)
Settle(w) ==
    /\ Running /\ slot[w] = "settle"
    /\ Does(w, "idle")
    /\ UNCHANGED <<vars, processVars>>

-----------------------------------------------------------------------------
(* shutdown() begins.  server.close() is not awaited.  A second signal     *)
(* goes through the same calls again.                                      *)
Signal(s) ==
    /\ Up /\ stage[s] = 0
    /\ stage' = [stage EXCEPT ![s] = 1]
    /\ open' = open \ {"server", Closes[1]}
    /\ UNCHANGED <<vars, exit, slot, stopFailed>>

(* Bug: only the process worker is waited for.                             *)
CallsAreDone == \A w \in Calls : slot[w] = "idle"

(* Both workers have finished their jobs.                                  *)
JobsAreDone == \A w \in Slots : slot[w] = "idle"

(* Shutdown s goes on to its next call and, after the last, to             *)
(* process.exit(0).                                                        *)
GoOn(s) ==
    IF stage[s] = Len(Closes)
    THEN exit' = "ok" /\ UNCHANGED <<open, stage>>
    ELSE /\ stage' = [stage EXCEPT ![s] = @ + 1]
         /\ open' = open \ {Closes[stage[s] + 1]}
         /\ UNCHANGED exit

(* The call that it awaits ends.                                           *)
Advance(s) ==
    /\ Running /\ stage[s] # 0
    /\ stage[s] = 1 => JobsAreDone
    /\ GoOn(s)
    /\ UNCHANGED <<vars, slot, stopFailed>>

(* stopWorkers throws, which is only logged.  (When another call throws,   *)
(* that makes no difference.)                                              *)
StopFails(s) ==
    /\ Running /\ stage[s] = 1
    /\ stopFailed' = TRUE
    /\ GoOn(s)
    /\ UNCHANGED <<vars, slot>>

Wait == ResetTimeoutElapses /\ UNCHANGED <<processVars, slot>>

JobStep(w) == Skip(w) \/ CallGateway(w) \/ Reject(w) \/ GatewayAnswers(w)

ProcessNext ==
    \/ Bootstrap \/ Kill \/ Wait
    \/ \E w \in Slots : TakeJob(w) \/ Settle(w)
    \/ \E w \in Calls : JobStep(w)
    \/ \E s \in Shutdowns : Signal(s) \/ Advance(s) \/ StopFails(s)

ProcessSpec == ProcessInit /\ [][ProcessNext]_allVars

(* The event loop runs, time passes, and the simulator answers every call. *)
(* Nothing is assumed about jobs or signals.                               *)
ProcessFairness ==
    /\ WF_allVars(Wait)
    /\ \A w \in Calls : WF_allVars(JobStep(w))
    /\ \A w \in Slots : WF_allVars(Settle(w))
    /\ \A s \in Shutdowns : WF_allVars(Advance(s))

FairProcessSpec == ProcessSpec /\ ProcessFairness
-----------------------------------------------------------------------------
(* No connection is closed under a job, and no job is cut off by a         *)
(* shutdown, whenever signals come and however many: "wait for in-flight   *)
(* jobs" (server.ts).  stopWorkers must not fail, and nobody may kill the  *)
(* process; HTTP requests in progress have no such promise.                *)
ConnectionsOutliveJobs ==
    (~stopFailed /\ \E w \in Slots : slot[w] # "idle") =>
        exit = "killed" \/ (exit = "none" /\ Connections \subseteq open)

Throws(w) == slot[w] \in {"timeout", "network_error"} /\ slot'[w] = "settle"
OpeningThrows ==
    state = "CLOSED" /\ state' = "OPEN" => \E w \in Calls : Throws(w)

(* The breaker opens only because a call has thrown: payments that are     *)
(* declined, however many, never open it.                                  *)
OpensOnThrow == [][OpeningThrows]_allVars

(* A shutdown that has begun ends, for the workers take no more jobs.      *)
ShutdownEnds == \A s \in Shutdowns : stage[s] # 0 ~> exit # "none"

(* When calls stop throwing and jobs keep trying to call, the breaker      *)
(* closes for good: it has no timer of its own and needs the calls to      *)
(* notice that the gateway has recovered.                                  *)
Recovers ==
    /\ <>[][~\E w \in Calls : OnFailure(w)]_allVars
    /\ []<><<\E w \in Calls : CallGateway(w) \/ Reject(w)>>_allVars
    => <>[](state = "CLOSED")
=============================================================================
