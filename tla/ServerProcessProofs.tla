------------------------ MODULE ServerProcessProofs ------------------------
(***************************************************************************)
(* Proofs about the Node process, for any number of jobs and of signals.   *)
(*   First its circuit breaker, for any window, thresholds and number of   *)
(* overlapping calls.  What a call does to the breaker depends on the      *)
(* state it finds when it is answered and never on the one it was admitted *)
(* in, so nothing about inFlight is needed.                                *)
(*   Then the process around it: its breaker behaves as the breaker alone  *)
(* does; and because shutdown() closes the connections only after the      *)
(* workers, no job loses them.                                             *)
(***************************************************************************)
EXTENDS ServerProcess, TLAPS

(* What HALF_OPEN counts is part of the current streak.                    *)
CountIsStreak == state = "HALF_OPEN" => halfOpenSuccesses <= streak

BreakerInv ==
    /\ TypeOK
    /\ ClosedAfterFailureIsBelow
    /\ HalfOpenIsUndecided
    /\ CountIsStreak

(* The window stays within its size and ends with the new outcome.         *)
LEMMA RecordedIsLast ==
    ASSUME TypeOK, NEW success \in BOOLEAN
    PROVE  /\ Recorded(success) \in Seq(BOOLEAN)
           /\ Len(Recorded(success)) <= WindowSize
           /\ Recorded(success)[Len(Recorded(success))] = success
  <1> DEFINE longer == Append(results, success)
  <1>1. /\ longer \in Seq(BOOLEAN) /\ Len(longer) = Len(results) + 1
        /\ longer[Len(longer)] = success
        /\ Len(results) \in Nat /\ Len(results) <= WindowSize
        /\ WindowSize \in Nat \ {0}
    BY BreakerAssumption DEF TypeOK
  <1> HIDE DEF longer
  <1>2. CASE Len(longer) > WindowSize
    <2>1. /\ Tail(longer) \in Seq(BOOLEAN)
          /\ Len(Tail(longer)) = Len(longer) - 1
          /\ \A i \in 1..(Len(longer) - 1) : Tail(longer)[i] = longer[i + 1]
      BY <1>1, <1>2
    <2> QED
      BY <1>1, <1>2, <2>1 DEF Recorded, longer
  <1>3. CASE ~(Len(longer) > WindowSize)
    BY <1>1, <1>3 DEF Recorded, longer
  <1> QED
    BY <1>2, <1>3

LEMMA RecordedOutcomes ==
    ASSUME TypeOK
    PROVE  /\ Recorded(TRUE) \in Seq(BOOLEAN)
           /\ Len(Recorded(TRUE)) <= WindowSize
           /\ Recorded(TRUE)[Len(Recorded(TRUE))]
           /\ Recorded(FALSE) \in Seq(BOOLEAN)
           /\ Len(Recorded(FALSE)) <= WindowSize
  <1>1. TRUE \in BOOLEAN /\ FALSE \in BOOLEAN
    OBVIOUS
  <1>2. /\ Recorded(TRUE) \in Seq(BOOLEAN)
        /\ Len(Recorded(TRUE)) <= WindowSize
        /\ Recorded(TRUE)[Len(Recorded(TRUE))] = TRUE
    BY RecordedIsLast, <1>1, Zenon
  <1>3. /\ Recorded(FALSE) \in Seq(BOOLEAN)
        /\ Len(Recorded(FALSE)) <= WindowSize
    BY RecordedIsLast, <1>1, Zenon
  <1> QED
    BY <1>2, <1>3, Zenon

LEMMA BreakerInit == Init => BreakerInv
  BY BreakerAssumption
     DEF Init, BreakerInv, TypeOK, ClosedAfterFailureIsBelow, LastFailed,
         HalfOpenIsUndecided, CountIsStreak

LEMMA SuccessStep ==
    ASSUME BreakerInv, NEW c \in Calls, OnSuccess(c)
    PROVE  BreakerInv'
  <1> USE BreakerAssumption
  <1>1. /\ inFlight' \subseteq Calls /\ elapsed' \in BOOLEAN
        /\ streak' \in 0..HalfOpenSuccessThreshold
        /\ streak' = IF streak < HalfOpenSuccessThreshold
                     THEN streak + 1 ELSE streak
    BY DEF OnSuccess, BreakerInv, TypeOK
  <1>2. CASE state # "HALF_OPEN"
    <2>1. /\ results' = Recorded(TRUE)
          /\ UNCHANGED <<state, halfOpenSuccesses>>
      BY <1>2 DEF OnSuccess
    <2>2. /\ results' \in Seq(BOOLEAN) /\ Len(results') <= WindowSize
          /\ results'[Len(results')]
      BY <2>1, RecordedOutcomes, Zenon DEF BreakerInv
    <2> QED
      BY <1>1, <1>2, <2>1, <2>2
         DEF BreakerInv, TypeOK, ClosedAfterFailureIsBelow, LastFailed,
             HalfOpenIsUndecided, CountIsStreak
  <1>3. CASE state = "HALF_OPEN" /\ EnoughSuccesses(halfOpenSuccesses + 1)
    <2>1. state' = "CLOSED" /\ halfOpenSuccesses' = 0 /\ results' = <<>>
      BY <1>3 DEF OnSuccess, TransitionToClosed
    <2> QED
      BY <1>1, <2>1
         DEF BreakerInv, TypeOK, ClosedAfterFailureIsBelow, LastFailed,
             HalfOpenIsUndecided, CountIsStreak
  <1>4. CASE state = "HALF_OPEN" /\ ~EnoughSuccesses(halfOpenSuccesses + 1)
    <2>1. /\ halfOpenSuccesses' = halfOpenSuccesses + 1
          /\ UNCHANGED <<state, results>>
      BY <1>4 DEF OnSuccess
    <2>2. halfOpenSuccesses + 1 < HalfOpenSuccessThreshold
      BY <1>4 DEF EnoughSuccesses, BreakerInv, TypeOK
    <2> QED
      BY <1>1, <1>4, <2>1, <2>2
         DEF BreakerInv, TypeOK, ClosedAfterFailureIsBelow,
             HalfOpenIsUndecided, CountIsStreak
  <1> QED
    BY <1>2, <1>3, <1>4

LEMMA FailureStep ==
    ASSUME BreakerInv, NEW c \in Calls, OnFailure(c)
    PROVE  BreakerInv'
  <1> USE BreakerAssumption
  <1>1. /\ inFlight' \subseteq Calls /\ elapsed' \in BOOLEAN
        /\ streak' \in 0..HalfOpenSuccessThreshold
        /\ halfOpenSuccesses' = halfOpenSuccesses
    <2>1. inFlight' = inFlight \ {c} /\ streak' = 0
      BY DEF OnFailure
    <2>2. elapsed' \in BOOLEAN
      BY Zenon DEF OnFailure
    <2>3. halfOpenSuccesses' = halfOpenSuccesses
      BY Zenon DEF OnFailure, TransitionToOpen
    <2> QED
      BY <2>1, <2>2, <2>3 DEF BreakerInv, TypeOK
  <1>2. CASE state = "HALF_OPEN"
    BY <1>1, <1>2
       DEF OnFailure, TransitionToOpen, BreakerInv, TypeOK,
           ClosedAfterFailureIsBelow, HalfOpenIsUndecided, CountIsStreak
  <1>3. CASE state # "HALF_OPEN"
    <2>1. /\ results' = Recorded(FALSE)
          /\ state' = "OPEN" \/ (state' = state /\ ~Trips(results'))
      BY <1>3 DEF OnFailure, TransitionToOpen
    <2>2. results' \in Seq(BOOLEAN) /\ Len(results') <= WindowSize
      BY <2>1, RecordedOutcomes, Zenon DEF BreakerInv
    <2>3. ClosedAfterFailureIsBelow'
      BY <2>1 DEF ClosedAfterFailureIsBelow, Trips, Full, Failures
    <2> QED
      BY <1>1, <1>3, <2>1, <2>2, <2>3
         DEF BreakerInv, TypeOK, HalfOpenIsUndecided, CountIsStreak
  <1> QED
    BY <1>2, <1>3

(* Admission and the passing of time change neither window nor streak.     *)
LEMMA OtherStep ==
    ASSUME BreakerInv,
           UNCHANGED vars \/ ResetTimeoutElapses \/ \E c \in Calls : Admit(c)
    PROVE  BreakerInv'
  <1> USE BreakerAssumption
  <1>1. /\ results' = results /\ streak' = streak
        /\ inFlight' \subseteq Calls /\ elapsed' \in BOOLEAN
        /\ \/ state' = state /\ halfOpenSuccesses' = halfOpenSuccesses
           \/ state' = "HALF_OPEN" /\ halfOpenSuccesses' = 0
    BY DEF vars, ResetTimeoutElapses, Admit, TransitionToHalfOpen,
           BreakerInv, TypeOK
  <1>2. ClosedAfterFailureIsBelow'
    BY <1>1 DEF BreakerInv, ClosedAfterFailureIsBelow, LastFailed, Trips,
                Full, Failures
  <1> QED
    BY <1>1, <1>2 DEF BreakerInv, TypeOK, HalfOpenIsUndecided, CountIsStreak

LEMMA BreakerStep == BreakerInv /\ [Next]_vars => BreakerInv'
  BY SuccessStep, FailureStep, OtherStep DEF Next

(* From anywhere else, only the success that completes HALF_OPEN closes.   *)
LEMMA ClosingStep ==
    ASSUME BreakerInv, [Next]_vars, state # "CLOSED", state' = "CLOSED"
    PROVE  streak' = HalfOpenSuccessThreshold
  <1>1. PICK c \in Calls : /\ OnSuccess(c) /\ state = "HALF_OPEN"
                           /\ EnoughSuccesses(halfOpenSuccesses + 1)
    BY DEF Next, vars, Admit, OnSuccess, OnFailure, ResetTimeoutElapses,
           TransitionToOpen, TransitionToHalfOpen, BreakerInv, TypeOK
  <1> QED
    BY <1>1, BreakerAssumption
       DEF OnSuccess, EnoughSuccesses, BreakerInv, TypeOK, CountIsStreak
-----------------------------------------------------------------------------
(* The breaker's variables keep their types: the window is bounded and the *)
(* count of HALF_OPEN never passes its threshold.                          *)
THEOREM BreakerTypes == Spec => []TypeOK
  <1>1. BreakerInv => TypeOK
    BY DEF BreakerInv
  <1> QED
    BY BreakerInit, BreakerStep, <1>1, PTL DEF Spec

(* No late answer slips past checkThreshold (ClosedAfterFailureIsBelow).   *)
THEOREM ClosedIsBelow == Spec => []ClosedAfterFailureIsBelow
  <1>1. BreakerInv => ClosedAfterFailureIsBelow
    BY DEF BreakerInv
  <1> QED
    BY BreakerInit, BreakerStep, <1>1, PTL DEF Spec

(* HALF_OPEN is left as soon as the successes suffice, whoever reports     *)
(* them (HalfOpenIsUndecided).                                             *)
THEOREM HalfOpenEnds == Spec => []HalfOpenIsUndecided
  <1>1. BreakerInv => HalfOpenIsUndecided
    BY DEF BreakerInv
  <1> QED
    BY BreakerInit, BreakerStep, <1>1, PTL DEF Spec

(* The breaker closes only on enough successes in a row (ClosesOnStreak).  *)
THEOREM ClosesOnlyOnStreak == Spec => ClosesOnStreak
  <1>1. BreakerInv /\ [Next]_vars =>
            [state # "CLOSED" /\ state' = "CLOSED" =>
                streak' = HalfOpenSuccessThreshold]_vars
    BY ClosingStep
  <1> QED
    BY BreakerInit, BreakerStep, <1>1, PTL DEF Spec, ClosesOnStreak
-----------------------------------------------------------------------------
Begun == \E s \in Shutdowns : stage[s] # 0
PastWorkers == \E s \in Shutdowns : stage[s] \notin {0, 1}

(* The variables of the process, without those of the breaker.             *)
PlumbingOK ==
    /\ exit \in {"none", "ok", "failed", "killed"}
    /\ open \subseteq Connections \cup {"server", "workers"}
    /\ stage \in [Shutdowns -> 0..4]
    /\ slot \in [Slots -> {"idle", "job", "settle"} \cup Scenarios]
    /\ stopFailed \in BOOLEAN

(* Shutdown() leaves the connections alone until the workers have closed,  *)
(* which they do with no job left; jobs exist only since bootstrap.        *)
ClosingOrder ==
    /\ "workers" \in open => ~Begun
    /\ ~PastWorkers => {"queues", "database"} \subseteq open
    /\ ~PastWorkers /\ ("workers" \in open \/ Begun) => "redis" \in open
    /\ ~JobsAreDone => "workers" \in open \/ Begun
    /\ ~stopFailed /\ (PastWorkers \/ exit \in {"ok", "failed"})
          => JobsAreDone

ProcessInv == PlumbingOK /\ ClosingOrder

LEMMA ClosesItems ==
    /\ Len(Closes) = 4
    /\ Closes[1] = "workers"
  BY DEF Closes
-----------------------------------------------------------------------------
(* Every step of the process is a step of its breaker, or none.            *)
LEMMA BreakerStepOfProcess == [ProcessNext]_allVars => [Next]_vars
  <1> SUFFICES ASSUME [ProcessNext]_allVars PROVE [Next]_vars
    OBVIOUS
  <1>1. CASE UNCHANGED allVars
    BY <1>1 DEF allVars
  <1>2. CASE Bootstrap \/ Kill \/ \E w \in Slots : TakeJob(w) \/ Settle(w)
    BY <1>2 DEF Bootstrap, Kill, TakeJob, Settle
  <1>3. CASE Wait
    BY <1>3 DEF Wait, Next
  <1>4. ASSUME NEW w \in Calls, JobStep(w) PROVE [Next]_vars
    <2>1. CASE Skip(w) \/ Reject(w)
      BY <2>1 DEF Skip, Reject
    <2>2. CASE CallGateway(w)
      BY <2>2 DEF CallGateway, Next
    <2>3. CASE GatewayAnswers(w)
      BY <2>3 DEF GatewayAnswers, Next
    <2> QED
      BY <1>4, <2>1, <2>2, <2>3 DEF JobStep
  <1>5. ASSUME NEW s \in Shutdowns, Signal(s) \/ Advance(s) \/ StopFails(s)
        PROVE  UNCHANGED vars
    BY <1>5 DEF Signal, Advance, StopFails
  <1> QED
    BY <1>1, <1>2, <1>3, <1>4, <1>5 DEF ProcessNext

LEMMA ProcessRefinesBreaker == ProcessSpec => Spec
  <1>1. ProcessInit => Init
    BY DEF ProcessInit
  <1> QED
    BY <1>1, BreakerStepOfProcess, PTL DEF ProcessSpec, Spec
-----------------------------------------------------------------------------
LEMMA InvInit == ProcessInit => ProcessInv
  <1> SUFFICES ASSUME ProcessInit PROVE ProcessInv
    OBVIOUS
  <1>1. PlumbingOK
    <2>1. stage \in [Shutdowns -> 0..4]
      BY DEF ProcessInit
    <2>2. slot \in [Slots -> {"idle", "job", "settle"} \cup Scenarios]
      BY DEF ProcessInit
    <2> QED
      BY <2>1, <2>2 DEF ProcessInit, PlumbingOK, Connections
  <1>2. ClosingOrder
    BY DEF ProcessInit, ClosingOrder, Begun, PastWorkers, JobsAreDone
  <1> QED
    BY <1>1, <1>2 DEF ProcessInv

(* A step of one job: nothing is closed and nothing ends.                  *)
LEMMA SlotStep ==
    ASSUME ProcessInv, UNCHANGED processVars, Running,
           NEW w \in Slots,
           NEW next \in {"idle", "job", "settle"} \cup Scenarios,
           Does(w, next),
           next = "idle" \/ slot[w] # "idle" \/ TakesJobs
    PROVE  ProcessInv'
  <1>1. PlumbingOK'
    BY DEF ProcessInv, PlumbingOK, Does, processVars
  <1>2. Begun' = Begun /\ PastWorkers' = PastWorkers
    BY DEF processVars, Begun, PastWorkers
  <1>3. JobsAreDone /\ ~TakesJobs => JobsAreDone'
    BY DEF JobsAreDone, Does, ProcessInv, PlumbingOK
  <1>4. TakesJobs => "workers" \in open /\ ~Begun /\ ~PastWorkers
    BY DEF TakesJobs, ProcessInv, ClosingOrder, Begun, PastWorkers
  <1>5. ClosingOrder'
    BY <1>2, <1>3, <1>4 DEF ProcessInv, ClosingOrder, processVars, Running
  <1> QED
    BY <1>1, <1>5 DEF ProcessInv

(* Shutdown s goes past the workers.                                       *)
LEMMA GoOnStep ==
    ASSUME ProcessInv, Running, NEW s \in Shutdowns, stage[s] # 0, GoOn(s),
           UNCHANGED slot, stopFailed' \in BOOLEAN,
           stopFailed => stopFailed', stopFailed' \/ JobsAreDone
    PROVE  ProcessInv'
  <1>1. JobsAreDone' = JobsAreDone
    BY DEF JobsAreDone
  <1>2. CASE stage[s] = 4
    <2>1. exit' = "ok" /\ open' = open /\ stage' = stage
      BY <1>2, ClosesItems, Zenon DEF GoOn
    <2>2. Begun' = Begun /\ PastWorkers' = PastWorkers
      BY <2>1 DEF Begun, PastWorkers
    <2> QED
      BY <1>1, <2>1, <2>2 DEF ProcessInv, PlumbingOK, ClosingOrder
  <1>3. CASE stage[s] # 4
    <2>1. /\ stage' = [stage EXCEPT ![s] = @ + 1]
          /\ exit' = exit
          /\ open' = open \ {Closes[stage[s] + 1]}
      BY <1>3, ClosesItems, Zenon DEF GoOn
    <2>2. stage[s] \in 1..3 /\ stage'[s] = stage[s] + 1
      BY <1>3, <2>1 DEF ProcessInv, PlumbingOK
    <2>3. PlumbingOK'
      BY <2>1, <2>2 DEF ProcessInv, PlumbingOK
    <2>4. Begun /\ Begun' /\ PastWorkers'
      BY <2>2 DEF Begun, PastWorkers
    <2>5. ClosingOrder'
      BY <1>1, <2>1, <2>4 DEF ProcessInv, ClosingOrder, Running
    <2> QED
      BY <2>3, <2>5 DEF ProcessInv
  <1> QED
    BY <1>2, <1>3

LEMMA JobKeepsInv ==
    ASSUME ProcessInv, NEW w \in Slots,
           TakeJob(w) \/ Settle(w) \/ (w \in Calls /\ JobStep(w))
    PROVE  ProcessInv'
  <1>1. CASE TakeJob(w)
    <2>1. PICK next \in {"job", "settle"} : Does(w, next)
      BY <1>1 DEF TakeJob
    <2>2. UNCHANGED processVars /\ Running /\ TakesJobs
      BY <1>1 DEF TakeJob, TakesJobs
    <2> QED
      BY <2>1, <2>2, SlotStep
  <1>2. CASE Settle(w)
    BY <1>2, SlotStep DEF Settle
  <1>3. CASE w \in Calls /\ JobStep(w)
    <2>1. /\ UNCHANGED processVars /\ Running /\ slot[w] # "idle"
          /\ \E next \in {"settle"} \cup Scenarios : Does(w, next)
      BY <1>3, ProcessAssumption
         DEF JobStep, Skip, CallGateway, Reject, GatewayAnswers
    <2> QED
      BY <2>1, SlotStep
  <1> QED
    BY <1>1, <1>2, <1>3

LEMMA ShutdownKeepsInv ==
    ASSUME ProcessInv, NEW s \in Shutdowns,
           Signal(s) \/ Advance(s) \/ StopFails(s)
    PROVE  ProcessInv'
  <1>1. CASE Signal(s)
    <2>1. /\ stage' = [stage EXCEPT ![s] = 1] /\ stage[s] = 0
          /\ open' = open \ {"server", "workers"}
          /\ UNCHANGED <<exit, slot, stopFailed>>
          /\ Running /\ (Begun \/ "redis" \in open)
      BY <1>1, ClosesItems DEF Signal, Up, Connecting, Running, Begun
    <2>2. stage'[s] = 1 /\ \A t \in Shutdowns \ {s} : stage'[t] = stage[t]
      BY <2>1 DEF ProcessInv, PlumbingOK
    <2>3. PlumbingOK'
      BY <2>1 DEF ProcessInv, PlumbingOK
    <2>4. Begun' /\ (PastWorkers' <=> PastWorkers)
      BY <2>1, <2>2 DEF Begun, PastWorkers
    <2>5. JobsAreDone' = JobsAreDone
      BY <2>1 DEF JobsAreDone
    <2>6. ClosingOrder'
      BY <2>1, <2>4, <2>5 DEF ProcessInv, ClosingOrder
    <2> QED
      BY <2>3, <2>6 DEF ProcessInv
  <1>2. CASE Advance(s)
    <2>1. /\ Running /\ stage[s] # 0 /\ GoOn(s)
          /\ UNCHANGED <<slot, stopFailed>>
          /\ stage[s] = 1 => JobsAreDone
      BY <1>2 DEF Advance
    <2>2. stopFailed \/ JobsAreDone
      BY <2>1 DEF ProcessInv, ClosingOrder, PastWorkers
    <2> QED
      BY <2>1, <2>2, GoOnStep DEF ProcessInv, PlumbingOK
  <1>3. CASE StopFails(s)
    BY <1>3, GoOnStep DEF StopFails
  <1> QED
    BY <1>1, <1>2, <1>3

LEMMA OtherKeepsInv ==
    ASSUME ProcessInv,
           Bootstrap \/ Kill \/ Wait \/ UNCHANGED allVars
    PROVE  ProcessInv'
  <1>1. UNCHANGED <<stage, slot, stopFailed>>
    BY DEF Bootstrap, Kill, Wait, allVars, processVars
  <1>2. /\ Begun' = Begun /\ PastWorkers' = PastWorkers
        /\ JobsAreDone' = JobsAreDone
    BY <1>1 DEF Begun, PastWorkers, JobsAreDone
  <1>3. CASE Bootstrap
    <2>1. Running /\ "redis" \notin open /\ ~Begun /\ ~PastWorkers
      BY <1>3 DEF Bootstrap, Connecting, Begun, PastWorkers
    <2>2. \/ /\ open' = open \cup {"redis", "workers", "server"}
             /\ exit' = exit
          \/ exit' = "failed" /\ open' = open
      BY <1>3 DEF Bootstrap
    <2> QED
      BY <1>1, <1>2, <2>1, <2>2
         DEF ProcessInv, PlumbingOK, ClosingOrder, Connections, Running
  <1>4. CASE Kill
    <2>1. exit' = "killed" /\ open' = open /\ Running
      BY <1>4 DEF Kill
    <2> QED
      BY <1>1, <1>2, <2>1 DEF ProcessInv, PlumbingOK, ClosingOrder, Running
  <1>5. CASE Wait \/ UNCHANGED allVars
    <2>1. exit' = exit /\ open' = open
      BY <1>5 DEF Wait, allVars, processVars
    <2> QED
      BY <1>1, <1>2, <2>1 DEF ProcessInv, PlumbingOK, ClosingOrder
  <1> QED
    BY <1>3, <1>4, <1>5

LEMMA InvStep == ProcessInv /\ [ProcessNext]_allVars => ProcessInv'
  <1>1. Calls \subseteq Slots
    BY DEF Slots
  <1> QED
    BY <1>1, JobKeepsInv, ShutdownKeepsInv, OtherKeepsInv DEF ProcessNext

LEMMA ProcessInvariant == ProcessSpec => []ProcessInv
  BY InvInit, InvStep, PTL DEF ProcessSpec
-----------------------------------------------------------------------------
(* Every variable of the process and of its breaker keeps its type.        *)
THEOREM ProcessTypes == ProcessSpec => []ProcessTypeOK
  <1>1. TypeOK /\ ProcessInv => ProcessTypeOK
    BY ClosesItems DEF ProcessInv, PlumbingOK, ProcessTypeOK
  <1> QED
    BY <1>1, ProcessInvariant, ProcessRefinesBreaker, BreakerTypes, PTL

(* What was proved of the breaker alone holds in the process, however its  *)
(* jobs, their calls and a shutdown interleave.                            *)
THEOREM ProcessBreaker ==
    ProcessSpec => /\ []ClosedAfterFailureIsBelow
                   /\ []HalfOpenIsUndecided
                   /\ ClosesOnStreak
  BY ProcessRefinesBreaker, ClosedIsBelow, HalfOpenEnds, ClosesOnlyOnStreak,
     PTL

(* No connection is closed under a job, for any number of signals, process *)
(* jobs and retry jobs (ConnectionsOutliveJobs).                           *)
THEOREM JobsKeepConnections == ProcessSpec => []ConnectionsOutliveJobs
  <1>1. ProcessInv => ConnectionsOutliveJobs
    <2> SUFFICES ASSUME ProcessInv, ~stopFailed, ~JobsAreDone,
                        exit # "killed"
                 PROVE  exit = "none" /\ Connections \subseteq open
      BY DEF ConnectionsOutliveJobs, JobsAreDone
    <2>1. exit = "none" /\ ~PastWorkers /\ ("workers" \in open \/ Begun)
      BY DEF ProcessInv, PlumbingOK, ClosingOrder
    <2> QED
      BY <2>1 DEF ProcessInv, ClosingOrder, Connections
  <1> QED
    BY <1>1, ProcessInvariant, PTL

(* Only a call that throws opens a closed breaker (OpensOnThrow): admitted *)
(* calls, answers and declined payments do not.                            *)
THEOREM OnlyThrowsOpen == ProcessSpec => OpensOnThrow
  <1>1. ASSUME ProcessInv, [ProcessNext]_allVars,
               state = "CLOSED", state' = "OPEN"
        PROVE  \E w \in Calls : Throws(w)
    <2>1. PICK w \in Calls : GatewayAnswers(w)
      <3>1. CASE UNCHANGED vars
        BY <1>1, <3>1 DEF vars
      <3>2. CASE Wait
        BY <1>1, <3>2 DEF Wait, ResetTimeoutElapses
      <3>3. ASSUME NEW w \in Calls, CallGateway(w) PROVE FALSE
        BY <1>1, <3>3 DEF CallGateway, Admit, TransitionToHalfOpen
      <3> QED
        BY <1>1, <3>1, <3>2, <3>3
           DEF ProcessNext, Bootstrap, Kill, TakeJob, Settle, JobStep,
               Skip, Reject, Signal, Advance, StopFails, allVars
    <2>2. ~OnSuccess(w)
      BY <1>1 DEF OnSuccess, TransitionToClosed
    <2>3. slot[w] \in Scenarios /\ ~Resolves(slot[w]) /\ Does(w, "settle")
      BY <2>1, <2>2 DEF GatewayAnswers
    <2>4. slot'[w] = "settle"
      BY <1>1, <2>3 DEF Does, ProcessInv, PlumbingOK, Slots
    <2> QED
      BY <2>3, <2>4 DEF Resolves, Throws
  <1>2. ProcessInv /\ [ProcessNext]_allVars => [OpeningThrows]_allVars
    BY <1>1 DEF OpeningThrows
  <1> QED
    BY <1>2, ProcessInvariant, PTL DEF ProcessSpec, OpensOnThrow
=============================================================================
