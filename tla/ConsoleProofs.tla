--------------------------- MODULE ConsoleProofs ---------------------------
(***************************************************************************)
(* Proofs about the browser console, for any number of payments, of        *)
(* submissions and of polls in flight, and whatever the payments do.       *)
(* A timer starts by clearing the one the handle is of, so there is never  *)
(* another (NoTimerIsLost); hence an outcome, which clears the handle's    *)
(* timer whatever it is of, leaves none, and the timer the outcome came    *)
(* from never runs again (OutcomeIsOver).                                  *)
(***************************************************************************)
EXTENDS Console, FiniteSetTheorems, TLAPS

PostType ==
    {NoPost} \cup [pay : Payments, at : {"sent", "stored", "done"}]

(* Polls are records, which ConsoleTypeOK says of their fields only.       *)
PollsAreRecords ==
    /\ poll = [q \in Polls |-> poll[q]]
    /\ \A q \in Polls :
          poll[q] = [at |-> poll[q].at, timer |-> poll[q].timer,
                     status |-> poll[q].status]

ConsoleInv == ConsoleTypeOK /\ NoTimerIsLost /\ PollsAreRecords

(* What the timers may look like in a state.                               *)
TimersOK(timers, handle) ==
    /\ DOMAIN timers \subseteq Submissions
    /\ \A i \in DOMAIN timers : timers[i] \in 0..MAX_POLLS
    /\ handle \in {0} \cup Submissions
    /\ DOMAIN timers \subseteq {handle}

LEMMA TimersStart ==
    ASSUME ConsoleInv, NEW i \in Submissions, StartPolling(i)
    PROVE  TimersOK(live', pollingInterval')
  <1>1. DOMAIN ClearInterval = {}
    BY DEF ConsoleInv, NoTimerIsLost, ClearInterval, Restrict
  <1>2. 0 \in 0..MAX_POLLS
    BY ConsoleAssumption
  <1> QED BY <1>1, <1>2 DEF StartPolling, SetInterval, TimersOK

LEMMA TimersStop ==
    ASSUME ConsoleInv, StopPolling
    PROVE  TimersOK(live', pollingInterval')
  BY DEF ConsoleInv, NoTimerIsLost, StopPolling, ClearInterval, Restrict,
         TimersOK

LEMMA TimersCount ==
    ASSUME ConsoleInv, NEW i \in DOMAIN live, ~LimitReached(live[i] + 1),
           live' = [live EXCEPT ![i] = @ + 1], UNCHANGED pollingInterval
    PROVE  TimersOK(live', pollingInterval')
  <1>1. live[i] \in 0..MAX_POLLS /\ MAX_POLLS \in Nat
    BY ConsoleAssumption DEF ConsoleInv, ConsoleTypeOK
  <1>2. live[i] + 1 \in 0..MAX_POLLS
    BY <1>1 DEF LimitReached
  <1> QED BY <1>2 DEF ConsoleInv, ConsoleTypeOK, NoTimerIsLost, TimersOK

(* The invariant, by variable.                                             *)
LEMMA InvariantByParts ==
    ASSUME post' \in [Submissions -> PostType],
           TimersOK(live', pollingInterval'),
           PollsAreRecords',
           \A q \in Polls : /\ poll'[q].at \in {"none", "sent", "read"}
                            /\ poll'[q].timer \in {0} \cup Submissions,
           stepper' \in Displayed \cup {"none"},
           shownBy' \in {0} \cup Submissions, loading' \in BOOLEAN
    PROVE  ConsoleInv'
  BY DEF ConsoleInv, ConsoleTypeOK, NoTimerIsLost, TimersOK, PostType
-----------------------------------------------------------------------------
LEMMA SubmitStep ==
    ASSUME ConsoleInv, NEW i \in Submissions,
           Submit(i) \/ Store(i) \/ Created(i) \/ NotCreated(i)
    PROVE  ConsoleInv'
  <1> USE DEF ConsoleInv, ConsoleTypeOK, screenVars, timerVars
  <1>1. post' \in [Submissions -> PostType]
    <2>1. ASSUME NEW p \in KeyInput(i),
                 post' = [post EXCEPT ![i] = [pay |-> p, at |-> "sent"]]
          PROVE  post' \in [Submissions -> PostType]
      BY <2>1 DEF KeyInput, PostType
    <2>2. ASSUME post[i].at \in {"sent", "stored"},
                 NEW at \in {"stored", "done"},
                 post' = [post EXCEPT ![i].at = at]
          PROVE  post' \in [Submissions -> PostType]
      BY <2>2 DEF NoPost, PostType
    <2> QED BY <2>1, <2>2 DEF Submit, Store, Created, NotCreated
  <1>2. TimersOK(live', pollingInterval')
    <2>1. CASE Created(i)
      BY <2>1, TimersStart DEF Created
    <2>2. CASE UNCHANGED timerVars
      BY <2>2 DEF NoTimerIsLost, TimersOK
    <2> QED BY <2>1, <2>2 DEF Submit, Store, NotCreated
  <1>3. UNCHANGED poll
    BY DEF Submit, Store, Created, NotCreated
  <1>4. /\ stepper' \in Displayed \cup {"none"}
        /\ shownBy' \in {0} \cup Submissions /\ loading' \in BOOLEAN
    BY DEF Submit, Store, Created, NotCreated, UpdateStepper
  <1>5. PollsAreRecords'
    BY <1>3 DEF PollsAreRecords
  <1> QED BY <1>1, <1>2, <1>3, <1>4, <1>5, InvariantByParts

LEMMA TickStep ==
    ASSUME ConsoleInv, NEW i \in Submissions, Tick(i)
    PROVE  ConsoleInv'
  <1> USE DEF ConsoleInv, ConsoleTypeOK
  <1>1. TimersOK(live', pollingInterval') /\ loading' \in BOOLEAN
    <2>1. CASE GiveUp
      BY <2>1, TimersStop DEF GiveUp, StopPolling
    <2>2. CASE ~LimitReached(live[i] + 1)
      BY <2>2, TimersCount DEF Tick
    <2> QED BY <2>1, <2>2 DEF Tick
  <1>2. \/ UNCHANGED poll
        \/ \E q \in Polls :
              poll' = [poll EXCEPT ![q] = [NoPoll EXCEPT !.at = "sent",
                                                         !.timer = i]]
    BY DEF Tick
  <1>3. /\ PollsAreRecords'
        /\ \A q \in Polls : /\ poll'[q].at \in {"none", "sent", "read"}
                            /\ poll'[q].timer \in {0} \cup Submissions
    BY <1>2 DEF PollsAreRecords, NoPoll
  <1>4. UNCHANGED <<post, stepper, shownBy>>
    BY DEF Tick
  <1> QED BY <1>1, <1>3, <1>4, InvariantByParts DEF PostType

LEMMA PollStep ==
    ASSUME ConsoleInv, NEW q \in Polls,
           GetPayment(q) \/ ShowPayment(q) \/ PollFails(q)
    PROVE  ConsoleInv'
  <1> USE DEF ConsoleInv, ConsoleTypeOK, screenVars, timerVars
  <1>1. TimersOK(live', pollingInterval') /\ loading' \in BOOLEAN
    <2>1. CASE StopPolling
      BY <2>1, TimersStop DEF StopPolling
    <2>2. CASE UNCHANGED <<live, pollingInterval, loading>>
      BY <2>2 DEF NoTimerIsLost, TimersOK
    <2> QED BY <2>1, <2>2 DEF GetPayment, ShowPayment, PollFails
  <1>2. \/ poll' = [poll EXCEPT ![q] = NoPoll]
        \/ \E new : poll' = [poll EXCEPT ![q].at = "read",
                                         ![q].status = new]
    BY DEF GetPayment, ShowPayment, PollFails
  <1>3. /\ PollsAreRecords'
        /\ \A r \in Polls : /\ poll'[r].at \in {"none", "sent", "read"}
                            /\ poll'[r].timer \in {0} \cup Submissions
    <2>1. CASE poll' = [poll EXCEPT ![q] = NoPoll]
      BY <2>1 DEF PollsAreRecords, NoPoll
    <2>2. ASSUME NEW new, poll' = [poll EXCEPT ![q].at = "read",
                                               ![q].status = new]
          PROVE  /\ PollsAreRecords'
                 /\ \A r \in Polls :
                       /\ poll'[r].at \in {"none", "sent", "read"}
                       /\ poll'[r].timer \in {0} \cup Submissions
      <3>1. poll[q] = [at |-> poll[q].at, timer |-> poll[q].timer,
                       status |-> poll[q].status]
        BY DEF PollsAreRecords
      <3>2. /\ poll' = [r \in Polls |-> poll'[r]]
            /\ poll'[q] = [at |-> "read", timer |-> poll[q].timer,
                           status |-> new]
            /\ \A r \in Polls \ {q} : poll'[r] = poll[r]
        BY <2>2, <3>1 DEF PollsAreRecords
      <3> QED BY <3>2 DEF PollsAreRecords
    <2> QED BY <1>2, <2>1, <2>2
  <1>4. /\ UNCHANGED post /\ stepper' \in Displayed \cup {"none"}
        /\ shownBy' \in {0} \cup Submissions
    BY DEF GetPayment, ShowPayment, PollFails, UpdateStepper
  <1> QED BY <1>1, <1>3, <1>4, InvariantByParts DEF PostType

LEMMA ConsoleStep == ConsoleInv /\ [ConsoleNext]_vars => ConsoleInv'
  <1> SUFFICES ASSUME ConsoleInv, [ConsoleNext]_vars PROVE ConsoleInv'
    OBVIOUS
  <1>1. CASE Proceed \/ UNCHANGED vars
    BY <1>1
    DEF Proceed, vars, timerVars, screenVars, ConsoleInv, ConsoleTypeOK,
        NoTimerIsLost, PollsAreRecords
  <1> QED BY <1>1, SubmitStep, TickStep, PollStep DEF ConsoleNext

LEMMA ConsoleStart == ConsoleInit => ConsoleInv
  <1> SUFFICES ASSUME ConsoleInit PROVE ConsoleInv
    OBVIOUS
  <1>1. live = <<>> /\ DOMAIN live = {}
    BY DEF ConsoleInit
  <1>2. ConsoleTypeOK
    BY <1>1 DEF ConsoleInit, ConsoleTypeOK, NoPoll, NoPost
  <1> QED
    BY <1>1, <1>2
    DEF ConsoleInit, ConsoleInv, NoTimerIsLost, PollsAreRecords, NoPoll

LEMMA ConsoleInvariant == ConsoleSpec => []ConsoleInv
  BY ConsoleStart, ConsoleStep, PTL DEF ConsoleSpec

(* No timer is lost: the one that runs is the one the handle is of, also   *)
(* when submissions overlap because a late answer enabled the button.      *)
THEOREM TimersAreKept == ConsoleSpec => []NoTimerIsLost
  <1>1. ConsoleInv => NoTimerIsLost
    BY DEF ConsoleInv
  <1> QED BY <1>1, ConsoleInvariant, PTL

(* The console's variables keep their types: no timer polls more than      *)
(* MAX_POLLS times, and what is on display is a step or nothing.           *)
THEOREM ConsoleTypes == ConsoleSpec => []ConsoleTypeOK
  <1>1. ConsoleInv => ConsoleTypeOK
    BY DEF ConsoleInv
  <1> QED BY <1>1, ConsoleInvariant, PTL
-----------------------------------------------------------------------------
(* A timer exists, and polls are made for it, only once its POST is done.  *)
TimersAreCreated ==
    /\ \A i \in DOMAIN live : post[i].at = "done"
    /\ \A q \in Polls : poll[q].at # "none" => poll[q].timer # 0
                                           /\ post[poll[q].timer].at = "done"

(* The timer whose outcome is on display was cleared, and no other will    *)
(* have its name.                                                          *)
OutcomeIsOver ==
    stepper \in {"SUCCESS", "FAILED"} =>
        /\ shownBy \notin DOMAIN live
        /\ shownBy # 0 => post[shownBy].at = "done"

OutcomeInv == ConsoleInv /\ TimersAreCreated /\ OutcomeIsOver

LEMMA PostsStay ==
    ASSUME ConsoleInv, [ConsoleNext]_vars, NEW i \in Submissions,
           post[i].at = "done"
    PROVE  post'[i].at = "done"
  <1>1. ASSUME NEW j \in Submissions,
               Submit(j) \/ Store(j) \/ Created(j) \/ NotCreated(j)
        PROVE  post'[i] = post[i]
    BY <1>1
    DEF Submit, Store, Created, NotCreated, NoPost, ConsoleInv,
        ConsoleTypeOK
  <1> QED
    BY <1>1
    DEF ConsoleNext, Proceed, Tick, GetPayment, ShowPayment, PollFails, vars

LEMMA SubmissionsArePositive == 0 \notin Submissions
  <1>1. Submissions = 1..Cardinality(Submissions)
    BY ConsoleAssumption
  <1>2. Cardinality(Submissions) \in Nat
    BY ConsoleAssumption, FS_CardinalityType
  <1> QED BY <1>1, <1>2

(* Who adds a timer, and who a poll.                                       *)
LEMMA TimersMove ==
    ASSUME ConsoleInv, [ConsoleNext]_vars
    PROVE  /\ \A i \in DOMAIN live' : i \in DOMAIN live \/ Created(i)
           /\ \A q \in Polls : poll'[q].at # "none" =>
                 \/ poll[q].at # "none" /\ poll'[q].timer = poll[q].timer
                 \/ poll'[q].timer \in DOMAIN live
  <1> DEFINE LiveKept == \A i \in DOMAIN live' : i \in DOMAIN live
             PollsMove == \A q \in Polls : poll'[q].at # "none" =>
                 \/ poll[q].at # "none" /\ poll'[q].timer = poll[q].timer
                 \/ poll'[q].timer \in DOMAIN live
  <1>1. CASE Proceed \/ UNCHANGED vars
    BY <1>1 DEF Proceed, vars, timerVars
  <1>2. ASSUME NEW i \in Submissions,
               Submit(i) \/ Store(i) \/ NotCreated(i)
        PROVE  LiveKept /\ PollsMove
    BY <1>2 DEF Submit, Store, NotCreated, timerVars
  <1>3. ASSUME NEW i \in Submissions, Created(i)
        PROVE  DOMAIN live' = {i} /\ PollsMove
    <2>1. DOMAIN ClearInterval = {}
      BY DEF ConsoleInv, NoTimerIsLost, ClearInterval, Restrict
    <2> QED BY <1>3, <2>1 DEF Created, StartPolling, SetInterval
  <1>4. ASSUME NEW i \in Submissions, Tick(i)
        PROVE  LiveKept /\ PollsMove
    <2>1. LiveKept
      BY <1>4 DEF Tick, GiveUp, StopPolling, ClearInterval, Restrict
    <2>2. CASE UNCHANGED poll
      BY <2>1, <2>2
    <2>3. ASSUME NEW r \in Polls,
                 poll' = [poll EXCEPT ![r] = [NoPoll EXCEPT !.at = "sent",
                                                            !.timer = i]]
          PROVE  PollsMove
      BY <1>4, <2>3 DEF Tick, NoPoll, ConsoleInv, PollsAreRecords
    <2> QED BY <1>4, <2>1, <2>2, <2>3 DEF Tick
  <1>5. ASSUME NEW r \in Polls,
               GetPayment(r) \/ ShowPayment(r) \/ PollFails(r)
        PROVE  LiveKept /\ PollsMove
    <2>1. LiveKept
      BY <1>5
      DEF GetPayment, ShowPayment, PollFails, StopPolling, ClearInterval,
          Restrict, timerVars
    <2>2. CASE GetPayment(r)
      <3>1. poll[r] = [at |-> "sent", timer |-> poll[r].timer,
                       status |-> poll[r].status]
        BY <2>2 DEF GetPayment, ConsoleInv, PollsAreRecords
      <3> QED BY <2>1, <2>2, <3>1 DEF GetPayment, ConsoleInv,
                                      PollsAreRecords
    <2>3. CASE poll' = [poll EXCEPT ![r] = NoPoll]
      BY <2>1, <2>3 DEF NoPoll, ConsoleInv, PollsAreRecords
    <2> QED BY <1>5, <2>1, <2>2, <2>3 DEF ShowPayment, PollFails
  <1> QED BY <1>1, <1>2, <1>3, <1>4, <1>5 DEF ConsoleNext

LEMMA OutcomeStep ==
    ASSUME OutcomeInv, [ConsoleNext]_vars
    PROVE  OutcomeInv'
  <1>0. ConsoleInv /\ ConsoleInv'
    BY ConsoleStep DEF OutcomeInv
  <1>1. DOMAIN live \subseteq Submissions
    BY <1>0 DEF ConsoleInv, ConsoleTypeOK
  <1>2. TimersAreCreated'
    <2>1. ASSUME NEW i \in DOMAIN live' PROVE post'[i].at = "done"
      <3>1. i \in Submissions
        BY <1>0, <2>1 DEF ConsoleInv, ConsoleTypeOK
      <3>2. CASE i \in DOMAIN live
        BY <1>0, <3>1, <3>2, PostsStay DEF OutcomeInv, TimersAreCreated
      <3>3. CASE Created(i)
        BY <1>0, <3>1, <3>3
        DEF Created, ConsoleInv, ConsoleTypeOK, NoPost
      <3> QED BY <1>0, <2>1, <3>2, <3>3, TimersMove
    <2>2. ASSUME NEW q \in Polls, poll'[q].at # "none"
          PROVE  /\ poll'[q].timer # 0
                 /\ post'[poll'[q].timer].at = "done"
      <3>1. poll'[q].timer # 0 /\ post[poll'[q].timer].at = "done"
        BY <1>0, <1>1, <2>2, TimersMove, SubmissionsArePositive
        DEF OutcomeInv, TimersAreCreated
      <3>2. poll'[q].timer \in Submissions
        BY <1>0, <3>1 DEF ConsoleInv, ConsoleTypeOK
      <3> QED BY <1>0, <3>1, <3>2, PostsStay
    <2> QED BY <2>1, <2>2 DEF TimersAreCreated
  <1>3. ASSUME stepper' \in {"SUCCESS", "FAILED"},
               stepper' = stepper, shownBy' = shownBy
        PROVE  OutcomeIsOver'
    <2>1. /\ shownBy \notin DOMAIN live
          /\ shownBy # 0 => post[shownBy].at = "done"
      BY <1>3 DEF OutcomeInv, OutcomeIsOver
    <2>2. CASE shownBy = 0
      <3>1. 0 \notin DOMAIN live'
        BY <1>0, SubmissionsArePositive DEF ConsoleInv, ConsoleTypeOK
      <3> QED BY <1>3, <2>2, <3>1 DEF OutcomeIsOver
    <2>3. CASE shownBy # 0
      <3>1. shownBy \in Submissions
        BY <1>0, <2>3 DEF ConsoleInv, ConsoleTypeOK
      <3>2. shownBy \notin DOMAIN live'
        BY <1>0, <2>1, <2>3, TimersMove DEF Created
      <3> QED
        BY <1>0, <1>3, <2>1, <2>3, <3>1, <3>2, PostsStay DEF OutcomeIsOver
    <2> QED BY <2>2, <2>3
  <1>4. ASSUME NEW q \in Polls, ShowPayment(q),
               stepper' \in {"SUCCESS", "FAILED"}
        PROVE  OutcomeIsOver'
    <2>1. /\ shownBy' = poll[q].timer /\ post' = post
          /\ poll[q].at = "read"
      BY <1>4 DEF ShowPayment
    <2>2. IsFinal(poll[q].status)
      BY <1>4 DEF ShowPayment, UpdateStepper, IsFinal
    <2>3. DOMAIN live' = {}
      BY <1>0, <1>4, <2>2
      DEF ShowPayment, StopPolling, ClearInterval, Restrict, ConsoleInv,
          NoTimerIsLost
    <2> QED
      BY <2>1, <2>3 DEF OutcomeInv, TimersAreCreated, OutcomeIsOver
  <1>5. ASSUME NEW i \in Submissions, Submit(i)
        PROVE  OutcomeIsOver'
    BY <1>5 DEF Submit, UpdateStepper, Displayed, OutcomeIsOver
  <1>6. \/ stepper' = stepper /\ shownBy' = shownBy
        \/ \E q \in Polls : ShowPayment(q)
        \/ \E i \in Submissions : Submit(i)
    BY DEF ConsoleNext, Proceed, Store, Created, NotCreated, Tick,
           GetPayment, PollFails, screenVars, vars
  <1>7. OutcomeIsOver'
    BY <1>3, <1>4, <1>5, <1>6 DEF OutcomeIsOver
  <1> QED BY <1>0, <1>2, <1>7 DEF OutcomeInv

(* An outcome on display gives way only to another submission, an answer   *)
(* for another submission, or an answer that comes after its timer was     *)
(* cleared: never to an earlier status of the same payment that a poll of  *)
(* the running timer read.                                                 *)
THEOREM OutcomesStay == ConsoleSpec => OutcomeStays
  <1>1. ConsoleInit => OutcomeInv
    <2>1. ConsoleInit => ConsoleInv
      BY ConsoleStart
    <2>2. ConsoleInit => TimersAreCreated /\ OutcomeIsOver
      <3> SUFFICES ASSUME ConsoleInit
                   PROVE  TimersAreCreated /\ OutcomeIsOver
        OBVIOUS
      <3>1. live = <<>> /\ DOMAIN live = {}
        BY DEF ConsoleInit
      <3> QED
        BY <3>1 DEF ConsoleInit, TimersAreCreated, OutcomeIsOver, NoPoll
    <2> QED BY <2>1, <2>2 DEF OutcomeInv
  <1>2. OutcomeInv /\ [ConsoleNext]_vars => OutcomeInv'
    BY OutcomeStep
  <1>3. OutcomeInv /\ [ConsoleNext]_vars =>
          [(stepper \in {"SUCCESS", "FAILED"} /\ stepper' # stepper)
              => \/ \E i \in Submissions : Submit(i)
                 \/ \E q \in Polls : LateAnswer(q)
                 \/ shownBy' # shownBy]_vars
    <2> SUFFICES ASSUME OutcomeInv, ConsoleNext,
                        stepper \in {"SUCCESS", "FAILED"},
                        stepper' # stepper,
                        ~\E i \in Submissions : Submit(i),
                        shownBy' = shownBy
                 PROVE  \E q \in Polls : LateAnswer(q)
      BY DEF vars, screenVars
    <2>1. PICK q \in Polls : ShowPayment(q)
      BY DEF ConsoleNext, Proceed, Store, Created, NotCreated, Tick,
             GetPayment, PollFails, screenVars
    <2>2. poll[q].timer = shownBy
      BY <2>1 DEF ShowPayment
    <2>3. poll[q].timer \notin DOMAIN live
      BY <2>2 DEF OutcomeInv, OutcomeIsOver
    <2> QED BY <2>1, <2>3 DEF LateAnswer
  <1> QED BY <1>1, <1>2, <1>3, PTL DEF ConsoleSpec, OutcomeStays
=============================================================================
