------------------------------ MODULE Console ------------------------------
(***************************************************************************)
(* The browser console (public/app.js) on top of the payments system, of   *)
(* which it sees no more than PaymentLifecycle says.  A submission sends a *)
(* POST; when that succeeds a timer polls the payment every second and     *)
(* does not wait for the answers.  One variable holds the handle of the    *)
(* timer whatever payment it is of, and the button is the only thing that  *)
(* keeps the user from submitting.  The payment of key k is k (see         *)
(* IdempotentEndpoint).                                                    *)
(***************************************************************************)
EXTENDS Naturals, FiniteSets, Functions

CONSTANTS
    Payments,       \* the idempotency keys, and their payments
    MaxRetries,     \* of PaymentLifecycle
    Submissions,    \* bound: submissions of the form, 1..n
    Polls,          \* bound: polls in flight at a time, 1..n
    MAX_POLLS

ASSUME ConsoleAssumption ==
    /\ \A numbers \in {Submissions, Polls} :
          IsFiniteSet(numbers) /\ numbers = 1..Cardinality(numbers)
    /\ MAX_POLLS \in Nat

VARIABLES
    status, retries,    \* of PaymentLifecycle
    post,               \* post[i]: the POST of submission i
    live,               \* the pollCount of each timer that is not cleared;
                        \* a timer is named after its submission
    pollingInterval,    \* the handle, 0 for null
    poll,               \* poll[q]: a fetch of a payment
    stepper,            \* the status on display
    shownBy,            \* history: the timer whose answer is on display
    loading             \* the button is disabled

(* No client sees whether the gateway was called.                          *)
System == INSTANCE PaymentLifecycle WITH called <- [p \in Payments |-> FALSE]

systemVars == <<status, retries>>
timerVars == <<live, pollingInterval>>
screenVars == <<stepper, shownBy, loading>>
vars == <<systemVars, post, timerVars, poll, screenVars>>

Displayed == {"CREATED", "PENDING", "PROCESSING", "SUCCESS", "FAILED"}
NoPost == [pay |-> "none", at |-> "none"]
NoPoll == [at |-> "none", timer |-> 0, status |-> "none"]

ConsoleTypeOK ==
    /\ post \in [Submissions -> {NoPost}
                    \cup [pay : Payments, at : {"sent", "stored", "done"}]]
    /\ DOMAIN live \subseteq Submissions
    /\ \A i \in DOMAIN live : live[i] \in 0..MAX_POLLS
    /\ pollingInterval \in {0} \cup Submissions
    /\ \A q \in Polls : /\ poll[q].at \in {"none", "sent", "read"}
                        /\ poll[q].timer \in {0} \cup Submissions
    /\ stepper \in Displayed \cup {"none"}
    /\ shownBy \in {0} \cup Submissions
    /\ loading \in BOOLEAN

ConsoleInit ==
    /\ System!Init
    /\ post = [i \in Submissions |-> NoPost]
    /\ live = <<>> /\ pollingInterval = 0
    /\ poll = [q \in Polls |-> NoPoll]
    /\ stepper = "none" /\ shownBy = 0 /\ loading = FALSE
-----------------------------------------------------------------------------
(* The payments that were stored move on.                                  *)
Proceed ==
    /\ System!Next
    /\ \A p \in Payments : status[p] = "ABSENT" => status'[p] = "ABSENT"
    /\ UNCHANGED <<post, timerVars, poll, screenVars>>

(* updateStepper: other statuses leave every step incomplete.              *)
UpdateStepper(new) == stepper' = IF new \in Displayed THEN new ELSE "none"

(* The key input holds the key of the last submission until the button     *)
(* beside it puts a new one there (generateUUID).                          *)
KeyInput(i) ==
    {p \in Payments : \/ i > 1 /\ p = post[i - 1].pay
                      \/ \A j \in Submissions : p # post[j].pay}

(* The first half of the submit handler.  Submissions are numbered in      *)
(* their order.                                                            *)
Submit(i) ==
    /\ ~loading /\ post[i] = NoPost
    /\ \A j \in Submissions : post[j] = NoPost => i <= j
    /\ \E p \in KeyInput(i) :
          post' = [post EXCEPT ![i] = [pay |-> p, at |-> "sent"]]
    /\ loading' = TRUE
    /\ UpdateStepper("CREATED") /\ shownBy' = 0
    /\ UNCHANGED <<systemVars, timerVars, poll>>

(* The server stores the payment, or finds the one of the key.             *)
Store(i) ==
    /\ post[i].at = "sent"
    /\ post' = [post EXCEPT ![i].at = "stored"]
    /\ \/ System!Open(post[i].pay)
       \/ status[post[i].pay] # "ABSENT" /\ UNCHANGED systemVars
    /\ UNCHANGED <<timerVars, poll, screenVars>>

ClearInterval == Restrict(live, DOMAIN live \ {pollingInterval})

(* A new timer has not polled yet.                                         *)
SetInterval(timers, i) ==
    [j \in DOMAIN timers \cup {i} |-> IF j = i THEN 0 ELSE timers[j]]

(* Bug: a timer that runs is not cleared.                                  *)
StartAnotherTimer(i) ==
    live' = SetInterval(live, i) /\ pollingInterval' = i

StartPolling(i) ==
    live' = SetInterval(ClearInterval, i) /\ pollingInterval' = i

(* The second half of the submit handler, with json.success.               *)
Created(i) ==
    /\ post[i].at = "stored"
    /\ post' = [post EXCEPT ![i].at = "done"]
    /\ StartPolling(i)
    /\ UNCHANGED <<systemVars, poll, screenVars>>

(* ... with an error, or without an answer.                                *)
NotCreated(i) ==
    /\ post[i].at \in {"sent", "stored"}
    /\ post' = [post EXCEPT ![i].at = "done"]
    /\ loading' = FALSE
    /\ UNCHANGED <<systemVars, timerVars, poll, stepper, shownBy>>
-----------------------------------------------------------------------------
(* Whichever timer the handle is of.                                       *)
StopPolling ==
    /\ live' = ClearInterval
    /\ pollingInterval' = 0
    /\ loading' = FALSE

(* Bug: the button stays as it is.                                         *)
StopTimerOnly ==
    /\ live' = ClearInterval
    /\ pollingInterval' = 0
    /\ UNCHANGED loading

(* The polls are used up.                                                  *)
GiveUp == StopPolling

(* Bug: polling goes on for ever.                                          *)
NeverReached(count) == FALSE

LimitReached(count) == count > MAX_POLLS

(* The callback of the timer, up to its fetch.                             *)
Tick(i) ==
    /\ i \in DOMAIN live
    /\ \/ /\ LimitReached(live[i] + 1)
          /\ GiveUp
          /\ UNCHANGED poll
       \/ /\ ~LimitReached(live[i] + 1)
          /\ live' = [live EXCEPT ![i] = @ + 1]
          /\ \E q \in Polls :
                /\ poll[q] = NoPoll
                /\ \A other \in Polls : poll[other] = NoPoll => q <= other
                /\ poll' = [poll EXCEPT ![q] = [NoPoll EXCEPT !.at = "sent",
                                                              !.timer = i]]
          /\ UNCHANGED <<pollingInterval, loading>>
    /\ UNCHANGED <<systemVars, post, stepper, shownBy>>

(* getPayment: the row at the time of the read.                            *)
GetPayment(q) ==
    /\ poll[q].at = "sent"
    /\ poll' = [poll EXCEPT ![q].at = "read",
                            ![q].status = status[post[poll[q].timer].pay]]
    /\ UNCHANGED <<systemVars, post, timerVars, screenVars>>

(* Bug: a failure that may be retried is not an outcome.                   *)
IsSuccess(s) == s = "SUCCESS"

IsFinal(s) == s \in {"SUCCESS", "FAILED"}

(* The rest of the callback, whatever has become of its timer.             *)
ShowPayment(q) ==
    /\ poll[q].at = "read"
    /\ poll' = [poll EXCEPT ![q] = NoPoll]
    /\ UpdateStepper(poll[q].status) /\ shownBy' = poll[q].timer
    /\ IF IsFinal(poll[q].status)
       THEN StopPolling
       ELSE UNCHANGED <<live, pollingInterval, loading>>
    /\ UNCHANGED <<systemVars, post>>

(* The fetch fails, or answers 429 or 500: it is only logged.              *)
PollFails(q) ==
    /\ poll[q] # NoPoll
    /\ poll' = [poll EXCEPT ![q] = NoPoll]
    /\ UNCHANGED <<systemVars, post, timerVars, screenVars>>

ConsoleNext ==
    \/ Proceed
    \/ \E i \in Submissions :
          Submit(i) \/ Store(i) \/ Created(i) \/ NotCreated(i) \/ Tick(i)
    \/ \E q \in Polls : GetPayment(q) \/ ShowPayment(q) \/ PollFails(q)

(* Timers fire and every fetch ends, one way or another.  Nothing is       *)
(* assumed about the payments: they may never get anywhere.                *)
ConsoleFairness ==
    /\ \A i \in Submissions :
          WF_vars(Tick(i)) /\ WF_vars(Created(i) \/ NotCreated(i))
    /\ \A q \in Polls : WF_vars(ShowPayment(q) \/ PollFails(q))

ConsoleSpec == ConsoleInit /\ [][ConsoleNext]_vars /\ ConsoleFairness
-----------------------------------------------------------------------------
(* No timer is lost: one that still runs is the one the handle is of, so   *)
(* it can be cleared, also when submissions overlap because a late answer  *)
(* has enabled the button.                                                 *)
NoTimerIsLost == DOMAIN live \subseteq {pollingInterval}

(* The answer of a poll whose timer was cleared before it came.            *)
LateAnswer(q) == ShowPayment(q) /\ poll[q].timer \notin DOMAIN live

(* An outcome on display gives way only to another submission, a late      *)
(* answer, or an answer for a submission other than the one it is of.      *)
(* (A late answer is shown as if it were the latest of the active payment, *)
(* and stops the polling of that.)                                         *)
OutcomeStays ==
    [][(stepper \in {"SUCCESS", "FAILED"} /\ stepper' # stepper)
        => \/ \E i \in Submissions : Submit(i)
           \/ \E q \in Polls : LateAnswer(q)
           \/ shownBy' # shownBy]_vars

(* The button is enabled again after every submission, whatever becomes of *)
(* its payment and of the calls of the API.                                *)
ButtonComesBack == loading ~> ~loading
=============================================================================
