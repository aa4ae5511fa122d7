------------------------------ MODULE JobQueue ------------------------------
(***************************************************************************)
(* The two BullMQ queues as the code uses them (BullMQ itself is a         *)
(* library).  A job has an id chosen by the producer; adding an id that is *)
(* still in Redis, in whatever state, does nothing.  Finished jobs are     *)
(* kept (removeOnComplete, removeOnFail) until enough others finish.  A    *)
(* job whose worker stops renewing it is stalled: it is handed out again,  *)
(* MaxStalled times, and then failed.  attempts is 1, so a failed job is   *)
(* not retried by the queue.                                               *)
(***************************************************************************)
EXTENDS PaymentStore

CONSTANT MaxStalled     \* redeliveries of a stalled job (maxStalledCount)

ASSUME QueueAssumption == MaxStalled \in Nat

VARIABLE job        \* job[id]: its state, the slot that runs it, its stalls

ProcessJob(p) == <<"process", p, 0>>
RetryJob(p, attempt) == <<"retry", p, attempt>>
ProcessJobs == {ProcessJob(p) : p \in Payments}
RetryJobs == {RetryJob(p, a) : p \in Payments, a \in 1..MaxRetries}
JobIds == ProcessJobs \cup RetryJobs

JobType == [state : {"absent", "waiting", "active", "finished"},
            owner : Slots \cup RetrySlots \cup {None}, stalls : 0..MaxStalled]

NoJob == [state |-> "absent", owner |-> None, stalls |-> 0]

QueueTypeOK == job \in [JobIds -> JobType]
QueueInit == job = [id \in JobIds |-> NoJob]
-----------------------------------------------------------------------------
(* A job in a state, held by a slot or by nobody.                          *)
Become(id, state, owner, stalls) ==
    job' = [job EXCEPT ![id] = [state |-> state, owner |-> owner,
                                stalls |-> stalls]]

Add(id) ==
    IF job[id].state = "absent" THEN Become(id, "waiting", None, 0)
                                ELSE UNCHANGED job

Take(id, slot) ==
    /\ job[id].state = "waiting"
    /\ Become(id, "active", slot, job[id].stalls)

(* A worker that lost the job to a redelivery cannot finish it any more.   *)
Finish(id, slot) ==
    IF job[id].owner = slot THEN Become(id, "finished", None, job[id].stalls)
                            ELSE UNCHANGED job

Evict(id) ==
    /\ job[id].state = "finished"
    /\ Become(id, "absent", None, 0)

Stall(id) ==
    /\ job[id].state = "active"
    /\ IF job[id].stalls < MaxStalled
       THEN Become(id, "waiting", None, job[id].stalls + 1)
       ELSE Become(id, "finished", None, job[id].stalls)
=============================================================================
