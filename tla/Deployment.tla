----------------------------- MODULE Deployment -----------------------------
(***************************************************************************)
(* What a deployment of the gateway consists of - the payments it handles  *)
(* and the tasks its Node processes run concurrently - and the failures    *)
(* that may hit it: a call to Postgres or Redis that throws, a call that   *)
(* takes effect but whose reply is lost, a process that dies.  A failure   *)
(* spends one unit of a budget, so a behaviour has at most MaxFaults.      *)
(***************************************************************************)
EXTENDS PaymentStates, Naturals

CONSTANTS
    Payments,       \* the payment ids
    Slots,          \* runs of the process worker (QUEUE_CONCURRENCY each)
    RetrySlots,     \* runs of the retry worker
    Hooks,          \* webhook requests in progress
    MaxFaults       \* bound: failures in one behaviour

Tasks == Slots \cup RetrySlots \cup Hooks

ASSUME TasksAssumption ==
    /\ None \notin Tasks
    /\ Slots \cap RetrySlots = {}
    /\ (Slots \cup RetrySlots) \cap Hooks = {}

ASSUME FaultsAssumption == MaxFaults \in Nat

VARIABLE faults     \* the failures that may still happen

FaultsTypeOK == faults \in 0..MaxFaults
FaultsInit == faults = MaxFaults
SpendFault == faults > 0 /\ faults' = faults - 1
=============================================================================
