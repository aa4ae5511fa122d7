-------------------------- MODULE MCPaymentSystem --------------------------
(***************************************************************************)
(* Small instances of PaymentSystem for TLC: one payment and two webhook   *)
(* events about it that disagree.                                          *)
(***************************************************************************)
EXTENDS PaymentSystem, TLC

CONSTANTS p1, e1, e2, w1, w2, h1, h2

(* Slots are alike, and so are webhook requests.  Used by runs that check  *)
(* no liveness and do not name a task.                                     *)
SameTasks == Permutations(Slots) \cup Permutations(Hooks)

(* e1 reports success, e2 a failure that counts as retryable.              *)
MCPayload ==
    e1 :> [pay |-> p1, status |-> "success", code |-> None]
        @@ e2 :> [pay |-> p1, status |-> "failed", code |-> "INTERNAL_ERROR"]

(* Only a reported failure.                                                *)
FailurePayload ==
    e2 :> [pay |-> p1, status |-> "failed", code |-> "INTERNAL_ERROR"]

NoPayload == <<>>
=============================================================================
