------------------------- MODULE IdempotentEndpoint -------------------------
(***************************************************************************)
(* What POST /payments promises to those who use it, without caches, locks *)
(* or processes: a key is bound to a payment once and for ever, a request  *)
(* is answered once, and it is confirmed only with the payment of its key  *)
(* and only if it asked for the same thing as the request that made it.    *)
(***************************************************************************)
CONSTANTS
    Requests, Keys,
    Nobody,         \* stands for the maker of a payment that is not made
    Unanswered, Errors,
    Confirmation    \* Confirmation[r]: the reply that names r's payment

VARIABLES
    keyOf, asked,   \* the key of a request and what it asks for
    payment,        \* payment[k]: the request that made the payment of k
    reply           \* reply[r]: what r was told

vars == <<keyOf, asked, payment, reply>>

Init ==
    /\ keyOf \in [Requests -> Keys]
    /\ payment = [k \in Keys |-> Nobody]
    /\ reply = [r \in Requests |-> Unanswered]

Make(r) ==
    /\ payment[keyOf[r]] = Nobody
    /\ payment' = [payment EXCEPT ![keyOf[r]] = r]

Tell(r, x) ==
    /\ reply[r] = Unanswered
    /\ reply' = [reply EXCEPT ![r] = x]

(* The payment is made before its client knows of it.                      *)
Create(r) == Make(r) /\ UNCHANGED reply

Confirm(r, maker) ==
    /\ payment[keyOf[r]] = maker /\ maker # Nobody
    /\ asked[maker] = asked[r]
    /\ Tell(r, Confirmation[maker])
    /\ UNCHANGED payment

(* An error may be all the client gets of a payment that was made.         *)
Refuse(r) ==
    /\ \E x \in Errors : Tell(r, x)
    /\ Make(r) \/ UNCHANGED payment

Next ==
    /\ \E r \in Requests :
          Create(r) \/ Refuse(r) \/ \E maker \in Requests : Confirm(r, maker)
    /\ UNCHANGED <<keyOf, asked>>

Spec == Init /\ [][Next]_vars
=============================================================================
