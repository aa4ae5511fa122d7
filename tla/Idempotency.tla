---------------------------- MODULE Idempotency ----------------------------
(***************************************************************************)
(* POST /payments with an Idempotency-Key: middleware/idempotency.ts       *)
(* around createPayment, with the unique column payments.idempotency_key.  *)
(* Requests run in different processes.  pc[r] names the await a request   *)
(* is at:                                                                  *)
(*   get mark record      redis.get, redis.set NX, idempotencyKey.create   *)
(*   create enqueue       createPayment's transaction, enqueuePayment      *)
(*   cache                the redis.set of the wrapped res.json, which the *)
(*                        reply does not wait for                          *)
(* A request that never gets here (refused) was answered by the middleware *)
(* in front, of which PaymentsRoute models the rest.                       *)
(* The idempotency_keys table is written and never read, so its writes     *)
(* leave no trace here.  Keys are independent of each other.               *)
(***************************************************************************)
EXTENDS Naturals

CONSTANTS
    Requests,       \* the requests of one behaviour
    Keys,           \* the idempotency keys clients use
    Fields,         \* what the top-level fields of a body may say
    Metadata,       \* what the object under `metadata` may hold
    Bodies,         \* the bodies of the requests
    MaxLosses       \* bound: failed calls, dead processes and expired keys

ASSUME IdempotencyAssumption ==
    /\ MaxLosses \in Nat
    /\ "none" \notin Requests \cup Fields
    /\ Bodies \subseteq [fields : Fields, metadata : Metadata]

VARIABLES
    cached,         \* cached[k]: the record under the key's Redis entry
    payment,        \* payment[k]: who created the payment of the key
    pc, keyOf, bodyOf,
    patient,        \* clients wait for a reply before they repeat a key
    reply,          \* reply[r]: what the client of r was told
    losses          \* how often something was lost so far

requestVars == <<keyOf, bodyOf, patient>>
vars == <<cached, payment, pc, requestVars, reply, losses>>

ValidationError == 400
IdempotencyConflictError == 409
KeyReuse == 422
RateLimitError == 429
UnexpectedError == 500

Nothing == [code |-> 0, payment |-> "none"]
Created(r) == [code |-> 201, payment |-> r]
Refusal(code) == [code |-> code, payment |-> "none"]

(* The error classes of utils/errors.ts and the answers of the middleware  *)
(* that a client of POST /payments can get.                                *)
RefusalCodes == {ValidationError, IdempotencyConflictError, KeyReuse,
                 RateLimitError, UnexpectedError}
Replies == {Nothing} \cup {Created(r) : r \in Requests}
             \cup {Refusal(code) : code \in RefusalCodes}

(* Bug: the hash is taken before the body is parsed.                       *)
HashNothing(body) == "none"

(* The sorted top-level keys are the replacer of JSON.stringify: it lists  *)
(* the keys that are kept at every depth, so what is under the keys of     *)
(* metadata does not enter the hash.                                       *)
HashBody(body) == body.fields

NoRecord == [status |-> "absent", hash |-> "none", response |-> Nothing]
Processing(body) ==
    [status |-> "processing", hash |-> HashBody(body), response |-> Nothing]

(* Bug: the record is marked with the status of the Postgres table.        *)
CompletedInUpperCase(body, response) ==
    [status |-> "COMPLETED", hash |-> HashBody(body), response |-> response]

Completed(body, response) ==
    [status |-> "completed", hash |-> HashBody(body), response |-> response]

TypeOK ==
    /\ cached \in [Keys -> [status : {"absent", "processing", "completed"},
                            hash : Fields \cup {"none"}, response : Replies]]
    /\ payment \in [Keys -> Requests \cup {"none"}]
    /\ pc \in [Requests -> {"new", "refused", "get", "mark", "record",
                            "create", "enqueue", "cache", "done"}]
    /\ keyOf \in [Requests -> Keys] /\ bodyOf \in [Requests -> Bodies]
    /\ patient \in BOOLEAN
    /\ reply \in [Requests -> Replies]
    /\ losses \in 0..MaxLosses

Init ==
    /\ cached = [k \in Keys |-> NoRecord]
    /\ payment = [k \in Keys |-> "none"]
    /\ pc = [r \in Requests |-> "new"]
    /\ keyOf \in [Requests -> Keys] /\ bodyOf \in [Requests -> Bodies]
    /\ patient \in BOOLEAN
    /\ reply = [r \in Requests |-> Nothing]
    /\ losses = 0
-----------------------------------------------------------------------------
At(r, await) == pc[r] = await
Goto(r, await) == pc' = [pc EXCEPT ![r] = await]
InProgress(r) == pc[r] \notin {"new", "refused", "done"}
Awaits(r) == InProgress(r) /\ ~At(r, "cache")
Lose == losses < MaxLosses /\ losses' = losses + 1

(* res.json before the middleware has wrapped it.                          *)
Answer(r, response) ==
    Goto(r, "done") /\ reply' = [reply EXCEPT ![r] = response]

(* The wrapped res.json: whatever the response says, it is to be cached.   *)
AnswerAndCache(r, response) ==
    Goto(r, "cache") /\ reply' = [reply EXCEPT ![r] = response]

(* A middleware in front of this one answers.                              *)
Refuse(r, code) ==
    /\ At(r, "new")
    /\ Goto(r, "refused")
    /\ reply' = [reply EXCEPT ![r] = Refusal(code)]
    /\ UNCHANGED <<cached, payment, requestVars, losses>>

(* ... or fails where it is not noticed.                                   *)
FailInFront == Lose /\ UNCHANGED <<cached, payment, pc, requestVars, reply>>

Send(r) ==
    /\ At(r, "new")
    /\ patient => \A s \in Requests : keyOf[s] = keyOf[r] => ~Awaits(s)
    /\ Goto(r, "get")
    /\ UNCHANGED <<cached, payment, requestVars, reply, losses>>

(* Bug: a record that is still being processed counts as a miss.           *)
MissesUnlessCompleted(entry) == entry.status # "completed"

Misses(entry) == entry.status = "absent"

FastPath(entry, body) ==
    IF entry.hash # HashBody(body) THEN Refusal(KeyReuse)
    ELSE IF entry.status = "completed" THEN entry.response
    ELSE Refusal(IdempotencyConflictError)

Lookup(r) ==
    LET entry == cached[keyOf[r]] IN
    /\ At(r, "get")
    /\ IF Misses(entry) THEN Goto(r, "mark") /\ UNCHANGED reply
                        ELSE Answer(r, FastPath(entry, bodyOf[r]))
    /\ UNCHANGED <<cached, payment, requestVars, losses>>

(* SET ... NX: the middleware does not look at whether the key was set.    *)
Mark(r) ==
    LET k == keyOf[r] IN
    /\ At(r, "mark")
    /\ cached' = IF cached[k].status = "absent"
                 THEN [cached EXCEPT ![k] = Processing(bodyOf[r])]
                 ELSE cached
    /\ Goto(r, "record")
    /\ UNCHANGED <<payment, requestVars, reply, losses>>

(* A duplicate key, or any other error, is ignored; then res.json is       *)
(* wrapped and the handler runs.                                           *)
Record(r) ==
    /\ At(r, "record")
    /\ Goto(r, "create")
    /\ UNCHANGED <<cached, payment, requestVars, reply, losses>>

(* Bug: the column is not unique, the key finds the newest payment.        *)
InsertPaymentAgain(r) ==
    /\ At(r, "create")
    /\ payment' = [payment EXCEPT ![keyOf[r]] = r]
    /\ Goto(r, "enqueue")
    /\ UNCHANGED <<cached, reply, requestVars, losses>>

(* The unique column makes the second insert of a key throw, which the     *)
(* error handler answers with 500.                                         *)
InsertPayment(r) ==
    LET k == keyOf[r] IN
    /\ At(r, "create")
    /\ IF payment[k] = "none"
       THEN /\ payment' = [payment EXCEPT ![k] = r]
            /\ Goto(r, "enqueue")
            /\ UNCHANGED reply
       ELSE AnswerAndCache(r, Refusal(UnexpectedError)) /\ UNCHANGED payment
    /\ UNCHANGED <<cached, requestVars, losses>>

EnqueuePayment(r) ==
    /\ At(r, "enqueue")
    /\ AnswerAndCache(r, Created(r))
    /\ UNCHANGED <<cached, payment, requestVars, losses>>

(* SET without NX: it replaces whatever the key holds.                     *)
CacheResponse(r) ==
    /\ At(r, "cache")
    /\ cached' = [cached EXCEPT ![keyOf[r]] = Completed(bodyOf[r], reply[r])]
    /\ Goto(r, "done")
    /\ UNCHANGED <<payment, requestVars, reply, losses>>
-----------------------------------------------------------------------------
(* A call of Redis or Postgres throws, before or after it has had its      *)
(* effect.  Until the response is wrapped 500 is not cached, after that it *)
(* is; a failed cache write is only logged.                                *)
CallFails(r) ==
    LET k == keyOf[r] IN
    /\ Lose
    /\ \/ /\ pc[r] \in {"get", "mark"} /\ Answer(r, Refusal(UnexpectedError))
          /\ cached' = cached
             \/ /\ At(r, "mark") /\ cached[k].status = "absent"
                /\ cached' = [cached EXCEPT ![k] = Processing(bodyOf[r])]
          /\ UNCHANGED payment
       \/ /\ pc[r] \in {"create", "enqueue"}
          /\ AnswerAndCache(r, Refusal(UnexpectedError))
          /\ payment' = payment
             \/ /\ At(r, "create") /\ payment[k] = "none"
                /\ payment' = [payment EXCEPT ![k] = r]
          /\ UNCHANGED cached
       \/ /\ At(r, "cache") /\ Goto(r, "done")
          /\ UNCHANGED <<reply, cached, payment>>
    /\ UNCHANGED requestVars

(* The process of a request dies.                                          *)
Crash(r) ==
    /\ InProgress(r) /\ Lose
    /\ Goto(r, "done")
    /\ UNCHANGED <<cached, payment, requestVars, reply>>

(* IDEMPOTENCY_TTL_HOURS pass, or Redis loses the key.                     *)
Expire(k) ==
    /\ cached[k].status # "absent" /\ Lose
    /\ cached' = [cached EXCEPT ![k] = NoRecord]
    /\ UNCHANGED <<payment, pc, requestVars, reply>>

Step(r) ==
    \/ Lookup(r) \/ Mark(r) \/ Record(r) \/ InsertPayment(r)
    \/ EnqueuePayment(r) \/ CacheResponse(r)

Next ==
    \/ \E r \in Requests, code \in {ValidationError, RateLimitError} :
          Refuse(r, code)
    \/ \E r \in Requests : Send(r) \/ Step(r) \/ CallFails(r) \/ Crash(r)
    \/ \E k \in Keys : Expire(k)
    \/ FailInFront

Spec == Init /\ [][Next]_vars
-----------------------------------------------------------------------------
Reached(r) == pc[r] \notin {"new", "refused"}
AskAlike(r, s) == keyOf[r] = keyOf[s] /\ bodyOf[r].fields = bodyOf[s].fields

(* Every reply has its grounds.  A 201 needs the one payment of the key,   *)
(* made by a request with the same top-level fields, whether it was just   *)
(* made or comes from the cache; a 409 needs another request with the key  *)
(* and these fields that reached the middleware; a 422 needs one with the  *)
(* key and another body.  (That the grounds of a 201 should be the whole   *)
(* body is ReusedKeyIsRefused.)                                            *)
RepliesHaveGrounds ==
    \A r \in Requests :
        /\ reply[r].code = 201 =>
              /\ payment[keyOf[r]] = reply[r].payment
              /\ AskAlike(r, reply[r].payment)
        /\ reply[r].code = 409 =>
              \E s \in Requests \ {r} : AskAlike(r, s) /\ Reached(s)
        /\ reply[r].code = 422 =>
              \E s \in Requests : /\ keyOf[s] = keyOf[r] /\ Reached(s)
                                  /\ bodyOf[s] # bodyOf[r]

(* While nothing is lost, clients that wait for a reply before they send   *)
(* the key again are never told 500: a duplicate gets the payment of the   *)
(* first request (or 409 while its response is not cached yet), another    *)
(* body is refused.                                                        *)
PatientClientsAreServed ==
    (patient /\ losses = 0) => \A r \in Requests : reply[r].code # 500

(* What a request asks for is what hashBody sees of its body.              *)
Endpoint == INSTANCE IdempotentEndpoint WITH
    asked        <- [r \in Requests |-> bodyOf[r].fields],
    Nobody       <- "none",
    Unanswered   <- Nothing,
    Errors       <- {Refusal(code) : code \in RefusalCodes},
    Confirmation <- [r \in Requests |-> Created(r)]

(* Through every race, lost call, crash and expired record the endpoint    *)
(* does what IdempotentEndpoint promises.                                  *)
ImplementsEndpoint == Endpoint!Spec

(* idempotency.ts:46, "prevent key reuse with different payloads": a       *)
(* request is never told of a payment that another body made.  (hashBody   *)
(* does not see what is under metadata, so such a reuse is answered with   *)
(* the payment of the other body.)                                         *)
ReusedKeyIsRefused ==
    \A r \in Requests :
        reply[r].code = 201 => bodyOf[reply[r].payment] = bodyOf[r]

(* README.md, Idempotency: "Duplicate requests return cached response,     *)
(* never create duplicate payments".  Once a request that was answered 201 *)
(* is done, its response included, the completed record of its key holds   *)
(* that response.  (A duplicate that lost the race fails on the unique     *)
(* column, and its 500 replaces the cached response of the one that won.)  *)
CachedResponseIsKept ==
    \A r \in Requests :
        (/\ reply[r].code = 201 /\ At(r, "done")
         /\ cached[keyOf[r]].status = "completed")
            => cached[keyOf[r]].response = reply[r]
=============================================================================
