------------------------ MODULE PaymentsRouteProofs ------------------------
(***************************************************************************)
(* Proofs about POST /payments, for any number of requests, keys, bodies,  *)
(* losses and processes, any window and any limit.                         *)
(*   1. The idempotency middleware and its handler:                        *)
(*   GroundedReplies   every reply has its grounds.  A reply may come from *)
(*      the cache, so what is cached must have them too; and a refusal     *)
(*      names another request, so every record must have a request that    *)
(*      sent its fields and is past the lookup.                            *)
(*   EndpointIsIdempotent   they implement IdempotentEndpoint: besides the *)
(*      above, a step answers only a request that was not answered before, *)
(*      and what the cache answers is an error or a confirmation.          *)
(*   PatientClients   a client that waits for its replies is not told 500  *)
(*      while nothing is lost: its request is alone with its key.          *)
(*   2. The route: limiter and validation add no behaviour that the        *)
(* middleware does not have, so what it promises survives.                 *)
(*   3. The limiter:                                                       *)
(*   LimiterOverrun, LimiterHasCause   what it lets through at most, and   *)
(*      why it rejects, however the pipelines of the processes interleave. *)
(***************************************************************************)
EXTENDS PaymentsRoute, FiniteSetTheorems, TLAPS

USE DEF HashBody

PastLookup(s) == pc[s] \notin {"new", "refused", "get"}

(* A record was made by a request with its key and its fields.             *)
RecordsAreSent ==
    \A k \in Keys : cached[k].status # "absent" =>
        \E s \in Requests : /\ keyOf[s] = k /\ PastLookup(s)
                            /\ bodyOf[s].fields = cached[k].hash

(* A cached response was the reply to a request with the record's key and  *)
(* fields: it is an error or names the payment of the key.                 *)
CacheIsTrue ==
    \A k \in Keys : cached[k].status = "completed" =>
        /\ cached[k].response.code \in {201, 500}
        /\ cached[k].response.code = 201 =>
              /\ payment[k] = cached[k].response.payment
              /\ keyOf[cached[k].response.payment] = k
              /\ bodyOf[cached[k].response.payment].fields = cached[k].hash

(* What a request may rely on at the awaits that answer it.                *)
RequestsAreTrue ==
    \A r \in Requests :
        /\ At(r, "enqueue") => payment[keyOf[r]] = r
        /\ At(r, "cache") => reply[r].code \in {201, 500}

ReplyInv ==
    TypeOK /\ RecordsAreSent /\ CacheIsTrue /\ RequestsAreTrue
        /\ RepliesHaveGrounds

-----------------------------------------------------------------------------
LEMMA RepliesAreTyped ==
    /\ Nothing \in Replies
    /\ \A r \in Requests : Created(r) \in Replies
    /\ \A code \in RefusalCodes : Refusal(code) \in Replies
    /\ \A x \in Replies : x.code = 201 => x.payment \in Requests
  <1> USE DEF ValidationError, IdempotencyConflictError, KeyReuse,
              RateLimitError, UnexpectedError, RefusalCodes
  <1>1. ASSUME NEW r \in Requests PROVE Created(r) \in Replies
    BY DEF Replies
  <1>2. ASSUME NEW code \in RefusalCodes PROVE Refusal(code) \in Replies
    BY DEF Replies
  <1>3. ASSUME NEW x \in Replies, x.code = 201 PROVE x.payment \in Requests
    <2>1. \A code \in RefusalCodes : x # Refusal(code)
      BY <1>3 DEF Refusal
    <2>2. x # Nothing
      BY <1>3 DEF Nothing
    <2>3. PICK r \in Requests : x = Created(r)
      BY <2>1, <2>2 DEF Replies
    <2> QED
      BY <2>3 DEF Created
  <1> QED
    BY <1>1, <1>2, <1>3 DEF Replies

(* The replies that are not a confirmation, and their codes.               *)
LEMMA RefusalsAreTyped ==
    /\ Refusal(ValidationError) \in Replies
    /\ Refusal(ValidationError).code = 400
    /\ Refusal(IdempotencyConflictError) \in Replies
    /\ Refusal(IdempotencyConflictError).code = 409
    /\ Refusal(KeyReuse) \in Replies
    /\ Refusal(KeyReuse).code = 422
    /\ Refusal(RateLimitError) \in Replies
    /\ Refusal(RateLimitError).code = 429
    /\ Refusal(UnexpectedError) \in Replies
    /\ Refusal(UnexpectedError).code = 500
  BY RepliesAreTyped
     DEF ValidationError, IdempotencyConflictError, KeyReuse,
         RateLimitError, UnexpectedError, RefusalCodes, Refusal

(* What the step of a request leaves alone.                                *)
LEMMA StepFrame ==
    ASSUME Next
    PROVE  UNCHANGED requestVars
  BY DEF Next, Refuse, Send, Step, Lookup, Mark, Record, InsertPayment,
         EnqueuePayment, CacheResponse, CallFails, Crash, Expire,
         FailInFront

LEMMA TypeStep ==
    ASSUME TypeOK, [Next]_vars
    PROVE  TypeOK'
  <1> USE IdempotencyAssumption
  <1>1. CASE UNCHANGED vars
    BY <1>1 DEF vars, requestVars, TypeOK
  <1>12. ASSUME NEW r \in Requests,
                NEW code \in {ValidationError, RateLimitError},
                Refuse(r, code)
         PROVE  TypeOK'
    <2>1. Refusal(code) \in Replies
      BY RefusalsAreTyped
    <2> QED
      BY <1>12, <2>1 DEF Refuse, Goto, requestVars, TypeOK
  <1>2. ASSUME NEW r \in Requests, Send(r) PROVE TypeOK'
    BY <1>2 DEF Send, Goto, requestVars, TypeOK
  <1>3. ASSUME NEW r \in Requests, Lookup(r) PROVE TypeOK'
    <2>1. FastPath(cached[keyOf[r]], bodyOf[r]) \in Replies
      BY RefusalsAreTyped DEF FastPath, TypeOK
    <2>2. /\ \/ pc' = [pc EXCEPT ![r] = "mark"]
             \/ pc' = [pc EXCEPT ![r] = "done"]
          /\ \/ UNCHANGED reply
             \/ reply' = [reply EXCEPT ![r] =
                             FastPath(cached[keyOf[r]], bodyOf[r])]
      BY <1>3 DEF Lookup, Answer, Goto
    <2>3. UNCHANGED <<cached, payment, requestVars, losses>>
      BY <1>3 DEF Lookup
    <2> QED
      BY <2>1, <2>2, <2>3 DEF requestVars, TypeOK
  <1>4. ASSUME NEW r \in Requests, Mark(r) PROVE TypeOK'
    BY <1>4, RepliesAreTyped
       DEF Mark, Processing, Goto, requestVars, TypeOK
  <1>5. ASSUME NEW r \in Requests, Record(r) PROVE TypeOK'
    BY <1>5 DEF Record, Goto, requestVars, TypeOK
  <1>6. ASSUME NEW r \in Requests, InsertPayment(r) PROVE TypeOK'
    <2>1. Refusal(UnexpectedError) \in Replies
      BY RefusalsAreTyped
    <2>2. /\ pc' \in [Requests -> {"new", "refused", "get", "mark", "record",
                                  "create", "enqueue", "cache", "done"}]
          /\ reply' \in [Requests -> Replies]
      BY <1>6, <2>1 DEF InsertPayment, AnswerAndCache, Goto, TypeOK
    <2>3. payment' \in [Keys -> Requests \cup {"none"}]
      BY <1>6 DEF InsertPayment, TypeOK
    <2> QED
      BY <1>6, <2>2, <2>3 DEF InsertPayment, requestVars, TypeOK
  <1>7. ASSUME NEW r \in Requests, EnqueuePayment(r) PROVE TypeOK'
    BY <1>7, RepliesAreTyped
       DEF EnqueuePayment, AnswerAndCache, Goto, requestVars, TypeOK
  <1>8. ASSUME NEW r \in Requests, CacheResponse(r) PROVE TypeOK'
    BY <1>8 DEF CacheResponse, Completed, Goto, requestVars, TypeOK
  <1>9. ASSUME NEW r \in Requests, CallFails(r) PROVE TypeOK'
    <2>1. Refusal(UnexpectedError) \in Replies
      BY RefusalsAreTyped
    <2>2. /\ pc' \in [Requests -> {"new", "refused", "get", "mark", "record",
                                  "create", "enqueue", "cache", "done"}]
          /\ reply' \in [Requests -> Replies]
      <3>1. /\ \E await \in {"done", "cache"} :
                  pc' = [pc EXCEPT ![r] = await]
            /\ reply' \in {reply, [reply EXCEPT ![r] =
                                     Refusal(UnexpectedError)]}
        BY <1>9 DEF CallFails, Answer, AnswerAndCache, Goto
      <3> QED
        BY <2>1, <3>1 DEF TypeOK
    <2>3. payment' \in [Keys -> Requests \cup {"none"}]
      BY <1>9 DEF CallFails, TypeOK
    <2>4. cached' = cached \/ cached' =
             [cached EXCEPT ![keyOf[r]] = Processing(bodyOf[r])]
      BY <1>9 DEF CallFails
    <2>5. Processing(bodyOf[r]) \in
             [status : {"absent", "processing", "completed"},
              hash : Fields \cup {"none"}, response : Replies]
      BY RepliesAreTyped DEF Processing, TypeOK
    <2>6. cached' \in
             [Keys -> [status : {"absent", "processing", "completed"},
                       hash : Fields \cup {"none"}, response : Replies]]
      BY <2>4, <2>5 DEF TypeOK
    <2>7. losses' \in 0..MaxLosses
      BY <1>9 DEF CallFails, Lose, TypeOK
    <2> QED
      BY <1>9, <2>2, <2>3, <2>6, <2>7 DEF CallFails, requestVars, TypeOK
  <1>10. ASSUME NEW r \in Requests, Crash(r) PROVE TypeOK'
    BY <1>10 DEF Crash, Lose, Goto, requestVars, TypeOK
  <1>11. ASSUME NEW k \in Keys, Expire(k) PROVE TypeOK'
    BY <1>11, RepliesAreTyped
       DEF Expire, Lose, NoRecord, requestVars, TypeOK
  <1>13. CASE FailInFront
    BY <1>13 DEF FailInFront, Lose, requestVars, TypeOK
  <1> QED
    BY <1>1, <1>2, <1>3, <1>4, <1>5, <1>6, <1>7, <1>8, <1>9, <1>10, <1>11,
       <1>12, <1>13
       DEF Next, Step

(* Requests only go forward, and a payment stays the payment of its key.   *)
LEMMA GoForward ==
    ASSUME TypeOK, [Next]_vars
    PROVE  /\ UNCHANGED requestVars
           /\ \A s \in Requests : Reached(s) => Reached(s)'
           /\ \A s \in Requests : PastLookup(s) => PastLookup(s)'
           /\ \A k \in Keys : payment[k] # "none" => payment'[k] = payment[k]
  <1>1. CASE UNCHANGED vars
    BY <1>1 DEF vars, requestVars, Reached, PastLookup
  <1>2. CASE Next
    <2>1. UNCHANGED requestVars
      BY <1>2, StepFrame
    <2>2. ASSUME NEW k \in Keys, payment[k] # "none"
          PROVE  payment'[k] = payment[k]
      BY <1>2, <2>2
         DEF Next, Refuse, Send, Step, Lookup, Mark, Record, InsertPayment,
             EnqueuePayment, CacheResponse, CallFails, Crash, Expire,
             FailInFront, TypeOK
    <2>3. \/ UNCHANGED pc
          \/ \E r \in Requests : \E await :
                /\ pc' = [pc EXCEPT ![r] = await]
                /\ pc[r] # "new" => await \notin {"new", "refused", "get"}
                /\ Reached(r) => pc[r] # "new"
      BY <1>2
         DEF Next, Refuse, Send, Step, Lookup, Mark, Record, InsertPayment,
             EnqueuePayment, CacheResponse, CallFails, Crash, Expire,
             FailInFront, Goto,
             At, Answer, AnswerAndCache, InProgress, Reached
    <2>4. ASSUME NEW s \in Requests
          PROVE  /\ Reached(s) => Reached(s)'
                 /\ PastLookup(s) => PastLookup(s)'
      BY <2>3 DEF TypeOK, Reached, PastLookup
    <2> QED
      BY <2>1, <2>2, <2>4
  <1> QED
    BY <1>1, <1>2

(* Who writes a record, and what.                                          *)
LEMMA RecordMoves ==
    ASSUME TypeOK, [Next]_vars
    PROVE  \/ UNCHANGED cached
           \/ \E k \in Keys : Expire(k)
           \/ \E r \in Requests : CacheResponse(r)
           \/ \E r \in Requests :
                 /\ cached' = [cached EXCEPT ![keyOf[r]] =
                                 Processing(bodyOf[r])]
                 /\ At(r, "mark")
  <1>1. ASSUME NEW r \in Requests, CallFails(r)
        PROVE  \/ UNCHANGED cached
               \/ /\ cached' = [cached EXCEPT ![keyOf[r]] =
                                  Processing(bodyOf[r])]
                  /\ At(r, "mark")
    BY <1>1 DEF CallFails
  <1>2. ASSUME NEW r \in Requests, Mark(r)
        PROVE  \/ UNCHANGED cached
               \/ /\ cached' = [cached EXCEPT ![keyOf[r]] =
                                  Processing(bodyOf[r])]
                  /\ At(r, "mark")
    BY <1>2 DEF Mark
  <1> QED
    BY <1>1, <1>2
       DEF Next, Refuse, Send, Step, Lookup, Record, InsertPayment,
           EnqueuePayment, Crash, FailInFront, vars

LEMMA RecordsStep ==
    ASSUME TypeOK, RecordsAreSent, [Next]_vars
    PROVE  RecordsAreSent'
  <1> SUFFICES ASSUME NEW k \in Keys, cached'[k].status # "absent"
               PROVE  \E s \in Requests :
                         /\ keyOf'[s] = k /\ PastLookup(s)'
                         /\ bodyOf'[s].fields = cached'[k].hash
    BY DEF RecordsAreSent
  <1>f. /\ keyOf' = keyOf /\ bodyOf' = bodyOf
        /\ \A s \in Requests : PastLookup(s) => PastLookup(s)'
    BY GoForward DEF requestVars
  <1>1. CASE cached'[k] = cached[k]
    BY <1>1, <1>f DEF RecordsAreSent
  <1>2. ASSUME NEW r \in Requests, keyOf[r] = k,
               cached'[k].hash = bodyOf[r].fields,
               pc[r] \in {"mark", "cache"}
        PROVE  \E s \in Requests :
                  /\ keyOf'[s] = k /\ PastLookup(s)'
                  /\ bodyOf'[s].fields = cached'[k].hash
    <2>1. PastLookup(r)
      BY <1>2 DEF PastLookup
    <2> QED
      BY <1>2, <1>f, <2>1
  <1>3. ASSUME NEW l \in Keys, Expire(l) PROVE cached'[k] = cached[k]
    BY <1>3 DEF Expire, NoRecord, TypeOK
  <1>4. ASSUME NEW r \in Requests, CacheResponse(r), keyOf[r] = k
        PROVE  cached'[k].hash = bodyOf[r].fields /\ pc[r] = "cache"
    BY <1>4 DEF CacheResponse, Completed, At, TypeOK
  <1>5. ASSUME NEW r \in Requests, CacheResponse(r), keyOf[r] # k
        PROVE  cached'[k] = cached[k]
    BY <1>5 DEF CacheResponse, TypeOK
  <1>6. ASSUME NEW r \in Requests, At(r, "mark"), keyOf[r] = k,
               cached' = [cached EXCEPT ![keyOf[r]] = Processing(bodyOf[r])]
        PROVE  cached'[k].hash = bodyOf[r].fields /\ pc[r] = "mark"
    BY <1>6 DEF Processing, At, TypeOK
  <1>7. ASSUME NEW r \in Requests, keyOf[r] # k,
               cached' = [cached EXCEPT ![keyOf[r]] = Processing(bodyOf[r])]
        PROVE  cached'[k] = cached[k]
    BY <1>7 DEF TypeOK
  <1> QED
    BY RecordMoves, <1>1, <1>2, <1>3, <1>4, <1>5, <1>6, <1>7

LEMMA CacheStep ==
    ASSUME TypeOK, CacheIsTrue, RequestsAreTrue, RepliesHaveGrounds,
           [Next]_vars
    PROVE  CacheIsTrue'
  <1> SUFFICES ASSUME NEW k \in Keys, cached'[k].status = "completed"
               PROVE  /\ cached'[k].response.code \in {201, 500}
                      /\ cached'[k].response.code = 201 =>
                            LET x == cached'[k].response.payment IN
                            /\ payment'[k] = x
                            /\ keyOf'[x] = k
                            /\ bodyOf'[x].fields = cached'[k].hash
    BY DEF CacheIsTrue
  <1>f. /\ keyOf' = keyOf /\ bodyOf' = bodyOf
        /\ \A l \in Keys : payment[l] # "none" => payment'[l] = payment[l]
    BY GoForward DEF requestVars
  <1>1. CASE cached'[k] = cached[k]
    <2>1. cached[k].response.code = 201 =>
             cached[k].response.payment \in Requests
      BY RepliesAreTyped DEF TypeOK
    <2> QED
      BY <1>1, <1>f, <2>1, IdempotencyAssumption DEF CacheIsTrue
  <1>2. ASSUME NEW l \in Keys, Expire(l) PROVE cached'[k] = cached[k]
    BY <1>2 DEF Expire, NoRecord, TypeOK
  <1>3. ASSUME NEW r \in Requests, CacheResponse(r), keyOf[r] # k
        PROVE  cached'[k] = cached[k]
    BY <1>3 DEF CacheResponse, TypeOK
  <1>4. ASSUME NEW r \in Requests,
               cached' = [cached EXCEPT ![keyOf[r]] = Processing(bodyOf[r])]
        PROVE  cached'[k] = cached[k]
    BY <1>4 DEF Processing, TypeOK
  <1>5. ASSUME NEW r \in Requests, CacheResponse(r), keyOf[r] = k
        PROVE  /\ cached'[k].response.code \in {201, 500}
               /\ cached'[k].response.code = 201 =>
                     LET x == cached'[k].response.payment IN
                     /\ payment'[k] = x
                     /\ keyOf'[x] = k /\ bodyOf'[x].fields = cached'[k].hash
    <2>1. cached'[k] = Completed(bodyOf[r], reply[r]) /\ At(r, "cache")
      BY <1>5 DEF CacheResponse, TypeOK
    <2>2. cached'[k].response = reply[r] /\ cached'[k].hash = bodyOf[r].fields
      BY <2>1 DEF Completed
    <2>3. payment' = payment
      BY <1>5 DEF CacheResponse
    <2> QED
      BY <1>f, <1>5, <2>1, <2>2, <2>3
         DEF RequestsAreTrue, RepliesHaveGrounds, AskAlike
  <1> QED
    BY RecordMoves, <1>1, <1>2, <1>3, <1>4, <1>5

(* What a step tells a client, if it tells it anything.                    *)
LEMMA ReplyMoves ==
    ASSUME TypeOK, [Next]_vars, NEW s \in Requests
    PROVE  \/ /\ reply'[s] = reply[s]
              /\ pc'[s] = pc[s] \/ pc'[s] \notin {"enqueue", "cache"}
           \/ InsertPayment(s) \/ EnqueuePayment(s) \/ Lookup(s)
           \/ reply'[s] = Refusal(UnexpectedError) /\ pc'[s] # "enqueue"
           \/ \E code \in {ValidationError, RateLimitError} :
                 reply'[s] = Refusal(code) /\ pc'[s] = "refused"
  <1>1. CASE UNCHANGED vars
    BY <1>1 DEF vars
  <1>2. ASSUME NEW r \in Requests, CallFails(r)
        PROVE  \/ /\ reply'[s] = reply[s]
                  /\ pc'[s] = pc[s] \/ pc'[s] \notin {"enqueue", "cache"}
               \/ reply'[s] = Refusal(UnexpectedError) /\ pc'[s] # "enqueue"
    BY <1>2 DEF CallFails, Answer, AnswerAndCache, Goto, TypeOK
  <1>3. ASSUME NEW r \in Requests,
               Send(r) \/ Mark(r) \/ Record(r) \/ CacheResponse(r) \/ Crash(r)
        PROVE  /\ reply'[s] = reply[s]
               /\ pc'[s] = pc[s] \/ pc'[s] \notin {"enqueue", "cache"}
    BY <1>3 DEF Send, Mark, Record, CacheResponse, Crash, Goto, TypeOK
  <1>4. ASSUME NEW r \in Requests, r # s,
               InsertPayment(r) \/ EnqueuePayment(r) \/ Lookup(r)
        PROVE  reply'[s] = reply[s] /\ pc'[s] = pc[s]
    BY <1>4 DEF InsertPayment, EnqueuePayment, Lookup, Answer,
                AnswerAndCache, Goto, TypeOK
  <1>5. ASSUME NEW k \in Keys, Expire(k)
        PROVE  reply'[s] = reply[s] /\ pc'[s] = pc[s]
    BY <1>5 DEF Expire
  <1>6. ASSUME NEW r \in Requests,
               NEW code \in {ValidationError, RateLimitError},
               Refuse(r, code)
        PROVE  \/ reply'[s] = reply[s] /\ pc'[s] = pc[s]
               \/ reply'[s] = Refusal(code) /\ pc'[s] = "refused"
    BY <1>6 DEF Refuse, Goto, TypeOK
  <1>7. CASE FailInFront
    BY <1>7 DEF FailInFront
  <1> QED
    BY <1>1, <1>2, <1>3, <1>4, <1>5, <1>6, <1>7 DEF Next, Step

LEMMA RequestsStep ==
    ASSUME TypeOK, RequestsAreTrue, [Next]_vars
    PROVE  RequestsAreTrue'
  <1> SUFFICES ASSUME NEW s \in Requests
               PROVE  /\ pc'[s] = "enqueue" => payment'[keyOf'[s]] = s
                      /\ pc'[s] = "cache" => reply'[s].code \in {201, 500}
    BY DEF RequestsAreTrue, At
  <1>f. /\ keyOf' = keyOf /\ keyOf[s] \in Keys /\ s # "none"
        /\ \A k \in Keys : payment[k] # "none" => payment'[k] = payment[k]
    BY GoForward, IdempotencyAssumption DEF requestVars, TypeOK
  <1>1. CASE /\ reply'[s] = reply[s]
             /\ pc'[s] = pc[s] \/ pc'[s] \notin {"enqueue", "cache"}
    BY <1>1, <1>f DEF RequestsAreTrue, At
  <1>2. CASE InsertPayment(s)
    BY <1>2, <1>f, RefusalsAreTyped
       DEF InsertPayment, AnswerAndCache, Goto, TypeOK
  <1>3. CASE EnqueuePayment(s)
    BY <1>3 DEF EnqueuePayment, AnswerAndCache, Goto, Created, TypeOK
  <1>4. CASE Lookup(s)
    BY <1>4 DEF Lookup, FastPath, Misses, Answer, Goto, TypeOK
  <1>5. CASE reply'[s] = Refusal(UnexpectedError) /\ pc'[s] # "enqueue"
    BY <1>5, RefusalsAreTyped
  <1>6. CASE pc'[s] = "refused"
    BY <1>6
  <1> QED
    BY ReplyMoves, <1>1, <1>2, <1>3, <1>4, <1>5, <1>6

(* The grounds that RepliesHaveGrounds asks of a reply x to s, by code.    *)
Paid(s, x) ==
    x.code = 201 => payment[keyOf[s]] = x.payment /\ AskAlike(s, x.payment)
Contended(s, x) ==
    x.code = 409 => \E t \in Requests \ {s} : AskAlike(s, t) /\ Reached(t)
Reused(s, x) ==
    x.code = 422 => \E t \in Requests : /\ keyOf[t] = keyOf[s]
                                        /\ Reached(t)
                                        /\ bodyOf[t] # bodyOf[s]
Grounded(s, x) == Paid(s, x) /\ Contended(s, x) /\ Reused(s, x)

(* The reply of the fast path, in the state before it.                     *)
LEMMA LookupHasGrounds ==
    ASSUME TypeOK, RecordsAreSent, CacheIsTrue, NEW s \in Requests,
           Lookup(s), cached[keyOf[s]].status # "absent"
    PROVE  reply'[s] \in Replies /\ Grounded(s, reply'[s])
  <1> DEFINE entry == cached[keyOf[s]]
  <1>1. PICK t \in Requests : /\ keyOf[t] = keyOf[s] /\ PastLookup(t)
                              /\ bodyOf[t].fields = entry.hash
    BY DEF RecordsAreSent, TypeOK
  <1>2. t # s
    BY <1>1 DEF Lookup, At, PastLookup
  <1>r. Reached(t)
    BY <1>1 DEF PastLookup, Reached
  <1>3. CASE entry.hash # bodyOf[s].fields
    <2>1. reply'[s] = Refusal(KeyReuse)
      BY <1>3 DEF Lookup, FastPath, Misses, Answer, TypeOK
    <2> QED
      BY <2>1, <1>1, <1>r, <1>3, RefusalsAreTyped
         DEF Grounded, Paid, Contended, Reused
  <1>4. CASE entry.hash = bodyOf[s].fields /\ entry.status = "completed"
    <2>1. reply'[s] = entry.response
      BY <1>4 DEF Lookup, FastPath, Misses, Answer, TypeOK
    <2>2. entry.response \in Replies
      BY DEF TypeOK
    <2>3. /\ entry.response.code \in {201, 500}
          /\ entry.response.code = 201 =>
                /\ payment[keyOf[s]] = entry.response.payment
                /\ keyOf[entry.response.payment] = keyOf[s]
                /\ bodyOf[entry.response.payment].fields = entry.hash
      BY <1>4 DEF CacheIsTrue, TypeOK
    <2> QED
      BY <2>1, <2>2, <2>3, <1>4
         DEF Grounded, Paid, Contended, Reused, AskAlike
  <1>5. CASE entry.hash = bodyOf[s].fields /\ entry.status # "completed"
    <2>1. reply'[s] = Refusal(IdempotencyConflictError)
      BY <1>5 DEF Lookup, FastPath, Misses, Answer, TypeOK
    <2> QED
      BY <2>1, <1>1, <1>2, <1>r, <1>5, RefusalsAreTyped
         DEF Grounded, Paid, Contended, Reused, AskAlike
  <1> QED
    BY <1>3, <1>4, <1>5

(* The grounds of a reply last.                                            *)
LEMMA GroundsLast ==
    ASSUME TypeOK, [Next]_vars, NEW s \in Requests, NEW x \in Replies,
           Grounded(s, x)
    PROVE  /\ x.code = 201 =>
                 /\ payment'[keyOf'[s]] = x.payment
                 /\ keyOf'[s] = keyOf'[x.payment]
                 /\ bodyOf'[s].fields = bodyOf'[x.payment].fields
           /\ x.code = 409 => \E t \in Requests \ {s} :
                 /\ keyOf'[s] = keyOf'[t]
                 /\ bodyOf'[s].fields = bodyOf'[t].fields
                 /\ Reached(t)'
           /\ x.code = 422 => \E t \in Requests :
                 /\ keyOf'[t] = keyOf'[s] /\ Reached(t)'
                 /\ bodyOf'[t] # bodyOf'[s]
  <1>f. /\ keyOf' = keyOf /\ bodyOf' = bodyOf /\ keyOf[s] \in Keys
        /\ \A t \in Requests : Reached(t) => Reached(t)'
        /\ \A k \in Keys : payment[k] # "none" => payment'[k] = payment[k]
    BY GoForward DEF requestVars, TypeOK
  <1>1. x.code = 201 => x.payment # "none"
    BY RepliesAreTyped, IdempotencyAssumption
  <1> QED
    BY <1>f, <1>1 DEF Grounded, Paid, Contended, Reused, AskAlike

LEMMA RepliesStep ==
    ASSUME TypeOK, RecordsAreSent, CacheIsTrue, RequestsAreTrue,
           RepliesHaveGrounds, [Next]_vars
    PROVE  RepliesHaveGrounds'
  <1>1. ASSUME NEW s \in Requests
        PROVE  \E x \in Replies : reply'[s] = x /\ Grounded(s, x)
    <2>1. CASE reply'[s] = reply[s]
      BY <2>1
         DEF TypeOK, RepliesHaveGrounds, Grounded, Paid, Contended, Reused,
             AskAlike
    <2>2. CASE reply'[s] = Refusal(UnexpectedError)
      BY <2>2, RefusalsAreTyped DEF Grounded, Paid, Contended, Reused
    <2>3. CASE InsertPayment(s)
      <3>1. reply'[s] = reply[s] \/ reply'[s] = Refusal(UnexpectedError)
        BY <2>3 DEF InsertPayment, AnswerAndCache, TypeOK
      <3> QED
        BY <3>1, <2>1, <2>2
    <2>4. CASE EnqueuePayment(s)
      <3>1. reply'[s] = Created(s) /\ payment[keyOf[s]] = s
        BY <2>4 DEF EnqueuePayment, AnswerAndCache, RequestsAreTrue, TypeOK
      <3> QED
        BY <3>1, RepliesAreTyped
           DEF Grounded, Paid, Contended, Reused, Created, AskAlike
    <2>5. CASE Lookup(s)
      <3>1. CASE cached[keyOf[s]].status = "absent"
        BY <2>5, <3>1, <2>1 DEF Lookup, Misses
      <3>2. CASE cached[keyOf[s]].status # "absent"
        BY <2>5, <3>2, LookupHasGrounds
      <3> QED
        BY <3>1, <3>2
    <2>6. ASSUME NEW code \in {ValidationError, RateLimitError},
                 reply'[s] = Refusal(code)
          PROVE  \E x \in Replies : reply'[s] = x /\ Grounded(s, x)
      BY <2>6, RefusalsAreTyped DEF Grounded, Paid, Contended, Reused
    <2> QED
      BY ReplyMoves, <2>1, <2>2, <2>3, <2>4, <2>5, <2>6
  <1>2. ASSUME NEW s \in Requests
        PROVE  /\ reply'[s].code = 201 =>
                     /\ payment'[keyOf'[s]] = reply'[s].payment
                     /\ keyOf'[s] = keyOf'[reply'[s].payment]
                     /\ bodyOf'[s].fields = bodyOf'[reply'[s].payment].fields
               /\ reply'[s].code = 409 => \E t \in Requests \ {s} :
                     /\ keyOf'[s] = keyOf'[t]
                     /\ bodyOf'[s].fields = bodyOf'[t].fields
                     /\ Reached(t)'
               /\ reply'[s].code = 422 => \E t \in Requests :
                     /\ keyOf'[t] = keyOf'[s] /\ Reached(t)'
                     /\ bodyOf'[t] # bodyOf'[s]
    BY <1>1, GroundsLast
  <1> QED
    BY <1>2 DEF RepliesHaveGrounds, AskAlike

-----------------------------------------------------------------------------
LEMMA ReplyInit == Init => ReplyInv
  BY IdempotencyAssumption
     DEF Init, ReplyInv, TypeOK, RecordsAreSent, CacheIsTrue,
         RequestsAreTrue, RepliesHaveGrounds, At, NoRecord, Nothing, Replies

LEMMA ReplyStep == ReplyInv /\ [Next]_vars => ReplyInv'
  BY TypeStep, RecordsStep, CacheStep, RequestsStep, RepliesStep
     DEF ReplyInv

(* Every reply has its grounds (RepliesHaveGrounds): whatever interleaving *)
(* of middleware and handler, lost call, crash or expired record, a 201    *)
(* names the payment of the key, made by a request with the same top-level *)
(* fields - not always the same body - and a 409 or 422 has a request that *)
(* causes it.                                                              *)
THEOREM GroundedReplies == Spec => []RepliesHaveGrounds
  <1>1. ReplyInv => RepliesHaveGrounds
    BY DEF ReplyInv
  <1> QED
    BY <1>1, ReplyInit, ReplyStep, PTL DEF Spec
-----------------------------------------------------------------------------
Unanswered == {"new", "get", "mark", "record", "create", "enqueue"}

(* A request is answered on the way out.                                   *)
AnsweredOnce == \A r \in Requests : pc[r] \in Unanswered => reply[r] = Nothing

EndpointInv == ReplyInv /\ AnsweredOnce
-----------------------------------------------------------------------------
LEMMA AnsweredOnceStep ==
    ASSUME TypeOK, AnsweredOnce, [Next]_vars
    PROVE  AnsweredOnce'
  <1> SUFFICES ASSUME NEW s \in Requests, pc'[s] \in Unanswered
               PROVE  reply'[s] = Nothing
    BY DEF AnsweredOnce
  <1>0. pc[s] \in Unanswered /\ reply'[s] = reply[s] => reply'[s] = Nothing
    BY DEF AnsweredOnce
  <1>1. CASE UNCHANGED vars
    BY <1>0, <1>1 DEF vars
  <1>2. ASSUME NEW r \in Requests, NEW code, Refuse(r, code)
        PROVE  pc[s] \in Unanswered /\ reply'[s] = reply[s]
    BY <1>2 DEF Refuse, Goto, TypeOK, Unanswered
  <1>3. ASSUME NEW r \in Requests, Send(r) \/ Mark(r) \/ Record(r)
        PROVE  pc[s] \in Unanswered /\ reply'[s] = reply[s]
    BY <1>3 DEF Send, Mark, Record, Goto, At, TypeOK, Unanswered
  <1>4. ASSUME NEW r \in Requests, Lookup(r)
        PROVE  pc[s] \in Unanswered /\ reply'[s] = reply[s]
    BY <1>4 DEF Lookup, Answer, Goto, At, TypeOK, Unanswered
  <1>5. ASSUME NEW r \in Requests, InsertPayment(r) \/ EnqueuePayment(r)
        PROVE  pc[s] \in Unanswered /\ reply'[s] = reply[s]
    BY <1>5 DEF InsertPayment, EnqueuePayment, AnswerAndCache, Goto, At,
                TypeOK, Unanswered
  <1>6. ASSUME NEW r \in Requests, CacheResponse(r) \/ Crash(r)
        PROVE  pc[s] \in Unanswered /\ reply'[s] = reply[s]
    BY <1>6 DEF CacheResponse, Crash, Goto, At, TypeOK, Unanswered
  <1>7. ASSUME NEW r \in Requests, CallFails(r)
        PROVE  pc[s] \in Unanswered /\ reply'[s] = reply[s]
    BY <1>7 DEF CallFails, Answer, AnswerAndCache, Goto, At, TypeOK,
                Unanswered
  <1>8. ASSUME NEW k \in Keys, Expire(k)
        PROVE  pc[s] \in Unanswered /\ reply'[s] = reply[s]
    BY <1>8 DEF Expire
  <1>9. CASE FailInFront
    BY <1>0, <1>9 DEF FailInFront
  <1> QED
    BY <1>0, <1>1, <1>2, <1>3, <1>4, <1>5, <1>6, <1>7, <1>8, <1>9
       DEF Next, Step

-----------------------------------------------------------------------------
(* The steps of the endpoint, on the variables of the middleware.          *)
LEMMA EndpointSteps ==
    ASSUME NEW r \in Requests, UNCHANGED requestVars
    PROVE  /\ /\ payment[keyOf[r]] = "none" /\ UNCHANGED reply
              /\ payment' = [payment EXCEPT ![keyOf[r]] = r]
              => Endpoint!Next
           /\ \A x \in {Refusal(code) : code \in RefusalCodes} :
                 /\ reply[r] = Nothing
                 /\ reply' = [reply EXCEPT ![r] = x]
                 /\ \/ UNCHANGED payment
                    \/ /\ payment[keyOf[r]] = "none"
                       /\ payment' = [payment EXCEPT ![keyOf[r]] = r]
                 => Endpoint!Next
           /\ \A maker \in Requests :
                 /\ payment[keyOf[r]] = maker /\ maker # "none"
                 /\ bodyOf[maker].fields = bodyOf[r].fields
                 /\ reply[r] = Nothing
                 /\ reply' = [reply EXCEPT ![r] = Created(maker)]
                 /\ UNCHANGED payment
                 => Endpoint!Next
  <1>1. /\ UNCHANGED keyOf
        /\ [s \in Requests |-> bodyOf[s].fields]' =
              [s \in Requests |-> bodyOf[s].fields]
    BY DEF requestVars
  <1>2. /\ payment[keyOf[r]] = "none" /\ UNCHANGED reply
        /\ payment' = [payment EXCEPT ![keyOf[r]] = r]
        => Endpoint!Next
    BY <1>1 DEF Endpoint!Next, Endpoint!Create, Endpoint!Make
  <1>3. ASSUME NEW x \in {Refusal(code) : code \in RefusalCodes},
               reply[r] = Nothing, reply' = [reply EXCEPT ![r] = x],
               \/ UNCHANGED payment
               \/ /\ payment[keyOf[r]] = "none"
                  /\ payment' = [payment EXCEPT ![keyOf[r]] = r]
        PROVE  Endpoint!Next
    <2>1. Endpoint!Refuse(r)
      BY <1>3 DEF Endpoint!Refuse, Endpoint!Tell, Endpoint!Make
    <2> QED
      BY <1>1, <2>1 DEF Endpoint!Next
  <1>4. ASSUME NEW maker \in Requests,
               payment[keyOf[r]] = maker, maker # "none",
               bodyOf[maker].fields = bodyOf[r].fields,
               reply[r] = Nothing, UNCHANGED payment,
               reply' = [reply EXCEPT ![r] = Created(maker)]
        PROVE  Endpoint!Next
    <2>1. Endpoint!Confirm(r, maker)
      BY <1>4 DEF Endpoint!Confirm, Endpoint!Tell
    <2> QED
      BY <1>1, <2>1 DEF Endpoint!Next
  <1> QED
    BY <1>2, <1>3, <1>4

(* What a record of the cache answers: an error, or the confirmation of    *)
(* the payment of its key.                                                 *)
LEMMA ResponseIsAnswer ==
    ASSUME TypeOK, NEW x \in Replies, x.code \in {201, 500}
    PROVE  \/ x = Refusal(UnexpectedError)
           \/ x.code = 201 /\ x.payment \in Requests
                /\ x = Created(x.payment)
  BY DEF Replies, Nothing, Created, Refusal, RefusalCodes, ValidationError,
         IdempotencyConflictError, KeyReuse, RateLimitError, UnexpectedError

LEMMA LookupImplements ==
    ASSUME EndpointInv, NEW r \in Requests, Lookup(r)
    PROVE  Endpoint!Next \/ UNCHANGED <<payment, reply>>
  <1> DEFINE entry == cached[keyOf[r]]
  <1>1. TypeOK /\ reply[r] = Nothing /\ UNCHANGED <<requestVars, payment>>
    BY DEF EndpointInv, ReplyInv, AnsweredOnce, Unanswered, Lookup, At
  <1>2. CASE entry.status = "absent"
    BY <1>1, <1>2 DEF Lookup, Misses
  <1>3. CASE entry.status # "absent"
    <2>1. reply' = [reply EXCEPT ![r] = FastPath(entry, bodyOf[r])]
      BY <1>3 DEF Lookup, Misses, Answer
    <2>2. ASSUME NEW code \in RefusalCodes,
                 FastPath(entry, bodyOf[r]) = Refusal(code)
          PROVE  Endpoint!Next
      BY <1>1, <2>1, <2>2, EndpointSteps
    <2>3. CASE entry.hash = bodyOf[r].fields /\ entry.status = "completed"
      <3>1. FastPath(entry, bodyOf[r]) = entry.response
        BY <2>3 DEF FastPath, HashBody
      <3>2. /\ entry.response \in Replies
            /\ entry.response.code \in {201, 500}
            /\ entry.response.code = 201 =>
                  /\ payment[keyOf[r]] = entry.response.payment
                  /\ bodyOf[entry.response.payment].fields = entry.hash
        BY <2>3 DEF EndpointInv, ReplyInv, CacheIsTrue, TypeOK
      <3>3. CASE entry.response = Refusal(UnexpectedError)
        BY <2>2, <3>1, <3>3 DEF RefusalCodes
      <3>4. CASE /\ entry.response.code = 201
                 /\ entry.response.payment \in Requests
                 /\ entry.response = Created(entry.response.payment)
        <4>1. entry.response.payment # "none"
          BY <3>4, IdempotencyAssumption
        <4> DEFINE maker == entry.response.payment
        <4>2. /\ payment[keyOf[r]] = maker
              /\ bodyOf[maker].fields = bodyOf[r].fields
              /\ reply' = [reply EXCEPT ![r] = Created(maker)]
          BY <2>1, <2>3, <3>1, <3>2, <3>4
        <4> HIDE DEF maker
        <4> QED
          BY <1>1, <3>4, <4>1, <4>2, EndpointSteps DEF maker
      <3> QED
        BY <1>1, <3>2, <3>3, <3>4, ResponseIsAnswer
    <2>4. CASE ~(entry.hash = bodyOf[r].fields /\ entry.status = "completed")
      <3>1. \/ FastPath(entry, bodyOf[r]) = Refusal(KeyReuse)
            \/ FastPath(entry, bodyOf[r]) = Refusal(IdempotencyConflictError)
        BY <2>4 DEF FastPath, HashBody
      <3> QED
        BY <2>2, <3>1 DEF RefusalCodes
    <2> QED
      BY <2>3, <2>4
  <1> QED
    BY <1>2, <1>3

LEMMA StepImplements ==
    ASSUME EndpointInv, [Next]_vars
    PROVE  [Endpoint!Next]_(Endpoint!vars)
  <1>f. TypeOK /\ UNCHANGED requestVars
    BY GoForward DEF EndpointInv, ReplyInv
  <1>s. UNCHANGED <<payment, reply>> => UNCHANGED Endpoint!vars
    BY <1>f DEF Endpoint!vars, requestVars
  <1>e. /\ Refusal(UnexpectedError) \in
              {Refusal(code) : code \in RefusalCodes}
        /\ Refusal(ValidationError) \in
              {Refusal(code) : code \in RefusalCodes}
        /\ Refusal(RateLimitError) \in {Refusal(code) : code \in RefusalCodes}
    BY DEF RefusalCodes
  <1>1. CASE UNCHANGED vars
    BY <1>1, <1>s DEF vars
  <1>2. ASSUME NEW r \in Requests,
               NEW code \in {ValidationError, RateLimitError},
               Refuse(r, code)
        PROVE  Endpoint!Next
    <2>1. /\ reply[r] = Nothing /\ UNCHANGED payment
          /\ reply' = [reply EXCEPT ![r] = Refusal(code)]
      BY <1>2 DEF EndpointInv, AnsweredOnce, Unanswered, Refuse, At
    <2> QED
      BY <1>e, <1>f, <2>1, EndpointSteps
  <1>3. ASSUME NEW r \in Requests, InsertPayment(r)
        PROVE  Endpoint!Next
    <2>1. reply[r] = Nothing
      BY <1>3 DEF EndpointInv, AnsweredOnce, Unanswered, InsertPayment, At
    <2>2. CASE payment[keyOf[r]] = "none"
      BY <1>3, <1>f, <2>2, EndpointSteps DEF InsertPayment
    <2>3. CASE payment[keyOf[r]] # "none"
      <3>1. /\ reply' = [reply EXCEPT ![r] = Refusal(UnexpectedError)]
            /\ UNCHANGED payment
        BY <1>3, <2>3 DEF InsertPayment, AnswerAndCache
      <3> QED
        BY <1>e, <1>f, <2>1, <3>1, EndpointSteps
    <2> QED
      BY <2>2, <2>3
  <1>4. ASSUME NEW r \in Requests, EnqueuePayment(r)
        PROVE  Endpoint!Next
    <2>1. /\ reply[r] = Nothing /\ payment[keyOf[r]] = r /\ r # "none"
          /\ reply' = [reply EXCEPT ![r] = Created(r)] /\ UNCHANGED payment
      BY <1>4, IdempotencyAssumption
         DEF EndpointInv, ReplyInv, RequestsAreTrue, AnsweredOnce, Unanswered,
             EnqueuePayment, AnswerAndCache, At
    <2> QED
      BY <1>f, <2>1, EndpointSteps
  <1>5. ASSUME NEW r \in Requests, CallFails(r)
        PROVE  Endpoint!Next \/ UNCHANGED <<payment, reply>>
    <2>1. \/ UNCHANGED <<payment, reply>>
          \/ /\ reply[r] = Nothing
             /\ reply' = [reply EXCEPT ![r] = Refusal(UnexpectedError)]
             /\ \/ UNCHANGED payment
                \/ /\ payment[keyOf[r]] = "none"
                   /\ payment' = [payment EXCEPT ![keyOf[r]] = r]
      BY <1>5 DEF CallFails, Answer, AnswerAndCache, EndpointInv,
                  AnsweredOnce, Unanswered
    <2> QED
      BY <1>e, <1>f, <2>1, EndpointSteps
  <1>6. ASSUME NEW r \in Requests,
               \/ Send(r) \/ Mark(r) \/ Record(r) \/ CacheResponse(r)
               \/ Crash(r)
        PROVE  UNCHANGED <<payment, reply>>
    BY <1>6 DEF Send, Mark, Record, CacheResponse, Crash
  <1>7. ASSUME NEW k \in Keys, Expire(k) PROVE UNCHANGED <<payment, reply>>
    BY <1>7 DEF Expire
  <1>8. CASE FailInFront
    BY <1>s, <1>8 DEF FailInFront
  <1> QED
    BY <1>s, <1>1, <1>2, <1>3, <1>4, <1>5, <1>6, <1>7, <1>8, LookupImplements
       DEF Next, Step

-----------------------------------------------------------------------------
(* Whatever races, is lost, crashes or expires, POST /payments binds a key *)
(* to one payment for ever, answers a request once, and confirms it only   *)
(* with the payment of its key, made for the same fields.                  *)
THEOREM EndpointIsIdempotent == Spec => ImplementsEndpoint
  <1>1. Init => EndpointInv
    BY ReplyInit DEF Init, EndpointInv, AnsweredOnce
  <1>2. EndpointInv /\ [Next]_vars => EndpointInv'
    BY ReplyStep, AnsweredOnceStep DEF EndpointInv, ReplyInv
  <1>3. Init => Endpoint!Init
    BY DEF Init, Endpoint!Init
  <1>4. EndpointInv /\ [Next]_vars => [Endpoint!Next]_(Endpoint!vars)
    BY StepImplements
  <1> QED
    BY <1>1, <1>2, <1>3, <1>4, PTL DEF Spec, ImplementsEndpoint, Endpoint!Spec
-----------------------------------------------------------------------------
(* While nothing is lost, a patient client's request is alone with its key *)
(* until it is answered.  From the moment it is recorded the key is        *)
(* occupied, so the next request takes the fast path, and the one that     *)
(* creates the payment finds none.                                         *)
Alone == \A r, s \in Requests :
            Awaits(r) /\ Awaits(s) /\ keyOf[r] = keyOf[s] => r = s

OccupiedOnceMarked ==
    /\ \A r \in Requests : pc[r] \in {"record", "create", "enqueue", "cache"}
          => cached[keyOf[r]].status # "absent"
    /\ \A k \in Keys : payment[k] # "none" => cached[k].status # "absent"

UnpaidUntilCreated ==
    \A r \in Requests : pc[r] \in {"mark", "record", "create"}
        => payment[keyOf[r]] = "none"

NoErrorIsCached ==
    \A k \in Keys : cached[k].status = "completed" =>
        cached[k].response.code # 500

PatientInv ==
    /\ patient => Alone
    /\ patient /\ losses = 0 =>
          /\ OccupiedOnceMarked /\ UnpaidUntilCreated /\ NoErrorIsCached
          /\ \A r \in Requests : reply[r].code # 500

(* A request begins to wait for its answer when it is sent.                *)
LEMMA AwaitsMoves ==
    ASSUME TypeOK, [Next]_vars, NEW s \in Requests, Awaits(s)'
    PROVE  \/ Awaits(s)
           \/ Send(s) /\ \A t \in Requests \ {s} : pc'[t] = pc[t]
  <1> USE DEF Awaits, InProgress, At, Goto, TypeOK
  <1>1. CASE UNCHANGED vars
    BY <1>1 DEF vars
  <1>2. ASSUME NEW r \in Requests, NEW code, Refuse(r, code)
        PROVE  Awaits(s)
    BY <1>2 DEF Refuse
  <1>3. ASSUME NEW r \in Requests, Send(r)
        PROVE  \/ Awaits(s)
               \/ Send(s) /\ \A t \in Requests \ {s} : pc'[t] = pc[t]
    <2>1. CASE r = s
      BY <1>3, <2>1 DEF Send
    <2>2. CASE r # s
      BY <1>3, <2>2 DEF Send
    <2> QED BY <2>1, <2>2
  <1>4. ASSUME NEW r \in Requests, Lookup(r) \/ Mark(r) \/ Record(r)
        PROVE  Awaits(s)
    BY <1>4 DEF Lookup, Answer, Mark, Record
  <1>5. ASSUME NEW r \in Requests,
               InsertPayment(r) \/ EnqueuePayment(r) \/ CacheResponse(r)
        PROVE  Awaits(s)
    BY <1>5
    DEF InsertPayment, EnqueuePayment, CacheResponse, AnswerAndCache
  <1>6. ASSUME NEW r \in Requests, CallFails(r) \/ Crash(r)
        PROVE  Awaits(s)
    BY <1>6 DEF CallFails, Crash, Answer, AnswerAndCache
  <1>7. CASE FailInFront \/ \E k \in Keys : Expire(k)
    BY <1>7 DEF FailInFront, Expire
  <1> QED
    BY <1>1, <1>2, <1>3, <1>4, <1>5, <1>6, <1>7 DEF Next, Step

LEMMA AloneStep ==
    ASSUME TypeOK, [Next]_vars, Alone, patient
    PROVE  Alone'
  <1> SUFFICES ASSUME NEW r \in Requests, NEW s \in Requests,
                      Awaits(r)', Awaits(s)', keyOf'[r] = keyOf'[s], r # s
               PROVE  FALSE
    BY DEF Alone
  <1>1. keyOf[r] = keyOf[s]
    BY GoForward DEF requestVars
  <1>2. ~(Awaits(r) /\ Awaits(s))
    BY <1>1 DEF Alone
  <1>3. ASSUME NEW t \in Requests, NEW u \in Requests, t # u,
               keyOf[t] = keyOf[u], Send(t), pc'[u] = pc[u], Awaits(u)'
        PROVE  FALSE
    BY <1>3 DEF Send, Awaits, InProgress, At
  <1> QED
    BY <1>1, <1>2, <1>3, AwaitsMoves

(* A step that loses nothing, of a patient client.                         *)
LEMMA ServiceStep ==
    ASSUME ReplyInv, Alone, patient, OccupiedOnceMarked, UnpaidUntilCreated,
           NoErrorIsCached, \A r \in Requests : reply[r].code # 500,
           NEW r \in Requests, Send(r) \/ Step(r)
    PROVE  /\ OccupiedOnceMarked' /\ UnpaidUntilCreated' /\ NoErrorIsCached'
           /\ \A s \in Requests : reply'[s].code # 500
  <1> DEFINE Done == /\ OccupiedOnceMarked' /\ UnpaidUntilCreated'
                     /\ NoErrorIsCached'
                     /\ \A s \in Requests : reply'[s].code # 500
  <1>0. TypeOK /\ keyOf[r] \in Keys
    BY DEF ReplyInv, TypeOK
  <1> USE DEF OccupiedOnceMarked, UnpaidUntilCreated, NoErrorIsCached, At,
              Goto, requestVars
  <1>1. CASE Send(r)
    BY <1>0, <1>1 DEF Send, TypeOK
  <1>2. CASE Lookup(r)
    <2> DEFINE entry == cached[keyOf[r]]
    <2>1. CASE entry.status = "absent"
      <3>1. payment[keyOf[r]] = "none"
        BY <1>0, <2>1
      <3>2. /\ pc' = [pc EXCEPT ![r] = "mark"]
            /\ UNCHANGED <<cached, payment, keyOf, reply>>
        BY <1>2, <2>1 DEF Lookup, Misses
      <3> QED BY <1>0, <3>1, <3>2 DEF TypeOK
    <2>2. CASE entry.status # "absent"
      <3>1. /\ pc' = [pc EXCEPT ![r] = "done"]
            /\ UNCHANGED <<cached, payment, keyOf>>
            /\ reply' = [reply EXCEPT ![r] = FastPath(entry, bodyOf[r])]
        BY <1>2, <2>2 DEF Lookup, Misses, Answer
      <3>2. FastPath(entry, bodyOf[r]).code # 500
        BY <1>0, RefusalsAreTyped DEF FastPath
      <3> QED BY <1>0, <3>1, <3>2 DEF TypeOK
    <2> QED BY <2>1, <2>2
  <1>3. CASE Mark(r)
    <2>1. \A k \in Keys :
             /\ cached[k].status # "absent" => cached'[k] = cached[k]
             /\ cached'[k] # cached[k] => cached'[k].status = "processing"
      BY <1>0, <1>3 DEF Mark, Processing, TypeOK
    <2>2. cached'[keyOf[r]].status # "absent"
      BY <1>0, <1>3 DEF Mark, Processing, TypeOK
    <2>3. /\ pc' = [pc EXCEPT ![r] = "record"] /\ pc[r] = "mark"
          /\ UNCHANGED <<payment, keyOf, reply>>
      BY <1>3 DEF Mark
    <2> QED BY <1>0, <2>1, <2>2, <2>3 DEF TypeOK
  <1>4. CASE Record(r)
    BY <1>0, <1>4 DEF Record, TypeOK
  <1>5. CASE InsertPayment(r)
    <2>1. /\ payment' = [payment EXCEPT ![keyOf[r]] = r]
          /\ pc' = [pc EXCEPT ![r] = "enqueue"] /\ pc[r] = "create"
          /\ UNCHANGED <<cached, keyOf, reply>>
      BY <1>5 DEF InsertPayment
    <2>2. ASSUME NEW s \in Requests, pc'[s] \in {"mark", "record", "create"}
          PROVE  s # r /\ keyOf[s] # keyOf[r] /\ pc[s] = pc'[s]
      BY <1>0, <2>1, <2>2 DEF TypeOK, Alone, Awaits, InProgress
    <2> QED BY <1>0, <2>1, <2>2 DEF TypeOK
  <1>6. CASE EnqueuePayment(r)
    <2>1. Created(r).code = 201
      BY DEF Created
    <2> QED BY <1>0, <1>6, <2>1 DEF EnqueuePayment, AnswerAndCache, TypeOK
  <1>7. CASE CacheResponse(r)
    <2>1. /\ cached' = [cached EXCEPT ![keyOf[r]] =
                           Completed(bodyOf[r], reply[r])]
          /\ pc' = [pc EXCEPT ![r] = "done"]
          /\ UNCHANGED <<payment, keyOf, reply>>
      BY <1>7 DEF CacheResponse
    <2>2. /\ Completed(bodyOf[r], reply[r]).status = "completed"
          /\ Completed(bodyOf[r], reply[r]).response.code # 500
      BY DEF Completed
    <2> QED BY <1>0, <2>1, <2>2 DEF TypeOK
  <1> QED
    BY <1>1, <1>2, <1>3, <1>4, <1>5, <1>6, <1>7 DEF Step

LEMMA PatientStep ==
    ASSUME ReplyInv, PatientInv, [Next]_vars
    PROVE  PatientInv'
  <1>0. TypeOK /\ losses \in Nat
    BY IdempotencyAssumption DEF ReplyInv, TypeOK
  <1>1. patient' = patient
    BY <1>0, GoForward DEF requestVars
  <1>2. patient => Alone'
    BY <1>0, AloneStep DEF PatientInv
  <1> SUFFICES ASSUME patient, losses' = 0
               PROVE  /\ OccupiedOnceMarked' /\ UnpaidUntilCreated'
                      /\ NoErrorIsCached'
                      /\ \A r \in Requests : reply'[r].code # 500
    BY <1>1, <1>2 DEF PatientInv
  <1>3. ~Lose
    BY <1>0 DEF Lose
  <1>4. losses = 0
    BY <1>3
    DEF Next, Refuse, Send, Step, Lookup, Mark, Record, InsertPayment,
        EnqueuePayment, CacheResponse, CallFails, Crash, Expire,
        FailInFront, vars
  <1>5. ASSUME NEW r \in Requests, Send(r) \/ Step(r)
        PROVE  /\ OccupiedOnceMarked' /\ UnpaidUntilCreated'
               /\ NoErrorIsCached'
               /\ \A s \in Requests : reply'[s].code # 500
    BY <1>4, <1>5, ServiceStep DEF PatientInv
  <1>6. ASSUME NEW r \in Requests,
               NEW code \in {ValidationError, RateLimitError},
               Refuse(r, code)
        PROVE  /\ OccupiedOnceMarked' /\ UnpaidUntilCreated'
               /\ NoErrorIsCached'
               /\ \A s \in Requests : reply'[s].code # 500
    <2>1. Refusal(code).code # 500
      BY RefusalsAreTyped
    <2> QED
      BY <1>0, <1>4, <1>6, <2>1
      DEF Refuse, Goto, requestVars, PatientInv, OccupiedOnceMarked,
          UnpaidUntilCreated, NoErrorIsCached, TypeOK
  <1>7. CASE UNCHANGED vars
    BY <1>4, <1>7
    DEF vars, requestVars, PatientInv, OccupiedOnceMarked,
        UnpaidUntilCreated, NoErrorIsCached
  <1> QED
    BY <1>3, <1>5, <1>6, <1>7
    DEF Next, CallFails, Crash, Expire, FailInFront

(* While nothing is lost, a client that waits for its reply before it      *)
(* repeats the key is never told 500.                                      *)
THEOREM PatientClients == Spec => []PatientClientsAreServed
  <1>1. Init => ReplyInv
    BY ReplyInit
  <1>2. ReplyInv /\ [Next]_vars => ReplyInv'
    BY ReplyStep
  <1>3. Init => PatientInv
    BY DEF Init, PatientInv, Alone, Awaits, InProgress, OccupiedOnceMarked,
           UnpaidUntilCreated, NoErrorIsCached, NoRecord, Nothing
  <1>4. ReplyInv /\ PatientInv /\ [Next]_vars => PatientInv'
    BY PatientStep
  <1>5. PatientInv => PatientClientsAreServed
    BY DEF PatientInv, PatientClientsAreServed
  <1> QED
    BY <1>1, <1>2, <1>3, <1>4, <1>5, PTL DEF Spec
-----------------------------------------------------------------------------
(* Every step of the route is a step of the middleware, or none of it.     *)
LEMMA RouteStep == [RouteNext]_routeVars => [Next]_vars
  <1> SUFFICES ASSUME [RouteNext]_routeVars PROVE [Next]_vars
    OBVIOUS
  <1>1. CASE UNCHANGED routeVars
    BY <1>1 DEF routeVars
  <1>2. ASSUME NEW r \in Requests, Arrive(r) \/ Limit(r)
        PROVE  UNCHANGED vars
    BY <1>2 DEF Arrive, Limit
  <1>3. ASSUME NEW r \in Requests, LimiterFailsOpen(r) PROVE Next
    BY <1>3 DEF LimiterFailsOpen, Next
  <1>4. ASSUME NEW r \in Requests, Reject(r) \/ Invalidate(r) PROVE Next
    BY <1>4 DEF Reject, Invalidate, Next
  <1>5. ASSUME NEW r \in Requests, Forward(r) \/ Handle(r) PROVE Next
    BY <1>5 DEF Forward, Handle, Next
  <1>6. ASSUME NEW k \in Keys, Expire(k) PROVE Next
    BY <1>6 DEF Next
  <1> QED
    BY <1>1, <1>2, <1>3, <1>4, <1>5, <1>6 DEF RouteNext

LEMMA RouteRefinesMiddleware == RouteSpec => Spec
  <1>1. RouteInit => Init
    BY DEF RouteInit
  <1> QED
    BY <1>1, RouteStep, PTL DEF RouteSpec, Spec

(* On the whole route of POST /payments, too, every reply has its grounds. *)
THEOREM RouteHasGrounds == RouteSpec => []RepliesHaveGrounds
  BY RouteRefinesMiddleware, GroundedReplies, PTL

(* The whole route of POST /payments implements the idempotent endpoint.   *)
THEOREM RouteIsIdempotent == RouteSpec => ImplementsEndpoint
  BY RouteRefinesMiddleware, EndpointIsIdempotent, PTL

(* On the whole route, too, a patient client is not told 500 while nothing *)
(* is lost.                                                                *)
THEOREM RouteServesPatientClients == RouteSpec => []PatientClientsAreServed
  BY RouteRefinesMiddleware, PatientClients, PTL
-----------------------------------------------------------------------------
(***************************************************************************)
(* The limiter.  A pipeline ends in the tick it begins in, and begins      *)
(* within MaxDelay of its request's stamp: so what it adds is not older    *)
(* than that, and neither an expiring set nor the pipeline of another      *)
(* request removes it before it may be forgotten.                          *)
(***************************************************************************)
PipelinesAreOnTime ==
    \A r \in Requests : at[r] \in {"zrem"} \cup Limiter!InPipeline
        => now <= stamp[r] + MaxDelay

(* What is in the set was added by a request that is through, not later    *)
(* than MaxDelay after its stamp.                                          *)
EntriesAreThrough ==
    \A r \in Requests :
        /\ r \in entries => at[r] \in {"admitted", "rejected", "open"}
        /\ at[r] = "admitted" =>
              added[r] # 0 /\ added[r] <= stamp[r] + MaxDelay

(* The requests that count against MaxRequests are still in the set.       *)
Recent == {r \in Limiter!InStep({"admitted"}) :
              added[r] + Window > now + MaxDelay}
RecentAreEntries == Recent \subseteq entries

(* A request that was counted under the limit will be admitted.            *)
Promised == Recent \cup Limiter!InStep({"zadd"})
PromisesAreBounded ==
    /\ Cardinality(Limiter!InStep(Limiter!InPipeline)) <= Processes
    /\ Cardinality(Promised) <= MaxRequests + Processes - 1

(* What a request counts is of its own window, or sent after it.           *)
CountIsOfWindow ==
    \A r \in Requests : at[r] = "zcard" =>
        \A s \in entries : stamp[s] + Window > stamp[r]

LimiterInv ==
    /\ Limiter!TypeOK /\ PipelinesAreOnTime /\ EntriesAreThrough
    /\ RecentAreEntries /\ PromisesAreBounded /\ CountIsOfWindow
    /\ RejectedForCause

LEMMA LimiterSets ==
    /\ \A S : Limiter!IsFiniteSet(S) <=> IsFiniteSet(S)
    /\ \A S : Limiter!Cardinality(S) = Cardinality(S)
  <1>1. \A S : Limiter!IsFiniteSet(S) <=> IsFiniteSet(S)
    BY DEF Limiter!IsFiniteSet, IsFiniteSet
  <1>2. \A S : Limiter!Cardinality(S) = Cardinality(S)
    BY DEF Limiter!Cardinality, Cardinality
  <1> QED BY <1>1, <1>2

LEMMA LimiterParameters ==
    /\ MaxRequests \in Nat \ {0} /\ Window \in Nat \ {0}
    /\ Processes \in Nat \ {0} /\ MaxTime \in Nat
    /\ MaxDelay \in Nat /\ MaxDelay < Window
    /\ IsFiniteSet(Requests)
  BY LimiterAssumption, LimiterSets DEF Limiter!Parameters

LEMMA LimiterStep == [RouteNext]_routeVars => [Limiter!Next]_(Limiter!vars)
  <1> SUFFICES ASSUME [RouteNext]_routeVars
               PROVE  [Limiter!Next]_(Limiter!vars)
    OBVIOUS
  <1>1. CASE UNCHANGED limiterVars
    BY <1>1 DEF limiterVars, Limiter!vars
  <1>2. ASSUME NEW r \in Requests, Arrive(r) \/ Limit(r)
                                     \/ LimiterFailsOpen(r)
        PROVE  Limiter!Next
    BY <1>2 DEF Arrive, Limit, LimiterFailsOpen, Limiter!Next
  <1>3. ASSUME NEW r \in Requests, Reject(r) \/ Invalidate(r) \/ Forward(r)
                                     \/ Handle(r)
        PROVE  UNCHANGED limiterVars
    BY <1>3 DEF Reject, Invalidate, Forward, Handle
  <1>4. CASE Limiter!Tick
    BY <1>4 DEF Limiter!Next
  <1> QED
    BY <1>1, <1>2, <1>3, <1>4 DEF RouteNext, routeVars

LEMMA LimiterTypes ==
    ASSUME Limiter!TypeOK, [Limiter!Next]_(Limiter!vars)
    PROVE  Limiter!TypeOK'
  <1>0. /\ now \in Nat /\ now # 0 /\ now <= MaxTime + 1
        /\ now \in 0..now /\ 0..now \subseteq 0..(now + 1)
    BY LimiterParameters DEF Limiter!TypeOK
  <1>a. ASSUME Limiter!Tick
        PROVE  now' = now + 1 /\ now' \in 1..MaxTime + 1
    <2>1. now <= MaxTime /\ now' = now + 1
      BY <1>a DEF Limiter!Tick
    <2> QED BY <1>0, <2>1, LimiterParameters
  <1> USE DEF Limiter!TypeOK, Limiter!Goto, Limiter!Steps,
              Limiter!InPipeline
  <1>1. CASE UNCHANGED Limiter!vars
    BY <1>1 DEF Limiter!vars
  <1>2. ASSUME NEW r \in Requests, Limiter!Arrive(r)
        PROVE  Limiter!TypeOK'
    BY <1>0, <1>2 DEF Limiter!Arrive
  <1>3. ASSUME NEW r \in Requests, Limiter!RemoveExpired(r)
        PROVE  Limiter!TypeOK'
    BY <1>3 DEF Limiter!RemoveExpired
  <1>4. ASSUME NEW r \in Requests, Limiter!Count(r)
        PROVE  Limiter!TypeOK'
    BY <1>4 DEF Limiter!Count
  <1>5. ASSUME NEW r \in Requests, Limiter!Add(r)
        PROVE  Limiter!TypeOK'
    BY <1>0, <1>5 DEF Limiter!Add
  <1>6. ASSUME NEW r \in Requests, Limiter!FailOpen(r)
        PROVE  Limiter!TypeOK'
    <2>1. CASE UNCHANGED <<entries, added>>
      BY <1>6, <2>1 DEF Limiter!FailOpen
    <2>2. CASE /\ entries' = entries \cup {r}
               /\ added' = [added EXCEPT ![r] = now]
      BY <1>0, <1>6, <2>2 DEF Limiter!FailOpen
    <2> QED BY <1>6, <2>1, <2>2 DEF Limiter!FailOpen
  <1>7. CASE Limiter!Tick
    <2>1. now' = now + 1 /\ now' \in 1..MaxTime + 1
      BY <1>7, <1>a
    <2>2. /\ stamp' \in [Requests -> 0..now']
          /\ added' \in [Requests -> 0..now']
      <3>1. 0..now \subseteq 0..now' /\ stamp' = stamp /\ added' = added
        BY <1>0, <1>7, <2>1 DEF Limiter!Tick
      <3> QED BY <3>1
    <2>3. entries' \in SUBSET Requests /\ at' = at
      BY <1>7 DEF Limiter!Tick
    <2> QED BY <2>1, <2>2, <2>3
  <1> QED
    BY <1>1, <1>2, <1>3, <1>4, <1>5, <1>6, <1>7
    DEF Limiter!Next, Limiter!Limit

(* What the type invariant says of the clock and of a request.             *)
LEMMA ClockTypes ==
    ASSUME Limiter!TypeOK
    PROVE  /\ now \in Nat /\ now # 0
           /\ \A r \in Requests : /\ stamp[r] \in Nat /\ stamp[r] <= now
                                  /\ added[r] \in Nat /\ added[r] <= now
  BY LimiterParameters DEF Limiter!TypeOK

(* Is on its way to the end of its pipeline.                               *)
Pending(r) == at[r] \in {"zrem"} \cup Limiter!InPipeline

LEMMA OnTimeStep ==
    ASSUME LimiterInv, [Limiter!Next]_(Limiter!vars)
    PROVE  PipelinesAreOnTime'
  <1>0. Limiter!TypeOK /\ PipelinesAreOnTime
    BY DEF LimiterInv
  <1> SUFFICES ASSUME NEW s \in Requests, Pending(s)'
               PROVE  now' <= stamp'[s] + MaxDelay
    BY DEF PipelinesAreOnTime, Pending
  <1>1. CASE UNCHANGED Limiter!vars
    BY <1>0, <1>1 DEF Limiter!vars, PipelinesAreOnTime, Pending
  <1>2. ASSUME NEW r \in Requests, Limiter!Arrive(r)
        PROVE  now' <= stamp'[s] + MaxDelay
    <2>1. CASE s = r
      <3>1. stamp'[s] = now /\ now' = now
        BY <1>0, <1>2, <2>1 DEF Limiter!Arrive, Limiter!TypeOK
      <3> QED BY <1>0, <3>1, ClockTypes, LimiterParameters
    <2>2. CASE s # r
      BY <1>0, <1>2, <2>2
      DEF Limiter!Arrive, Limiter!Goto, Limiter!TypeOK, Pending,
          PipelinesAreOnTime
    <2> QED BY <2>1, <2>2
  <1>3. ASSUME NEW r \in Requests, Limiter!Limit(r) \/ Limiter!FailOpen(r)
        PROVE  now' <= stamp'[s] + MaxDelay
    <2>1. Pending(s) /\ stamp' = stamp /\ now' = now
      BY <1>0, <1>3
      DEF Limiter!Limit, Limiter!RemoveExpired, Limiter!Count, Limiter!Add,
          Limiter!FailOpen, Limiter!Goto, Limiter!TypeOK,
          Limiter!InPipeline, Pending
    <2> QED BY <1>0, <2>1 DEF PipelinesAreOnTime, Pending
  <1>4. CASE Limiter!Tick
    <2>1. /\ now' = now + 1 /\ at' = at /\ stamp' = stamp
          /\ at[s] \notin Limiter!InPipeline
      BY <1>4 DEF Limiter!Tick, Limiter!InStep
    <2>2. now < stamp[s] + MaxDelay
      BY <1>4, <2>1 DEF Limiter!Tick, Limiter!InStep, Pending
    <2> QED BY <1>0, <2>1, <2>2, ClockTypes, LimiterParameters
  <1> QED
    BY <1>1, <1>2, <1>3, <1>4 DEF Limiter!Next

LEMMA ThroughStep ==
    ASSUME LimiterInv, [Limiter!Next]_(Limiter!vars)
    PROVE  EntriesAreThrough'
  <1> USE LimiterParameters
      DEF LimiterInv, EntriesAreThrough, Limiter!TypeOK, Limiter!Goto
  <1>1. CASE UNCHANGED Limiter!vars
    BY <1>1 DEF Limiter!vars
  <1>2. ASSUME NEW r \in Requests, Limiter!Arrive(r)
        PROVE  EntriesAreThrough'
    BY <1>2 DEF Limiter!Arrive
  <1>3. ASSUME NEW r \in Requests, Limiter!RemoveExpired(r)
        PROVE  EntriesAreThrough'
    BY <1>3 DEF Limiter!RemoveExpired
  <1>4. ASSUME NEW r \in Requests, Limiter!Count(r)
        PROVE  EntriesAreThrough'
    BY <1>4 DEF Limiter!Count
  <1>5. ASSUME NEW r \in Requests, Limiter!Add(r)
        PROVE  EntriesAreThrough'
    <2>1. now # 0 /\ now <= stamp[r] + MaxDelay
      BY <1>5, ClockTypes
      DEF Limiter!Add, PipelinesAreOnTime, Limiter!InPipeline
    <2> QED BY <1>5, <2>1 DEF Limiter!Add
  <1>6. ASSUME NEW r \in Requests, Limiter!FailOpen(r)
        PROVE  EntriesAreThrough'
    BY <1>6 DEF Limiter!FailOpen
  <1>7. CASE Limiter!Tick
    BY <1>7 DEF Limiter!Tick
  <1> QED
    BY <1>1, <1>2, <1>3, <1>4, <1>5, <1>6, <1>7
    DEF Limiter!Next, Limiter!Limit

(* An entry that another pipeline removes, or that is gone with the set,   *)
(* is not recent.                                                          *)
LEMMA RecentStep ==
    ASSUME LimiterInv, [Limiter!Next]_(Limiter!vars)
    PROVE  RecentAreEntries'
  <1> USE LimiterParameters
      DEF LimiterInv, RecentAreEntries, Recent, Limiter!InStep,
          Limiter!TypeOK, Limiter!Goto
  <1>1. CASE UNCHANGED Limiter!vars
    BY <1>1 DEF Limiter!vars
  <1>2. ASSUME NEW r \in Requests, Limiter!Arrive(r)
        PROVE  RecentAreEntries'
    BY <1>2 DEF Limiter!Arrive
  <1>3. ASSUME NEW r \in Requests, Limiter!RemoveExpired(r)
        PROVE  RecentAreEntries'
    <2>1. ASSUME NEW e \in Recent PROVE ~Limiter!HasLeft(e, r)
      BY <2>1, <1>3 DEF Limiter!HasLeft, EntriesAreThrough
    <2> QED BY <1>3, <2>1 DEF Limiter!RemoveExpired
  <1>4. ASSUME NEW r \in Requests, Limiter!Count(r)
        PROVE  RecentAreEntries'
    BY <1>4 DEF Limiter!Count
  <1>5. ASSUME NEW r \in Requests, Limiter!Add(r)
        PROVE  RecentAreEntries'
    BY <1>5 DEF Limiter!Add
  <1>6. ASSUME NEW r \in Requests, Limiter!FailOpen(r)
        PROVE  RecentAreEntries'
    BY <1>6 DEF Limiter!FailOpen
  <1>7. CASE Limiter!Tick
    <2>1. ASSUME NEW e \in Recent' PROVE e \in Recent /\ e \in entries'
      <3>1. /\ e \in Requests /\ at[e] = "admitted" /\ at' = at
            /\ added[e] + Window > now + 1 + MaxDelay
        BY <1>7, <2>1 DEF Limiter!Tick
      <3>2. Limiter!SetOutlives(now + 1)
        BY <3>1 DEF Limiter!SetOutlives, EntriesAreThrough
      <3> QED BY <1>7, <3>1, <3>2 DEF Limiter!Tick
    <2> QED BY <2>1
  <1> QED
    BY <1>1, <1>2, <1>3, <1>4, <1>5, <1>6, <1>7
    DEF Limiter!Next, Limiter!Limit

(* Cardinalities are those of sets of requests.                            *)
LEMMA FewerRequests ==
    ASSUME NEW S \in SUBSET Requests, NEW T \in SUBSET S
    PROVE  /\ Cardinality(S) \in Nat /\ Cardinality(T) \in Nat
           /\ Cardinality(T) <= Cardinality(S)
  <1>1. IsFiniteSet(S)
    BY LimiterParameters, FS_Subset
  <1> QED BY <1>1, FS_Subset, FS_CardinalityType

(* Only the beginning of a pipeline adds to the pipelines.                 *)
LEMMA PipelinesStep ==
    ASSUME LimiterInv, [Limiter!Next]_(Limiter!vars)
    PROVE  Cardinality(Limiter!InStep(Limiter!InPipeline)') <= Processes
  <1> DEFINE P == Limiter!InStep(Limiter!InPipeline)
  <1>0. /\ Limiter!TypeOK /\ P \in SUBSET Requests
        /\ P' \in SUBSET Requests /\ Cardinality(P) <= Processes
    BY DEF LimiterInv, PromisesAreBounded, Limiter!InStep
  <1>1. ASSUME NEW r \in Requests, Limiter!RemoveExpired(r)
        PROVE  Cardinality(P') <= Processes
    <2>1. P' \subseteq P \cup {r} /\ Cardinality(P) < Processes
      BY <1>0, <1>1, LimiterSets
      DEF Limiter!RemoveExpired, Limiter!InStep, Limiter!Goto,
          Limiter!TypeOK
    <2>2. /\ IsFiniteSet(P) /\ Cardinality(P) \in Nat
          /\ P \cup {r} \in SUBSET Requests
      BY <1>0, LimiterParameters, FS_Subset, FS_CardinalityType
    <2>3. Cardinality(P \cup {r}) <= Cardinality(P) + 1
      <3>1. Cardinality(P \cup {r})
              = IF r \in P THEN Cardinality(P) ELSE Cardinality(P) + 1
        BY <2>2, FS_AddElement
      <3> QED BY <2>2, <3>1
    <2>4. /\ Cardinality(P') \in Nat /\ Cardinality(P \cup {r}) \in Nat
          /\ Cardinality(P') <= Cardinality(P \cup {r})
      BY <2>1, <2>2, FewerRequests
    <2> QED BY <2>1, <2>2, <2>3, <2>4, LimiterParameters
  <1>2. CASE P' \subseteq P
    <2>1. /\ Cardinality(P') \in Nat /\ Cardinality(P) \in Nat
          /\ Cardinality(P') <= Cardinality(P)
      BY <1>0, <1>2, FewerRequests
    <2> QED BY <1>0, <2>1, LimiterParameters
  <1>3. ASSUME NEW r \in Requests,
               \/ Limiter!Arrive(r) \/ Limiter!Count(r)
               \/ Limiter!Add(r) \/ Limiter!FailOpen(r)
        PROVE  P' \subseteq P
    BY <1>0, <1>3
    DEF Limiter!Arrive, Limiter!Count, Limiter!Add, Limiter!FailOpen,
        Limiter!InStep, Limiter!InPipeline, Limiter!Goto, Limiter!TypeOK
  <1>4. CASE Limiter!Tick \/ UNCHANGED Limiter!vars
    BY <1>2, <1>4 DEF Limiter!Tick, Limiter!vars, Limiter!InStep
  <1> QED
    BY <1>1, <1>2, <1>3, <1>4 DEF Limiter!Next, Limiter!Limit

(* A request that counts under the limit finds all recent ones in the set; *)
(* besides them, only those are promised that count at the same time.      *)
LEMMA PromisesStep ==
    ASSUME LimiterInv, [Limiter!Next]_(Limiter!vars)
    PROVE  Cardinality(Promised') <= MaxRequests + Processes - 1
  <1> DEFINE P == Limiter!InStep(Limiter!InPipeline)
  <1>0. /\ Limiter!TypeOK /\ Promised \in SUBSET Requests
        /\ Promised' \in SUBSET Requests
        /\ Cardinality(Promised) <= MaxRequests + Processes - 1
    BY DEF LimiterInv, PromisesAreBounded, Limiter!InStep, Promised, Recent
  <1>1. CASE Promised' \subseteq Promised
    <2>1. /\ Cardinality(Promised') \in Nat
          /\ Cardinality(Promised) \in Nat
          /\ Cardinality(Promised') <= Cardinality(Promised)
      BY <1>0, <1>1, FewerRequests
    <2> QED BY <1>0, <2>1, LimiterParameters
  <1>2. ASSUME NEW r \in Requests, Limiter!Arrive(r)
        PROVE  Promised' \subseteq Promised
    BY <1>0, <1>2
    DEF Limiter!Arrive, Limiter!InStep, Limiter!Goto, Limiter!TypeOK,
        Promised, Recent
  <1>3. ASSUME NEW r \in Requests, Limiter!RemoveExpired(r)
        PROVE  Promised' \subseteq Promised
    BY <1>0, <1>3
    DEF Limiter!RemoveExpired, Limiter!InStep, Limiter!Goto,
        Limiter!TypeOK, Promised, Recent
  <1>4. ASSUME NEW r \in Requests, Limiter!Count(r)
        PROVE  Cardinality(Promised') <= MaxRequests + Processes - 1
    <2>1. CASE Limiter!IsOver(Limiter!Cardinality(entries))
      <3>1. Promised' \subseteq Promised
        BY <1>0, <1>4, <2>1
        DEF Limiter!Count, Limiter!InStep, Limiter!Goto, Limiter!TypeOK,
            Promised, Recent
      <3> QED BY <1>1, <3>1
    <2>2. CASE ~Limiter!IsOver(Limiter!Cardinality(entries))
      <3>1. Promised' \subseteq entries \cup P' /\ P' \in SUBSET Requests
        BY <1>0, <1>4
        DEF Limiter!Count, Limiter!InStep, Limiter!InPipeline,
            Limiter!Goto, Limiter!TypeOK, Promised, Recent, LimiterInv,
            RecentAreEntries
      <3>2. ~(Cardinality(entries) >= MaxRequests)
        <4>1. Limiter!Cardinality(entries) = Cardinality(entries)
          BY LimiterSets
        <4> QED BY <2>2, <4>1 DEF Limiter!IsOver
      <3>3. entries \in SUBSET Requests
        BY <1>0 DEF Limiter!TypeOK
      <3>4. Cardinality(P') <= Processes
        BY PipelinesStep
      <3>5. /\ IsFiniteSet(entries) /\ IsFiniteSet(P')
            /\ Cardinality(entries) \in Nat /\ Cardinality(P') \in Nat
            /\ Cardinality(entries \cap P') \in Nat
        BY <3>1, <3>3, LimiterParameters, FS_Subset, FS_CardinalityType,
           FewerRequests
      <3>6. Cardinality(entries \cup P')
              = Cardinality(entries) + Cardinality(P')
                  - Cardinality(entries \cap P')
        BY <3>5, FS_Union
      <3>7. /\ Cardinality(Promised') \in Nat
            /\ Cardinality(Promised') <= Cardinality(entries \cup P')
        BY <3>1, <3>3, FewerRequests
      <3> QED BY <3>2, <3>4, <3>5, <3>6, <3>7, LimiterParameters
    <2> QED BY <2>1, <2>2
  <1>5. ASSUME NEW r \in Requests, Limiter!Add(r)
        PROVE  Promised' \subseteq Promised
    BY <1>0, <1>5
    DEF Limiter!Add, Limiter!InStep, Limiter!Goto, Limiter!TypeOK,
        Promised, Recent
  <1>6. ASSUME NEW r \in Requests, Limiter!FailOpen(r)
        PROVE  Promised' \subseteq Promised
    BY <1>0, <1>6
    DEF Limiter!FailOpen, Limiter!InStep, Limiter!Goto, Limiter!TypeOK,
        Promised, Recent
  <1>7. CASE Limiter!Tick
    <2>1. /\ at' = at /\ added' = added /\ now' = now + 1
      BY <1>7 DEF Limiter!Tick
    <2>2. ASSUME NEW r \in Recent' PROVE r \in Recent
      BY <1>0, <2>1, <2>2, ClockTypes, LimiterParameters
      DEF Recent, Limiter!InStep
    <2> QED BY <1>1, <2>1, <2>2 DEF Promised, Limiter!InStep
  <1>8. CASE UNCHANGED Limiter!vars
    BY <1>1, <1>8 DEF Limiter!vars, Promised, Recent, Limiter!InStep
  <1> QED
    BY <1>1, <1>2, <1>3, <1>4, <1>5, <1>6, <1>7, <1>8
    DEF Limiter!Next, Limiter!Limit

(* Between the removal and the count of a request the set gains only what  *)
(* was stamped less than a window before it.                               *)
LEMMA WindowStep ==
    ASSUME LimiterInv, [Limiter!Next]_(Limiter!vars)
    PROVE  CountIsOfWindow'
  <1>0. /\ Limiter!TypeOK /\ CountIsOfWindow /\ PipelinesAreOnTime
        /\ EntriesAreThrough
    BY DEF LimiterInv
  <1> SUFFICES ASSUME NEW s \in Requests, at'[s] = "zcard",
                      NEW e \in entries'
               PROVE  stamp'[e] + Window > stamp'[s]
    BY DEF CountIsOfWindow
  <1>1. ASSUME at[s] = "zcard", stamp' = stamp, e \in entries
        PROVE  stamp'[e] + Window > stamp'[s]
    BY <1>0, <1>1 DEF CountIsOfWindow
  <1>2. ASSUME NEW r \in Requests, Limiter!Arrive(r)
        PROVE  stamp'[e] + Window > stamp'[s]
    <2>1. r # s /\ at[s] = "zcard" /\ stamp'[s] = stamp[s]
      BY <1>0, <1>2 DEF Limiter!Arrive, Limiter!Goto, Limiter!TypeOK
    <2>2. e \in Requests /\ e \in entries /\ e # r
      BY <1>0, <1>2 DEF Limiter!Arrive, EntriesAreThrough, Limiter!TypeOK
    <2>3. stamp'[e] = stamp[e]
      BY <1>0, <1>2, <2>2 DEF Limiter!Arrive, Limiter!TypeOK
    <2> QED BY <1>0, <2>1, <2>2, <2>3 DEF CountIsOfWindow
  <1>3. ASSUME NEW r \in Requests, Limiter!RemoveExpired(r)
        PROVE  stamp'[e] + Window > stamp'[s]
    <2>1. /\ e \in entries /\ ~Limiter!HasLeft(e, r) /\ stamp' = stamp
          /\ e \in Requests
      BY <1>0, <1>3 DEF Limiter!RemoveExpired, Limiter!TypeOK
    <2>2. CASE s = r
      BY <1>0, <2>1, <2>2, ClockTypes, LimiterParameters
      DEF Limiter!HasLeft
    <2>3. CASE s # r
      <3>1. at[s] = "zcard"
        BY <1>0, <1>3, <2>3
        DEF Limiter!RemoveExpired, Limiter!Goto, Limiter!TypeOK
      <3> QED BY <1>1, <2>1, <3>1
    <2> QED BY <2>2, <2>3
  <1>4. ASSUME NEW r \in Requests,
               Limiter!Count(r) \/ Limiter!Add(r) \/ Limiter!FailOpen(r)
        PROVE  stamp'[e] + Window > stamp'[s]
    <2>1. at[s] = "zcard" /\ stamp' = stamp /\ Pending(r)
      BY <1>0, <1>4
      DEF Limiter!Count, Limiter!Add, Limiter!FailOpen, Limiter!Goto,
          Limiter!TypeOK, Limiter!InPipeline, Pending
    <2>2. e \in entries \/ e = r
      BY <1>4 DEF Limiter!Count, Limiter!Add, Limiter!FailOpen
    <2>3. CASE e = r
      <3>1. now <= stamp[r] + MaxDelay
        BY <1>0, <2>1 DEF PipelinesAreOnTime, Pending
      <3>2. stamp[s] <= now /\ {stamp[s], stamp[r], now} \subseteq Nat
        BY <1>0, ClockTypes
      <3> QED BY <2>1, <2>3, <3>1, <3>2, LimiterParameters
    <2> QED BY <1>1, <2>1, <2>2, <2>3
  <1>5. CASE Limiter!Tick
    BY <1>1, <1>5 DEF Limiter!Tick
  <1>6. CASE UNCHANGED Limiter!vars
    BY <1>1, <1>6 DEF Limiter!vars
  <1> QED
    BY <1>2, <1>3, <1>4, <1>5, <1>6 DEF Limiter!Next, Limiter!Limit

(* The requests because of which r may be rejected.                        *)
Causes(r) == {s \in Requests \ {r} : /\ at[s] # "arrive"
                                     /\ stamp[s] + Window > stamp[r]}

LEMMA AtLeast ==
    \A m, n \in Nat : m >= MaxRequests /\ m <= n => n >= MaxRequests
  BY LimiterParameters

LEMMA CauseStep ==
    ASSUME LimiterInv, [Limiter!Next]_(Limiter!vars)
    PROVE  RejectedForCause'
  <1>0. /\ Limiter!TypeOK /\ CountIsOfWindow /\ EntriesAreThrough
        /\ Limiter!TypeOK'
    BY LimiterTypes DEF LimiterInv
  <1>a. \A r \in Requests : at[r] \in {"zadd over", "rejected"} =>
              Cardinality(Causes(r)) >= MaxRequests
    BY LimiterSets
    DEF LimiterInv, RejectedForCause, Limiter!RejectedForCause, Causes,
        Limiter!InStep
  <1> SUFFICES ASSUME NEW r \in Requests,
                      at'[r] \in {"zadd over", "rejected"}
               PROVE  Cardinality(Causes(r)') >= MaxRequests
    BY LimiterSets
    DEF RejectedForCause, Limiter!RejectedForCause, Causes, Limiter!InStep
  <1>1. Causes(r) \in SUBSET Requests /\ Causes(r)' \in SUBSET Requests
    BY DEF Causes
  <1>2. ASSUME at[r] # "arrive"
        PROVE  Causes(r) \subseteq Causes(r)'
    <2>1. ASSUME NEW s \in Requests, at[s] # "arrive"
          PROVE  at'[s] # "arrive" /\ stamp'[s] = stamp[s]
      BY <1>0, <2>1
      DEF Limiter!Next, Limiter!Limit, Limiter!Arrive,
          Limiter!RemoveExpired, Limiter!Count, Limiter!Add,
          Limiter!FailOpen, Limiter!Tick, Limiter!vars, Limiter!Goto,
          Limiter!TypeOK
    <2> QED BY <1>2, <2>1 DEF Causes
  <1>3. CASE at[r] \in {"zadd over", "rejected"}
    <2>1. Cardinality(Causes(r)) >= MaxRequests
      BY <1>3, <1>a
    <2>2. Causes(r) \subseteq Causes(r)'
      BY <1>2, <1>3
    <2>3. /\ Cardinality(Causes(r)) \in Nat
          /\ Cardinality(Causes(r)') \in Nat
          /\ Cardinality(Causes(r)) <= Cardinality(Causes(r)')
      BY <1>1, <2>2, FewerRequests
    <2> QED BY <2>1, <2>3, AtLeast
  <1>4. CASE at[r] \notin {"zadd over", "rejected"}
    <2>1. Limiter!Count(r)
      BY <1>0, <1>4
      DEF Limiter!Next, Limiter!Limit, Limiter!Arrive,
          Limiter!RemoveExpired, Limiter!Add, Limiter!FailOpen,
          Limiter!Tick, Limiter!vars, Limiter!Goto, Limiter!TypeOK,
          Limiter!Count
    <2>2. at[r] = "zcard" /\ Limiter!IsOver(Limiter!Cardinality(entries))
      BY <1>0, <2>1 DEF Limiter!Count, Limiter!Goto, Limiter!TypeOK
    <2>3. Cardinality(entries) >= MaxRequests
      <3>1. Limiter!Cardinality(entries) = Cardinality(entries)
        BY LimiterSets
      <3> QED BY <2>2, <3>1 DEF Limiter!IsOver
    <2>4. entries \subseteq Causes(r)
      BY <1>0, <2>2
      DEF CountIsOfWindow, EntriesAreThrough, Causes, Limiter!TypeOK
    <2>5. entries \subseteq Causes(r)'
      BY <1>2, <2>2, <2>4
    <2>6. /\ Cardinality(entries) \in Nat
          /\ Cardinality(Causes(r)') \in Nat
          /\ Cardinality(entries) <= Cardinality(Causes(r)')
      BY <1>1, <2>5, FewerRequests
    <2> QED BY <2>3, <2>6, AtLeast
  <1> QED BY <1>3, <1>4

LEMMA LimiterInvariant == RouteSpec => []LimiterInv
  <1>1. RouteInit => LimiterInv
    <2> SUFFICES ASSUME Limiter!Init PROVE LimiterInv
      BY DEF RouteInit
    <2>1. /\ now = 1 /\ entries = {}
          /\ \A r \in Requests : at[r] = "arrive"
      BY DEF Limiter!Init
    <2>2. Limiter!TypeOK
      <3>1. 1 \in 1..MaxTime + 1 /\ 0 \in 0..1
        BY LimiterParameters
      <3> QED BY <3>1 DEF Limiter!Init, Limiter!TypeOK, Limiter!Steps
    <2>3. /\ Limiter!InStep(Limiter!InPipeline) = {}
          /\ Promised = {} /\ Recent = {}
      BY <2>1 DEF Limiter!InStep, Limiter!InPipeline, Promised, Recent
    <2>4. PromisesAreBounded
      BY <2>3, FS_EmptySet, LimiterParameters DEF PromisesAreBounded
    <2> QED
      BY <2>1, <2>2, <2>3, <2>4
      DEF LimiterInv, PipelinesAreOnTime, EntriesAreThrough,
          RecentAreEntries, CountIsOfWindow, RejectedForCause,
          Limiter!RejectedForCause, Limiter!InStep, Limiter!InPipeline
  <1>2. LimiterInv /\ [RouteNext]_routeVars => LimiterInv'
    BY LimiterStep, LimiterTypes, OnTimeStep, ThroughStep, RecentStep,
       PipelinesStep, PromisesStep, WindowStep, CauseStep
    DEF LimiterInv, PromisesAreBounded
  <1> QED BY <1>1, <1>2, PTL DEF RouteSpec

(* However the pipelines of the processes interleave, in a time that is    *)
(* shorter than the window by the delay the limiter lets at most           *)
(* MaxRequests requests through, and one more for every other process.     *)
THEOREM LimiterOverrun == RouteSpec => []OverrunIsBounded
  <1>1. LimiterInv => OverrunIsBounded
    <2> SUFFICES ASSUME LimiterInv PROVE OverrunIsBounded
      OBVIOUS
    <2>1. Recent \subseteq Promised /\ Promised \in SUBSET Requests
      BY DEF Promised, Recent, Limiter!InStep
    <2>2. /\ Cardinality(Promised) \in Nat /\ Cardinality(Recent) \in Nat
          /\ Cardinality(Recent) <= Cardinality(Promised)
      BY <2>1, FewerRequests
    <2>3. Cardinality(Recent) <= MaxRequests + Processes - 1
      BY <2>2, LimiterParameters DEF LimiterInv, PromisesAreBounded
    <2>4. Limiter!Cardinality(Recent) = Cardinality(Recent)
      BY LimiterSets
    <2> QED
      BY <2>3, <2>4
      DEF OverrunIsBounded, Limiter!OverrunIsBounded, Recent
  <1> QED BY <1>1, LimiterInvariant, PTL

(* No client is told 429 but for MaxRequests other requests of its own, in *)
(* the window before the rejected one or sent while it was on its way.     *)
THEOREM LimiterHasCause == RouteSpec => []RejectedForCause
  <1>1. LimiterInv => RejectedForCause
    BY DEF LimiterInv
  <1> QED BY <1>1, LimiterInvariant, PTL

(* The variables of the route keep their types: in particular, no stamp is *)
(* ahead of the clock, and the refusals of every middleware are codes that *)
(* utils/errors.ts knows.                                                  *)
THEOREM RouteTypes == RouteSpec => []RouteTypeOK
  <1>1. RouteInit => Init
    BY DEF RouteInit
  <1>2. ReplyInv /\ LimiterInv => RouteTypeOK
    BY DEF ReplyInv, LimiterInv, RouteTypeOK
  <1> QED
    BY <1>1, <1>2, ReplyInit, ReplyStep, RouteStep, LimiterInvariant, PTL
    DEF RouteSpec
=============================================================================
