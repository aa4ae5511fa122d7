--------------------------- MODULE PaymentStates ---------------------------
(***************************************************************************)
(* The status machine and the gateway error codes of utils/constants.ts,   *)
(* with the two predicates utils/helpers.ts defines over them.             *)
(***************************************************************************)

None == "none"     \* null in the code: no error code, no lock token, no owner

PaymentStatus == {"CREATED", "PENDING", "PROCESSING", "SUCCESS", "FAILED",
                  "RETRY_SCHEDULED", "PERMANENTLY_FAILED", "CANCELLED"}

TerminalStates == {"SUCCESS", "PERMANENTLY_FAILED", "CANCELLED"}

ValidTransitions ==
    ({"CREATED"} \X {"PENDING", "CANCELLED"})
        \cup ({"PENDING"} \X {"PROCESSING", "CANCELLED"})
        \cup ({"PROCESSING"} \X {"SUCCESS", "FAILED"})
        \cup ({"FAILED"} \X {"RETRY_SCHEDULED", "PERMANENTLY_FAILED"})
        \cup {<<"RETRY_SCHEDULED", "PENDING">>}

IsValidStateTransition(from, to) == <<from, to>> \in ValidTransitions

NonRetryableErrors == {"INSUFFICIENT_FUNDS", "CARD_EXPIRED", "FRAUD_DETECTED"}
RetryableErrors == {"GATEWAY_TIMEOUT", "NETWORK_ERROR", "INTERNAL_ERROR"}
GatewayErrorCode == NonRetryableErrors \cup RetryableErrors

IsRetryableError(code) == code \in RetryableErrors
=============================================================================
