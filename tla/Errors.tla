-------------------------------- MODULE Errors --------------------------------
(***************************************************************************)
(* How a failure becomes the error a program sees.  A failure is a record:   *)
(*   "connect"   an error of the Connect library with a status and the       *)
(*               server's error-code and x-retryable headers                 *)
(*   "own"       an imessage.Error, also one that a Connect error wraps       *)
(*   "context"   a context error that no Connect error wraps                 *)
(*   "plain"     anything else (a store's error, a subscription's sentinel)   *)
(***************************************************************************)
EXTENDS FiniteSets

Statuses == {"canceled", "unknown", "invalid_argument", "deadline_exceeded",
             "not_found", "already_exists", "permission_denied",
             "resource_exhausted", "failed_precondition", "aborted",
             "out_of_range", "unimplemented", "internal", "unavailable",
             "data_loss", "unauthenticated"}

None == ""      \* no code

Error(code, status, retryable) ==
    [kind |-> "own", code |-> code, status |-> status, retryable |-> retryable]

-----------------------------------------------------------------------------
ClassOf(status) ==
    CASE status \in {"unauthenticated", "permission_denied"} -> "authentication"
      [] status = "not_found" -> "notFound"
      [] status = "resource_exhausted" -> "rateLimited"
      [] status \in {"invalid_argument", "failed_precondition"} -> "validation"
      [] status \in {"unavailable", "deadline_exceeded", "canceled"} -> "connection"
      [] OTHER -> "internal"

\* Error.Is: by code if the target has one, else by class.
Is(error, target) ==
    IF target.code # None THEN error.code = target.code
    ELSE ClassOf(error.status) = ClassOf(target.status)

Sentinels ==
    {Error(None, status, FALSE) :
        status \in {"unauthenticated", "not_found", "resource_exhausted",
                    "invalid_argument", "unavailable"}}

\* IsAuthentication, IsNotFound and the others: the classes a failure matches.
Categories(failure) ==
    {ClassOf(s.status) : s \in {t \in Sentinels : failure.kind = "own" /\ Is(failure, t)}}

IsRetryable(failure) == failure.kind = "own" /\ failure.retryable

DefaultCodeFor(status) ==
    CASE status = "unauthenticated" -> "unauthenticated"
      [] status = "permission_denied" -> "unauthorized"
      [] status \in {"not_found", "resource_exhausted"} -> None
      [] status = "invalid_argument" -> "invalidArgument"
      [] status = "failed_precondition" -> "preconditionFailed"
      [] status = "unimplemented" -> "operationNotSupported"
      [] status = "unavailable" -> "serviceUnavailable"
      [] status = "deadline_exceeded" -> "timeout"
      [] OTHER -> "internalError"

AsError_RawContext(failure) ==
    CASE failure.kind = "connect" ->
            Error(IF failure.header # None THEN failure.header
                  ELSE DefaultCodeFor(failure.status), failure.status, failure.retryable)
      [] OTHER -> failure

AsError(failure) ==
    CASE failure.kind = "connect" ->
            Error(IF failure.header # None THEN failure.header
                  ELSE DefaultCodeFor(failure.status), failure.status, failure.retryable)
      [] failure.kind = "context" /\ failure.reason = "deadline_exceeded" ->
            Error("timeout", "deadline_exceeded", FALSE)
      [] failure.kind = "context" /\ failure.reason = "canceled" ->
            Error("networkError", "canceled", FALSE)
      [] OTHER -> failure

\* The errors the package makes itself: New and setReaction.
InvalidArgument == Error("invalidArgument", "invalid_argument", FALSE)

=============================================================================
