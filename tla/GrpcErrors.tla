---- MODULE GrpcErrors ----
(***************************************************************************)
(* map_grpc_error and the parsing of rich error details                    *)
(* (remote/transport/grpc.py): which exception of the library a failed     *)
(* gRPC attempt becomes, and whether the retry loop may try again.         *)
(*                                                                         *)
(* Delays are counted in parts of a second; a second has PartsPerSecond    *)
(* of them (10^9 nanoseconds in the code).                                 *)
(***************************************************************************)
EXTENDS Integers, SequencesExt

CONSTANTS
    None,
    PartsPerSecond,     \* 1_000_000_000 in the code
    MaxErrorDetails,    \* _MAX_ERROR_DETAILS
    MaxRetryAfter       \* RetryPolicy.max_retry_after_seconds, in parts

ASSUME BoundsAssumption ==
    /\ PartsPerSecond \in Nat \ {0}
    /\ MaxErrorDetails \in Nat
    /\ MaxRetryAfter \in Nat

----
(* Names: the status codes of a failed RPC, and RuntimeErrorReason *)

Codes ==
    {"CANCELLED", "UNKNOWN", "INVALID_ARGUMENT", "DEADLINE_EXCEEDED",
     "NOT_FOUND", "ALREADY_EXISTS", "PERMISSION_DENIED", "RESOURCE_EXHAUSTED",
     "FAILED_PRECONDITION", "ABORTED", "OUT_OF_RANGE", "UNIMPLEMENTED",
     "INTERNAL", "UNAVAILABLE", "DATA_LOSS", "UNAUTHENTICATED"}

LimitReasons ==
    {"SUBJECT_ACTIVE_TASK_LIMIT_REACHED", "RUN_ACTIVE_TASK_LIMIT_REACHED",
     "PROCESS_ACTIVE_TASK_LIMIT_REACHED", "SUBJECT_ACTIVE_RUN_LIMIT_REACHED",
     "PROCESS_ACTIVE_RUN_LIMIT_REACHED",
     "PROCESS_IN_FLIGHT_OPERATION_LIMIT_REACHED",
     "SUBJECT_IN_FLIGHT_OPERATION_LIMIT_REACHED",
     "PROCESS_IDEMPOTENCY_ENTRY_LIMIT_REACHED",
     "SUBJECT_IDEMPOTENCY_ENTRY_LIMIT_REACHED",
     "PROCESS_CLOSE_IN_FLIGHT_OPERATION_LIMIT_REACHED",
     "SUBJECT_CLOSE_IN_FLIGHT_OPERATION_LIMIT_REACHED",
     "PROCESS_CLOSE_IDEMPOTENCY_ENTRY_LIMIT_REACHED",
     "SUBJECT_CLOSE_IDEMPOTENCY_ENTRY_LIMIT_REACHED",
     "SUBJECT_RUN_START_RATE_LIMIT_REACHED"}

RuntimeReasons ==
    LimitReasons \cup
    {"RUN_NOT_FOUND", "TASK_NOT_FOUND", "IDEMPOTENCY_CONFLICT", "RATE_LIMITED",
     "RUNTIME_SESSION_LOST", "RUN_CLOSED", "TASK_ALREADY_FINISHED",
     "INVALID_DYNAMIC_VALUE", "INCOMPATIBLE_PROTOCOL", "RUNTIME_UNAVAILABLE",
     "INTERNAL_RUNTIME_ERROR", "COMPETITION_ARENA_CLOSED"}

\* An error as a service in between may send it, with a reason of its own.
AnyReason == RuntimeReasons \cup {"OTHER", None}

\* The reasons of an exhausted resource that the code knows.
RateLimitReasons == {"RATE_LIMITED", "SUBJECT_RUN_START_RATE_LIMIT_REACHED"}

RunCapacityReasons ==
    {"SUBJECT_ACTIVE_RUN_LIMIT_REACHED", "PROCESS_ACTIVE_RUN_LIMIT_REACHED"}

TaskCapacityReasons ==
    {"SUBJECT_ACTIVE_TASK_LIMIT_REACHED", "RUN_ACTIVE_TASK_LIMIT_REACHED",
     "PROCESS_ACTIVE_TASK_LIMIT_REACHED"}

\* Mutant of OperationCapacityReasons: the limits on closing are forgotten.
OpenOperationReasons ==
    {"PROCESS_IN_FLIGHT_OPERATION_LIMIT_REACHED",
     "SUBJECT_IN_FLIGHT_OPERATION_LIMIT_REACHED"}

OperationCapacityReasons ==
    {"PROCESS_IN_FLIGHT_OPERATION_LIMIT_REACHED",
     "SUBJECT_IN_FLIGHT_OPERATION_LIMIT_REACHED",
     "PROCESS_CLOSE_IN_FLIGHT_OPERATION_LIMIT_REACHED",
     "SUBJECT_CLOSE_IN_FLIGHT_OPERATION_LIMIT_REACHED"}

IdempotencyCapacityReasons ==
    {"PROCESS_IDEMPOTENCY_ENTRY_LIMIT_REACHED",
     "SUBJECT_IDEMPOTENCY_ENTRY_LIMIT_REACHED",
     "PROCESS_CLOSE_IDEMPOTENCY_ENTRY_LIMIT_REACHED",
     "SUBJECT_CLOSE_IDEMPOTENCY_ENTRY_LIMIT_REACHED"}

----
(* The details of a status *)

Durations == [seconds : Int, nanos : Int]

\* A detail is an ErrorInfo, usable if it unpacks to a reason of legal length; a
\* RetryInfo, usable if it unpacks, with or without a delay; or of a kind without
\* influence on the mapping, for which RequestInfo stands.
StatusDetails ==
    [kind : {"ErrorInfo"}, usable : BOOLEAN, reason : AnyReason \ {None}]
    \cup [kind : {"RetryInfo"}, usable : BOOLEAN, delay : Durations \cup {None}]
    \cup [kind : {"RequestInfo"}, usable : BOOLEAN]

RawErrors == [code : Codes, readable : BOOLEAN, details : Seq(StatusDetails)]

\* Mutant of ParseRetryDelay: the bound on the delay is not applied.
ParseAnyDelay(delay) ==
    IF delay = None \/ delay.seconds < 0 \/ delay.nanos < 0
    THEN None
    ELSE delay.seconds * PartsPerSecond + delay.nanos

\* The delay in parts of a second, or None when it is absent, malformed or
\* beyond the bound.
ParseRetryDelay(delay) ==
    IF \/ delay = None
       \/ delay.seconds < 0 \/ delay.nanos < 0 \/ delay.nanos >= PartsPerSecond
       \/ delay.seconds * PartsPerSecond + delay.nanos > MaxRetryAfter
    THEN None
    ELSE delay.seconds * PartsPerSecond + delay.nanos

\* Mutant of Absorb: an unusable delay leaves the one before it in force.
AbsorbUsable(parsed, detail) ==
    [reason |->
        IF detail.kind = "ErrorInfo" /\ detail.usable
        THEN detail.reason
        ELSE parsed.reason,
     retryAfter |->
        IF detail.kind = "RetryInfo" /\ ParseRetryDelay(detail.delay) # None
        THEN ParseRetryDelay(detail.delay)
        ELSE parsed.retryAfter]

\* One turn of the loop over the details.  An unusable ErrorInfo is skipped; a
\* RetryInfo that unpacks replaces the delay even by None.
Absorb(parsed, detail) ==
    [reason |->
        IF detail.kind = "ErrorInfo" /\ detail.usable
        THEN detail.reason
        ELSE parsed.reason,
     retryAfter |->
        IF detail.kind = "RetryInfo" /\ detail.usable
        THEN ParseRetryDelay(detail.delay)
        ELSE parsed.retryAfter]

\* _parse_error_details.  A status that is missing, malformed or too large has
\* no details.
ParseErrorDetails(error) ==
    FoldLeft(Absorb, [reason |-> None, retryAfter |-> None],
             IF error.readable
             THEN SubSeq(error.details, 1, Min({Len(error.details), MaxErrorDetails}))
             ELSE << >>)

----
(* map_grpc_error: an ordered list of rules, the first that matches decides *)

\* retry is "never", "idempotent" or "always"; delayed says whether the rule
\* asks for a usable retry delay.
Rule(codes, reasons, error, retry, delayed) ==
    [codes |-> codes, reasons |-> reasons, error |-> error, retry |-> retry,
     delayed |-> delayed]

Plain(codes, reasons, error) == Rule(codes, reasons, error, "never", FALSE)

AccessRules ==
    << Plain({"UNAUTHENTICATED"}, AnyReason, "RemoteAuthenticationError"),
       Plain({"PERMISSION_DENIED"}, AnyReason, "RemoteAuthorizationError"),
       Plain({"UNIMPLEMENTED"}, AnyReason, "RemoteProtocolError"),
       Plain(Codes, {"INCOMPATIBLE_PROTOCOL"}, "RemoteProtocolError") >>

VerdictRules ==
    << Plain(Codes, {"TASK_ALREADY_FINISHED"}, "TaskAlreadyFinishedError"),
       Plain({"ALREADY_EXISTS"}, AnyReason, "RemoteConflictError"),
       Plain(Codes, {"IDEMPOTENCY_CONFLICT"}, "RemoteConflictError") >>

StateRules ==
    << Plain({"NOT_FOUND"}, {"TASK_NOT_FOUND"}, "TaskNotFoundError"),
       Plain({"NOT_FOUND"}, {"RUN_NOT_FOUND"}, "RemoteRunNotFoundError"),
       Plain({"NOT_FOUND"}, AnyReason, "RemoteProtocolError"),
       Plain({"FAILED_PRECONDITION"}, {"COMPETITION_ARENA_CLOSED"},
             "CompetitionClosedError"),
       Plain({"FAILED_PRECONDITION"}, AnyReason, "RemoteSessionLostError"),
       Plain({"INVALID_ARGUMENT"}, AnyReason, "RemoteRequestError") >>

Exhausted == {"RESOURCE_EXHAUSTED"}

LimitRules ==
    << Plain(Exhausted, RunCapacityReasons, "RunCapacityExceededError"),
       Plain(Exhausted, TaskCapacityReasons, "TaskCapacityExceededError"),
       Plain(Exhausted, OperationCapacityReasons, "OperationCapacityExceededError"),
       Plain(Exhausted, IdempotencyCapacityReasons, "IdempotencyCapacityExceededError"),
       Rule(Exhausted, RateLimitReasons, "RemoteRateLimitError", "always", TRUE),
       Plain(Exhausted, RateLimitReasons, "RemoteRateLimitError"),
       Plain(Exhausted, AnyReason, "RemoteProtocolError") >>

ConnectionRules ==
    << Rule({"UNAVAILABLE"}, AnyReason, "RemoteUnavailableError", "always", FALSE),
       Rule({"DEADLINE_EXCEEDED"}, AnyReason, "RemoteTransportError", "idempotent", FALSE),
       Plain({"CANCELLED"}, AnyReason, "RemoteTransportError"),
       Plain(Codes, AnyReason, "RemoteServerError") >>

\* Mutant of Rules: the connection is looked at before the verdict.
RulesConnectionFirst ==
    AccessRules \o SubSeq(ConnectionRules, 1, 3) \o VerdictRules \o StateRules
        \o LimitRules \o ConnectionRules

Rules == AccessRules \o VerdictRules \o StateRules \o LimitRules \o ConnectionRules

Exceptions == {Rules[i].error : i \in DOMAIN Rules}

ASSUME NoneAssumption ==
    None \notin RuntimeReasons \cup {"OTHER"} \cup Durations \cup Int \cup Exceptions

MapGrpcError(error, idempotent) ==
    LET parsed == ParseErrorDetails(error)
        matching == {i \in DOMAIN Rules :
                        /\ error.code \in Rules[i].codes
                        /\ parsed.reason \in Rules[i].reasons
                        /\ Rules[i].delayed => parsed.retryAfter # None}
        rule == Rules[Min(matching)]
    IN  [error |-> rule.error,
         retryable |-> rule.retry = "always" \/ (rule.retry = "idempotent" /\ idempotent),
         retryAfter |-> IF rule.delayed THEN parsed.retryAfter ELSE None]

\* The exceptions that are not RemoteClientErrors: the retry loop raises them
\* without asking whether they are retryable.
DomainErrors ==
    {"TaskAlreadyFinishedError", "TaskNotFoundError", "RunCapacityExceededError",
     "TaskCapacityExceededError", "OperationCapacityExceededError",
     "IdempotencyCapacityExceededError"}

====
