---- MODULE GrpcErrorMapping ----
(***************************************************************************)
(* One call of map_grpc_error on every raw error of a set of inputs.       *)
(***************************************************************************)
EXTENDS GrpcErrors

CONSTANT Details    \* sequences of status details

ASSUME DetailsAssumption == Details \subseteq Seq(StatusDetails)

VARIABLES rawError, isIdempotent, mappedError

mappingVars == <<rawError, isIdempotent, mappedError>>

MappingInit ==
    /\ rawError \in [code : Codes, readable : BOOLEAN, details : Details]
    /\ isIdempotent \in BOOLEAN
    /\ mappedError = None

MapError ==
    /\ mappedError = None
    /\ mappedError' = MapGrpcError(rawError, isIdempotent)
    /\ UNCHANGED <<rawError, isIdempotent>>

MappingNext == MapError

MappingSpec == MappingInit /\ [][MappingNext]_mappingVars

----
(* What the details say, told without the loop over them *)

Visible ==
    IF rawError.readable
    THEN {i \in DOMAIN rawError.details : i <= MaxErrorDetails}
    ELSE {}

\* The last usable detail of a kind decides.
LastOf(kind) ==
    LET those == {i \in Visible : /\ rawError.details[i].kind = kind
                                  /\ rawError.details[i].usable}
    IN  IF those = {} THEN 0 ELSE Max(those)

Reason ==
    IF LastOf("ErrorInfo") = 0 THEN None ELSE rawError.details[LastOf("ErrorInfo")].reason

Delay ==
    IF LastOf("RetryInfo") = 0 THEN None ELSE rawError.details[LastOf("RetryInfo")].delay

----
(* Properties *)

\* An attempt is repeated only if the code of the error leaves the request
\* undecided: the runtime was not reached or did not answer in time, or it set a
\* time at which to come back.  Three verdicts that a repetition may meet are
\* never taken for a failed connection, whatever code they come with: the task is
\* finished, the identifier was used for another request, the protocol does not
\* fit.  (Other reasons, such as RUN_CLOSED, do not stop a retry of UNAVAILABLE.)
RetryOnlyUndecided ==
    mappedError # None /\ mappedError.retryable =>
        /\ Reason \notin {"TASK_ALREADY_FINISHED", "IDEMPOTENCY_CONFLICT",
                          "INCOMPATIBLE_PROTOCOL"}
        /\ \/ rawError.code = "UNAVAILABLE"
           \/ rawError.code = "DEADLINE_EXCEEDED" /\ isIdempotent
           \/ rawError.code = "RESOURCE_EXHAUSTED" /\ Reason \in RateLimitReasons

\* The delay the loop is told to sleep is the last one the status carries, and
\* is never beyond the bound the user has set; a delay that is malformed or too
\* long makes the error final.
RetryDelayIsTheServers ==
    mappedError # None =>
        /\ mappedError.retryAfter # None =>
            /\ mappedError.retryAfter \in 0 .. MaxRetryAfter
            /\ Delay # None
            /\ mappedError.retryAfter = Delay.seconds * PartsPerSecond + Delay.nanos
            /\ Delay.nanos \in 0 .. PartsPerSecond - 1
        /\ mappedError.error = "RemoteRateLimitError" =>
            (mappedError.retryable <=> mappedError.retryAfter # None)

\* Every limit in LimitReasons, which is the list of the protocol as it is now, has
\* an exception of its own kind: whatever comes with it and in whichever order the
\* rules are, it does not end as an "unknown resource-exhaustion reason".
LimitsHaveTheirError ==
    mappedError # None /\ rawError.code = "RESOURCE_EXHAUSTED" /\ Reason \in LimitReasons =>
        mappedError.error \in
            {"RunCapacityExceededError", "TaskCapacityExceededError",
             "OperationCapacityExceededError", "IdempotencyCapacityExceededError",
             "RemoteRateLimitError"}

====
