---- MODULE MCGrpcTransport ----
(* Logical calls on small bounds. *)
EXTENDS GrpcTransport

CONSTANTS c1, c2

CallSymmetry == Permutations({c1, c2})

Status(code, reason, retry) ==
    [code |-> code, readable |-> TRUE,
     details |-> <<[kind |-> "ErrorInfo", usable |-> TRUE, reason |-> reason]>> \o retry]

\* A rate limit with a delay, a verdict about the task, and a verdict about the
\* request.  (A runtime that is unavailable looks like a failed connection.)
MCServerErrors ==
    {Status("RESOURCE_EXHAUSTED", "RATE_LIMITED",
            <<[kind |-> "RetryInfo", usable |-> TRUE, delay |-> [seconds |-> 3, nanos |-> 0]]>>),
     Status("FAILED_PRECONDITION", "TASK_ALREADY_FINISHED", << >>),
     Status("ALREADY_EXISTS", "IDEMPOTENCY_CONFLICT", << >>)}

====
