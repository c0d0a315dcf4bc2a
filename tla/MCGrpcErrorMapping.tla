---- MODULE MCGrpcErrorMapping ----
(* GrpcErrorMapping on every reason, alone and followed or preceded by the    *)
(* details that can change what is read from it.                              *)
EXTENDS GrpcErrorMapping

Infos == {[kind |-> "ErrorInfo", usable |-> TRUE, reason |-> r] : r \in AnyReason \ {None}}

\* Delays around the bounds: absent, negative, zero, the largest accepted one,
\* one part more, and a malformed count of parts.
Delays ==
    {None,
     [seconds |-> -1, nanos |-> 0],
     [seconds |-> 0, nanos |-> -1],
     [seconds |-> 0, nanos |-> 0],
     [seconds |-> 2, nanos |-> 0],
     [seconds |-> 2, nanos |-> 1],
     [seconds |-> 0, nanos |-> PartsPerSecond]}

Retries ==
    {[kind |-> "RetryInfo", usable |-> u, delay |-> d] : u \in BOOLEAN, d \in Delays}

Unusable == {[kind |-> "ErrorInfo", usable |-> FALSE, reason |-> "OTHER"],
             [kind |-> "RequestInfo", usable |-> TRUE]}

RateLimits == {i \in Infos : i.reason \in RateLimitReasons}

\* Sequences of up to four details; the bound MaxErrorDetails is 3.
MCDetails ==
    {<< >>}
    \cup {<<i>> : i \in Infos}
    \cup {<<i, r>> : i \in Infos, r \in Retries}
    \cup {<<r, i, s>> : i \in RateLimits, r \in Retries, s \in Retries}
    \cup {<<i, u, j>> : i \in RateLimits, u \in Unusable, j \in Infos}
    \cup {<<i, u, r, s>> : i \in RateLimits, u \in Unusable, r \in Retries,
                           s \in Retries \cup Infos}

====
