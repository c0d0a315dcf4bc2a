---- MODULE Codec ----
(***************************************************************************)
(* What crosses the boundary between the client and the wire: arguments    *)
(* that the session validates and the transport encodes, values that are   *)
(* decoded again, and answers that the transport decodes for the session   *)
(* and the client.  One message of a set of inputs is handled.             *)
(***************************************************************************)
EXTENDS DynamicValues, Decoders

CONSTANT Objects    \* top-level objects given as arguments

ASSUME CodecAssumption ==
    /\ Objects \subseteq {v \in Values : v.kind = "object"}
    /\ \A v \in Objects : Encodes(v) => Encoded(v) \in Messages

VARIABLES message, outcome

vars == <<message, outcome>>

Init ==
    /\ message \in [of : {"arguments"}, object : Objects, fits : BOOLEAN]
                    \cup ToolAnswers \cup AbortAnswers \cup LeaseAnswers
                    \cup RunAnswers \cup CloseAnswers
    /\ outcome = None

\* call_tool or open checks the object, and the transport encodes it.
Send ==
    /\ message.of = "arguments"
    /\ outcome' =
        IF ~IsValid(message.object) THEN [at |-> "client", sent |-> None]
        ELSE IF Encodes(message.object) /\ message.fits
             THEN [at |-> "wire", sent |-> Encoded(message.object)]
             ELSE [at |-> "codec", sent |-> None]

\* The session's view of an answer that the transport has decoded: its
\* identifiers are right, the result is the task's own, the task has ended.
View(ids, own, ended, result) ==
    [at |-> "session", ids |-> ids, own |-> own, ended |-> ended, result |-> result]

Result(a) == IF HasResult(a) THEN a.result.reason ELSE None
Own(a) == HasResult(a) => a.result.own

ReceiveTool ==
    /\ message.of = "call_tool"
    /\ outcome' = IF DecodesToolCall(message)
                  THEN View(message.ids, Own(message), IsTerminal(message), Result(message))
                  ELSE [at |-> "codec", sent |-> None]

ReceiveAbort ==
    /\ message.of = "abort_task"
    /\ outcome' = IF DecodesAbortTask(message)
                  THEN View(message.run, Own(message), TRUE, Result(message))
                  ELSE [at |-> "codec", sent |-> None]

\* start_task returns None for an exhausted queue only.
ReceiveLease ==
    /\ message.of = "lease_task"
    /\ outcome' = IF DecodesLeaseTask(message)
                  THEN View(message.run, TRUE, FALSE,
                            IF message.outcome = "leased" THEN "session" ELSE None)
                  ELSE [at |-> "codec", sent |-> None]

\* open takes an active run only; aclose looks at nothing but the failure.
ReceiveRun ==
    /\ message.of = "create_run"
    /\ outcome' = IF ~DecodesRun(message) THEN [at |-> "codec", sent |-> None]
                  ELSE IF message.state # "active" THEN [at |-> "client", sent |-> None]
                  ELSE View(TRUE, TRUE, FALSE, message.state)

ReceiveClose ==
    /\ message.of = "close_run"
    /\ outcome' = IF DecodesCloseRun(message)
                  THEN View(message.run, TRUE, TRUE, message.state)
                  ELSE [at |-> "codec", sent |-> None]

Next ==
    /\ outcome = None
    /\ Send \/ ReceiveTool \/ ReceiveAbort \/ ReceiveLease
       \/ ReceiveRun \/ ReceiveClose
    /\ UNCHANGED message

Spec == Init /\ [][Next]_vars

----
(* What a canonical value is, told without a walk that counts *)

\* A scalar and a key are ones that the wire can carry.
Sound(v) ==
    /\ v.kind # "other"
    /\ v.kind \in {"integer", "float"} => v.data = 0
    /\ v.kind = "string" => v.data <= MaxStringBytes
    /\ \A i \in DOMAIN v.entries : v.entries[i].key <= MaxStringBytes

\* At most n levels are nested in the value, and all of them are sound.
Nests[n \in 0 .. MaxDepth] ==
    [v \in Values |->
        /\ Sound(v)
        /\ IF n = 0 THEN v.entries = << >>
           ELSE \A i \in DOMAIN v.entries : Nests[n - 1][v.entries[i].value]]

Add(size) == [n \in Nat |-> [e \in Entries(Values) |-> n + size[e.value]]]

\* The number of entries at all levels, of which there are n.
Size[n \in 0 .. MaxDepth] ==
    [v \in Values |->
        IF n = 0 THEN 0 ELSE Fold(Add(Size[n - 1]), Len(v.entries), v.entries)]

Canonical(v) == Nests[MaxDepth][v] /\ Size[MaxDepth][v] <= MaxItems

----
(* Properties *)

\* The two implementations of the limits are the same and are exact: what the
\* client refuses would not have been encoded, what it lets through is refused
\* later only for the size of the whole message, and both agree with the bounds
\* on depth, entries and strings as the limits declare them.
LimitsAgree ==
    message.of = "arguments" =>
        /\ IsValid(message.object) <=> Canonical(message.object)
        /\ Encodes(message.object) <=> Canonical(message.object)
        /\ outcome # None => (outcome.at = "codec" <=> Canonical(message.object) /\ ~message.fits)

\* What was sent reads as the same value under the same limits, its type and its
\* nesting included.
RoundTrip ==
    message.of = "arguments" /\ outcome # None /\ outcome.sent # None =>
        /\ Decodes(outcome.sent)
        /\ Decoded(outcome.sent) = message.object

\* The session never has to refuse what the decoders let through, and the agent
\* may trust the reason: a task that a tool call ended was not aborted, and it
\* ended the way its flags say.  A client is open on an active run only, and
\* a run that was closed is not active.
DecodedIsAccepted ==
    outcome # None /\ outcome.at = "session" =>
        /\ outcome.ids
        /\ outcome.result # None => outcome.own
        /\ message.of = "call_tool" =>
            /\ outcome.ended <=> outcome.result # None
            /\ outcome.result # "aborted"
            /\ outcome.result = "terminated" => message.terminated
            /\ outcome.result \in {"truncated", "error"} => message.truncated
        /\ message.of = "abort_task" => outcome.result \in Completions
        /\ message.of = "lease_task" => (outcome.result = None <=> message.outcome = "exhausted")
        /\ message.of = "create_run" <=> outcome.result = "active"

====
