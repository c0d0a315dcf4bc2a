---- MODULE Decoders ----
(***************************************************************************)
(* The decoders of answers in remote/transport/mappers.py.  An answer is   *)
(* reduced to what they look at: whether it fits the size limit, whether   *)
(* its identifiers are those of the request, whether its values are        *)
(* readable, and the result of a task it may carry.                        *)
(***************************************************************************)

CONSTANT None

Completions == {"terminated", "truncated", "error", "aborted"}

\* Every field has its value, the reason perhaps none that is known.
TaskResults ==
    [own : BOOLEAN, sound : BOOLEAN, reason : Completions \cup {"unspecified"}]

ToolAnswers ==
    [of : {"call_tool"}, fits : BOOLEAN, ids : BOOLEAN, finite : BOOLEAN, readable : BOOLEAN,
     terminated : BOOLEAN, truncated : BOOLEAN, result : TaskResults \cup {None}]

AbortAnswers == [of : {"abort_task"}, run : BOOLEAN, result : TaskResults \cup {None}]

LeaseAnswers ==
    [of : {"lease_task"}, fits : BOOLEAN, outcome : {"leased", "exhausted", "unset"},
     run : BOOLEAN, task : BOOLEAN, readable : BOOLEAN]

\* States of a run; an enumeration may be unspecified or unknown.
RunStates == {"active", "closing", "closed", "unspecified"}

\* None is neither of the values that stand in its place.
ASSUME NoneAssumption == None \notin Completions \cup RunStates \cup {"session"}

RunAnswers == [of : {"create_run"}, id : BOOLEAN, state : RunStates]

CloseAnswers == [of : {"close_run"}, run : BOOLEAN, state : RunStates]

\* decode_task_result: sound stands for a usable identifier and finite numbers.
DecodesTaskResult(r) == r.reason # "unspecified" /\ r.sound

HasResult(a) == a.result # None

IsTerminal(a) == a.terminated \/ a.truncated

\* Mutant of TerminalStateAgrees: a flag without a result is let through.
ResultHasFlag(a) == HasResult(a) => IsTerminal(a)

TerminalStateAgrees(a) == HasResult(a) <=> IsTerminal(a)

ReasonAgrees(a) ==
    \/ a.terminated /\ a.result.reason = "terminated"
    \/ a.truncated /\ a.result.reason \in {"truncated", "error"}

DecodesToolCall(a) ==
    /\ a.fits
    /\ a.ids
    /\ TerminalStateAgrees(a) /\ a.finite
    /\ HasResult(a) => DecodesTaskResult(a.result) /\ a.result.own /\ ReasonAgrees(a)
    /\ a.readable

DecodesAbortTask(a) ==
    /\ a.run
    /\ HasResult(a)
    /\ DecodesTaskResult(a.result)
    /\ a.result.own

DecodesRun(a) == a.id /\ a.state # "unspecified"

DecodesCloseRun(a) == a.run /\ a.state \in {"closing", "closed"}

DecodesLeaseTask(a) ==
    /\ a.fits
    /\ a.outcome # "unset"
    /\ a.run
    /\ a.outcome = "leased" => a.task /\ a.readable

====
