---- MODULE TaskOutcome ----
(***************************************************************************)
(* What a session promises about the outcome of its task, whatever its     *)
(* callers, the transport and the server do: the task ends once, the       *)
(* session learns that one result or nothing, and it never forgets or      *)
(* replaces what it learned.                                               *)
(***************************************************************************)
CONSTANTS Results, None

VARIABLES
    result,     \* how the task ended
    known,      \* what the session knows of it
    abort       \* the result every repetition of abort_task returns

vars == <<result, known, abort>>

Init == result = None /\ known = None /\ abort = None

Finish ==
    /\ result = None
    /\ result' \in Results
    /\ UNCHANGED <<known, abort>>

LearnFromTool ==
    /\ result # None
    /\ known' = result
    /\ UNCHANGED <<result, abort>>

LearnFromAbort ==
    /\ result # None
    /\ known' = result
    /\ abort' = result
    /\ UNCHANGED result

Next == Finish \/ LearnFromTool \/ LearnFromAbort

Spec == Init /\ [][Next]_vars

====
